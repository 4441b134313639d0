---------------------------- MODULE MessageProto ----------------------------
(* The messages of the session's protocol, as the web client reads and writes
   them (src/webclient/src/gen/message.ts): for each message its fields in the
   order they are written, with their numbers and what they hold. *)
EXTENDS WireFields

EncodedVideoFrame == <<One("data", 1, "bytes"), One("key", 2, "bool"), One("pts", 3, "int64")>>
EncodedVideoFrames == <<Many("frames", 1, "EncodedVideoFrame")>>
RGB == <<One("compress", 1, "bool")>>
YUV == <<One("compress", 1, "bool"), One("stride", 2, "int32")>>
VideoFrame ==
    <<Case("vp9s", 6, "EncodedVideoFrames"), Case("rgb", 7, "RGB"), Case("yuv", 8, "YUV"),
      Case("h264s", 10, "EncodedVideoFrames"), Case("h265s", 11, "EncodedVideoFrames"),
      Case("vp8s", 12, "EncodedVideoFrames"), Case("av1s", 13, "EncodedVideoFrames"),
      One("display", 14, "int32")>>
IdPk == <<One("id", 1, "string"), One("pk", 2, "bytes")>>
DisplayInfo ==
    <<One("x", 1, "sint32"), One("y", 2, "sint32"), One("width", 3, "int32"),
      One("height", 4, "int32"), One("name", 5, "string"), One("online", 6, "bool"),
      One("cursor_embedded", 7, "bool"), May("original_resolution", 8, "Resolution"),
      One("scale", 9, "double")>>
PortForward == <<One("host", 1, "string"), One("port", 2, "int32")>>
FileTransfer == <<One("dir", 1, "string"), One("show_hidden", 2, "bool")>>
ViewCamera == <<>>
OSLogin == <<One("username", 1, "string"), One("password", 2, "string")>>
LoginRequest ==
    <<One("username", 1, "string"), One("password", 2, "bytes"), One("my_id", 4, "string"),
      One("my_name", 5, "string"), May("option", 6, "OptionMessage"),
      Case("file_transfer", 7, "FileTransfer"), Case("port_forward", 8, "PortForward"),
      Case("view_camera", 15, "ViewCamera"), Case("terminal", 16, "Terminal"),
      One("video_ack_required", 9, "bool"), One("session_id", 10, "uint64"),
      One("version", 11, "string"), May("os_login", 12, "OSLogin"),
      One("my_platform", 13, "string"), One("hwid", 14, "bytes"), One("avatar", 17, "string")>>
Terminal == <<One("service_id", 1, "string")>>
Auth2FA == <<One("code", 1, "string"), One("hwid", 2, "bytes")>>
ChatMessage == <<One("text", 1, "string")>>
Features == <<One("privacy_mode", 1, "bool"), One("terminal", 2, "bool")>>
CodecAbility ==
    <<One("vp8", 1, "bool"), One("vp9", 2, "bool"), One("av1", 3, "bool"),
      One("h264", 4, "bool"), One("h265", 5, "bool")>>
SupportedEncoding ==
    <<One("h264", 1, "bool"), One("h265", 2, "bool"), One("vp8", 3, "bool"),
      One("av1", 4, "bool"), May("i444", 5, "CodecAbility")>>
PeerInfo ==
    <<One("username", 1, "string"), One("hostname", 2, "string"), One("platform", 3, "string"),
      Many("displays", 4, "DisplayInfo"), One("current_display", 5, "int32"),
      One("sas_enabled", 6, "bool"), One("version", 7, "string"),
      May("features", 9, "Features"), May("encoding", 10, "SupportedEncoding"),
      May("resolutions", 11, "SupportedResolutions"), One("platform_additions", 12, "string"),
      May("windows_sessions", 13, "WindowsSessions")>>
WindowsSession == <<One("sid", 1, "uint32"), One("name", 2, "string")>>
LoginResponse ==
    <<Case("error", 1, "string"), Case("peer_info", 2, "PeerInfo"),
      One("enable_trusted_devices", 3, "bool")>>
TouchScaleUpdate == <<One("scale", 1, "int32")>>
TouchPanStart == <<One("x", 1, "int32"), One("y", 2, "int32")>>
TouchPanUpdate == <<One("x", 1, "int32"), One("y", 2, "int32")>>
TouchPanEnd == <<One("x", 1, "int32"), One("y", 2, "int32")>>
TouchEvent ==
    <<Case("scale_update", 1, "TouchScaleUpdate"), Case("pan_start", 2, "TouchPanStart"),
      Case("pan_update", 3, "TouchPanUpdate"), Case("pan_end", 4, "TouchPanEnd")>>
PointerDeviceEvent == <<Case("touch_event", 1, "TouchEvent"), Packed("modifiers", 2, "int32")>>
MouseEvent ==
    <<One("mask", 1, "int32"), One("x", 2, "sint32"), One("y", 3, "sint32"),
      Packed("modifiers", 4, "int32")>>
KeyEvent ==
    <<One("down", 1, "bool"), One("press", 2, "bool"), Case("control_key", 3, "int32"),
      Case("chr", 4, "uint32"), Case("unicode", 5, "uint32"), Case("seq", 6, "string"),
      Case("win2win_hotkey", 7, "uint32"), Packed("modifiers", 8, "int32"),
      One("mode", 9, "int32")>>
CursorData ==
    <<One("id", 1, "uint64"), One("hotx", 2, "sint32"), One("hoty", 3, "sint32"),
      One("width", 4, "int32"), One("height", 5, "int32"), One("colors", 6, "bytes")>>
CursorPosition == <<One("x", 1, "sint32"), One("y", 2, "sint32")>>
Hash == <<One("salt", 1, "string"), One("challenge", 2, "string")>>
Clipboard ==
    <<One("compress", 1, "bool"), One("content", 2, "bytes"), One("width", 3, "int32"),
      One("height", 4, "int32"), One("format", 5, "int32"), One("special_name", 6, "string")>>
MultiClipboards == <<Many("clipboards", 1, "Clipboard")>>
FileEntry ==
    <<One("entry_type", 1, "int32"), One("name", 2, "string"), One("is_hidden", 3, "bool"),
      One("size", 4, "uint64"), One("modified_time", 5, "uint64")>>
FileDirectory ==
    <<One("id", 1, "int32"), One("path", 2, "string"), Many("entries", 3, "FileEntry")>>
ReadDir == <<One("path", 1, "string"), One("include_hidden", 2, "bool")>>
ReadEmptyDirs == <<One("path", 1, "string"), One("include_hidden", 2, "bool")>>
ReadEmptyDirsResponse == <<One("path", 1, "string"), Many("empty_dirs", 2, "FileDirectory")>>
ReadAllFiles ==
    <<One("id", 1, "int32"), One("path", 2, "string"), One("include_hidden", 3, "bool")>>
FileRename == <<One("id", 1, "int32"), One("path", 2, "string"), One("new_name", 3, "string")>>
FileAction ==
    <<Case("read_dir", 1, "ReadDir"), Case("send", 2, "FileTransferSendRequest"),
      Case("receive", 3, "FileTransferReceiveRequest"), Case("create", 4, "FileDirCreate"),
      Case("remove_dir", 5, "FileRemoveDir"), Case("remove_file", 6, "FileRemoveFile"),
      Case("all_files", 7, "ReadAllFiles"), Case("cancel", 8, "FileTransferCancel"),
      Case("send_confirm", 9, "FileTransferSendConfirmRequest"),
      Case("rename", 10, "FileRename"), Case("read_empty_dirs", 11, "ReadEmptyDirs")>>
FileTransferCancel == <<One("id", 1, "int32")>>
FileResponse ==
    <<Case("dir", 1, "FileDirectory"), Case("block", 2, "FileTransferBlock"),
      Case("error", 3, "FileTransferError"), Case("done", 4, "FileTransferDone"),
      Case("digest", 5, "FileTransferDigest"), Case("empty_dirs", 6, "ReadEmptyDirsResponse")>>
FileTransferDigest ==
    <<One("id", 1, "int32"), One("file_num", 2, "sint32"), One("last_modified", 3, "uint64"),
      One("file_size", 4, "uint64"), One("is_upload", 5, "bool"),
      One("is_identical", 6, "bool"), One("transferred_size", 7, "uint64"),
      One("is_resume", 8, "bool")>>
FileTransferBlock ==
    <<One("id", 1, "int32"), One("file_num", 2, "sint32"), One("data", 3, "bytes"),
      One("compressed", 4, "bool"), One("blk_id", 5, "uint32")>>
FileTransferError ==
    <<One("id", 1, "int32"), One("error", 2, "string"), One("file_num", 3, "sint32")>>
FileTransferSendRequest ==
    <<One("id", 1, "int32"), One("path", 2, "string"), One("include_hidden", 3, "bool"),
      One("file_num", 4, "int32"), One("file_type", 5, "int32")>>
FileTransferSendConfirmRequest ==
    <<One("id", 1, "int32"), One("file_num", 2, "sint32"), Case("skip", 3, "bool"),
      Case("offset_blk", 4, "uint32")>>
FileTransferDone == <<One("id", 1, "int32"), One("file_num", 2, "sint32")>>
FileTransferReceiveRequest ==
    <<One("id", 1, "int32"), One("path", 2, "string"), Many("files", 3, "FileEntry"),
      One("file_num", 4, "int32"), One("total_size", 5, "uint64")>>
FileRemoveDir ==
    <<One("id", 1, "int32"), One("path", 2, "string"), One("recursive", 3, "bool")>>
FileRemoveFile ==
    <<One("id", 1, "int32"), One("path", 2, "string"), One("file_num", 3, "sint32")>>
FileDirCreate == <<One("id", 1, "int32"), One("path", 2, "string")>>
CliprdrMonitorReady == <<>>
CliprdrFormat == <<One("id", 2, "int32"), One("format", 3, "string")>>
CliprdrServerFormatList == <<Many("formats", 2, "CliprdrFormat")>>
CliprdrServerFormatListResponse == <<One("msg_flags", 2, "int32")>>
CliprdrServerFormatDataRequest == <<One("requested_format_id", 2, "int32")>>
CliprdrServerFormatDataResponse ==
    <<One("msg_flags", 2, "int32"), One("format_data", 3, "bytes")>>
CliprdrFileContentsRequest ==
    <<One("stream_id", 2, "int32"), One("list_index", 3, "int32"), One("dw_flags", 4, "int32"),
      One("n_position_low", 5, "int32"), One("n_position_high", 6, "int32"),
      One("cb_requested", 7, "int32"), One("have_clip_data_id", 8, "bool"),
      One("clip_data_id", 9, "int32")>>
CliprdrFileContentsResponse ==
    <<One("msg_flags", 3, "int32"), One("stream_id", 4, "int32"),
      One("requested_data", 5, "bytes")>>
CliprdrTryEmpty == <<>>
CliprdrFile == <<One("name", 1, "string"), One("size", 2, "uint64")>>
CliprdrFiles == <<Many("files", 1, "CliprdrFile")>>
Cliprdr ==
    <<Case("ready", 1, "CliprdrMonitorReady"),
      Case("format_list", 2, "CliprdrServerFormatList"),
      Case("format_list_response", 3, "CliprdrServerFormatListResponse"),
      Case("format_data_request", 4, "CliprdrServerFormatDataRequest"),
      Case("format_data_response", 5, "CliprdrServerFormatDataResponse"),
      Case("file_contents_request", 6, "CliprdrFileContentsRequest"),
      Case("file_contents_response", 7, "CliprdrFileContentsResponse"),
      Case("try_empty", 8, "CliprdrTryEmpty"), Case("files", 9, "CliprdrFiles")>>
Resolution == <<One("width", 1, "int32"), One("height", 2, "int32")>>
DisplayResolution == <<One("display", 1, "int32"), May("resolution", 2, "Resolution")>>
SupportedResolutions == <<Many("resolutions", 1, "Resolution")>>
SwitchDisplay ==
    <<One("display", 1, "int32"), One("x", 2, "sint32"), One("y", 3, "sint32"),
      One("width", 4, "int32"), One("height", 5, "int32"), One("cursor_embedded", 6, "bool"),
      May("resolutions", 7, "SupportedResolutions"),
      May("original_resolution", 8, "Resolution")>>
CaptureDisplays ==
    <<Packed("add", 1, "int32"), Packed("sub", 2, "int32"), Packed("set", 3, "int32")>>
ToggleVirtualDisplay == <<One("display", 1, "int32"), One("on", 2, "bool")>>
TogglePrivacyMode == <<One("impl_key", 1, "string"), One("on", 2, "bool")>>
PermissionInfo == <<One("permission", 1, "int32"), One("enabled", 2, "bool")>>
SupportedDecoding ==
    <<One("ability_vp9", 1, "int32"), One("ability_h264", 2, "int32"),
      One("ability_h265", 3, "int32"), One("prefer", 4, "int32"),
      One("ability_vp8", 5, "int32"), One("ability_av1", 6, "int32"),
      May("i444", 7, "CodecAbility"), One("prefer_chroma", 8, "int32")>>
OptionMessage ==
    <<One("image_quality", 1, "int32"), One("lock_after_session_end", 2, "int32"),
      One("show_remote_cursor", 3, "int32"), One("privacy_mode", 4, "int32"),
      One("block_input", 5, "int32"), One("custom_image_quality", 6, "int32"),
      One("disable_audio", 7, "int32"), One("disable_clipboard", 8, "int32"),
      One("enable_file_transfer", 9, "int32"),
      May("supported_decoding", 10, "SupportedDecoding"), One("custom_fps", 11, "int32"),
      One("disable_keyboard", 12, "int32"), One("follow_remote_cursor", 15, "int32"),
      One("follow_remote_window", 16, "int32"), One("disable_camera", 17, "int32"),
      One("terminal_persistent", 18, "int32"), One("show_my_cursor", 19, "int32")>>
TestDelay ==
    <<One("time", 1, "int64"), One("from_client", 2, "bool"), One("last_delay", 3, "uint32"),
      One("target_bitrate", 4, "uint32")>>
PublicKey == <<One("asymmetric_value", 1, "bytes"), One("symmetric_value", 2, "bytes")>>
SignedId == <<One("id", 1, "bytes")>>
AudioFormat == <<One("sample_rate", 1, "uint32"), One("channels", 2, "uint32")>>
AudioFrame == <<One("data", 1, "bytes")>>
MessageBox ==
    <<One("msgtype", 1, "string"), One("title", 2, "string"), One("text", 3, "string"),
      One("link", 4, "string")>>
BackNotification ==
    <<Case("privacy_mode_state", 1, "int32"), Case("block_input_state", 2, "int32"),
      One("details", 3, "string"), One("impl_key", 4, "string")>>
ElevationRequestWithLogon == <<One("username", 1, "string"), One("password", 2, "string")>>
ElevationRequest == <<Case("direct", 1, "bool"), Case("logon", 2, "ElevationRequestWithLogon")>>
SwitchSidesRequest == <<One("uuid", 1, "bytes")>>
SwitchSidesResponse == <<One("uuid", 1, "bytes"), May("lr", 2, "LoginRequest")>>
SwitchBack == <<>>
PluginRequest == <<One("id", 1, "string"), One("content", 2, "bytes")>>
PluginFailure == <<One("id", 1, "string"), One("name", 2, "string"), One("msg", 3, "string")>>
WindowsSessions == <<Many("sessions", 1, "WindowsSession"), One("current_sid", 2, "uint32")>>
MessageQuery == <<One("switch_display", 1, "int32")>>
Misc ==
    <<Case("chat_message", 4, "ChatMessage"), Case("switch_display", 5, "SwitchDisplay"),
      Case("permission_info", 6, "PermissionInfo"), Case("option", 7, "OptionMessage"),
      Case("audio_format", 8, "AudioFormat"), Case("close_reason", 9, "string"),
      Case("refresh_video", 10, "bool"), Case("video_received", 12, "bool"),
      Case("back_notification", 13, "BackNotification"),
      Case("restart_remote_device", 14, "bool"), Case("uac", 15, "bool"),
      Case("foreground_window_elevated", 16, "bool"), Case("stop_service", 17, "bool"),
      Case("elevation_request", 18, "ElevationRequest"),
      Case("elevation_response", 19, "string"), Case("portable_service_running", 20, "bool"),
      Case("switch_sides_request", 21, "SwitchSidesRequest"),
      Case("switch_back", 22, "SwitchBack"), Case("change_resolution", 24, "Resolution"),
      Case("plugin_request", 25, "PluginRequest"), Case("plugin_failure", 26, "PluginFailure"),
      Case("full_speed_fps", 27, "uint32"), Case("auto_adjust_fps", 28, "uint32"),
      Case("client_record_status", 29, "bool"), Case("capture_displays", 30, "CaptureDisplays"),
      Case("refresh_video_display", 31, "int32"),
      Case("toggle_virtual_display", 32, "ToggleVirtualDisplay"),
      Case("toggle_privacy_mode", 33, "TogglePrivacyMode"),
      Case("supported_encoding", 34, "SupportedEncoding"), Case("selected_sid", 35, "uint32"),
      Case("change_display_resolution", 36, "DisplayResolution"),
      Case("message_query", 37, "MessageQuery"), Case("follow_current_display", 38, "int32")>>
VoiceCallRequest == <<One("req_timestamp", 1, "int64"), One("is_connect", 2, "bool")>>
VoiceCallResponse ==
    <<One("accepted", 1, "bool"), One("req_timestamp", 2, "int64"),
      One("ack_timestamp", 3, "int64")>>
ScreenshotRequest == <<One("display", 1, "int32"), One("sid", 2, "string")>>
ScreenshotResponse ==
    <<One("sid", 1, "string"), One("msg", 2, "string"), One("data", 3, "bytes")>>
OpenTerminal ==
    <<One("terminal_id", 1, "int32"), One("rows", 2, "uint32"), One("cols", 3, "uint32")>>
ResizeTerminal ==
    <<One("terminal_id", 1, "int32"), One("rows", 2, "uint32"), One("cols", 3, "uint32")>>
TerminalData ==
    <<One("terminal_id", 1, "int32"), One("data", 2, "bytes"), One("compressed", 3, "bool")>>
CloseTerminal == <<One("terminal_id", 1, "int32")>>
TerminalAction ==
    <<Case("open", 1, "OpenTerminal"), Case("data", 2, "TerminalData"),
      Case("resize", 3, "ResizeTerminal"), Case("close", 4, "CloseTerminal")>>
TerminalOpened ==
    <<One("terminal_id", 1, "int32"), One("success", 2, "bool"), One("message", 3, "string"),
      One("pid", 4, "uint32"), One("service_id", 5, "string"),
      Packed("persistent_sessions", 6, "int32"), One("replay_terminal_output", 7, "bool")>>
TerminalClosed == <<One("terminal_id", 1, "int32"), One("exit_code", 2, "int32")>>
TerminalError == <<One("terminal_id", 1, "int32"), One("message", 2, "string")>>
TerminalResponse ==
    <<Case("opened", 1, "TerminalOpened"), Case("data", 2, "TerminalData"),
      Case("closed", 3, "TerminalClosed"), Case("error", 4, "TerminalError")>>
Message ==
    <<Case("signed_id", 3, "SignedId"), Case("public_key", 4, "PublicKey"),
      Case("test_delay", 5, "TestDelay"), Case("video_frame", 6, "VideoFrame"),
      Case("login_request", 7, "LoginRequest"), Case("login_response", 8, "LoginResponse"),
      Case("hash", 9, "Hash"), Case("mouse_event", 10, "MouseEvent"),
      Case("audio_frame", 11, "AudioFrame"), Case("cursor_data", 12, "CursorData"),
      Case("cursor_position", 13, "CursorPosition"), Case("cursor_id", 14, "uint64"),
      Case("key_event", 15, "KeyEvent"), Case("clipboard", 16, "Clipboard"),
      Case("file_action", 17, "FileAction"), Case("file_response", 18, "FileResponse"),
      Case("misc", 19, "Misc"), Case("cliprdr", 20, "Cliprdr"),
      Case("message_box", 21, "MessageBox"),
      Case("switch_sides_response", 22, "SwitchSidesResponse"),
      Case("voice_call_request", 23, "VoiceCallRequest"),
      Case("voice_call_response", 24, "VoiceCallResponse"), Case("peer_info", 25, "PeerInfo"),
      Case("pointer_device_event", 26, "PointerDeviceEvent"), Case("auth_2fa", 27, "Auth2FA"),
      Case("multi_clipboards", 28, "MultiClipboards"),
      Case("screenshot_request", 29, "ScreenshotRequest"),
      Case("screenshot_response", 30, "ScreenshotResponse"),
      Case("terminal_action", 31, "TerminalAction"),
      Case("terminal_response", 32, "TerminalResponse")>>
-----------------------------------------------------------------------------
\* The messages by name.
ByName ==
    [EncodedVideoFrame |-> EncodedVideoFrame, EncodedVideoFrames |-> EncodedVideoFrames,
     RGB |-> RGB, YUV |-> YUV, VideoFrame |-> VideoFrame, IdPk |-> IdPk,
     DisplayInfo |-> DisplayInfo, PortForward |-> PortForward, FileTransfer |-> FileTransfer,
     ViewCamera |-> ViewCamera, OSLogin |-> OSLogin, LoginRequest |-> LoginRequest,
     Terminal |-> Terminal, Auth2FA |-> Auth2FA, ChatMessage |-> ChatMessage,
     Features |-> Features, CodecAbility |-> CodecAbility,
     SupportedEncoding |-> SupportedEncoding, PeerInfo |-> PeerInfo,
     WindowsSession |-> WindowsSession, LoginResponse |-> LoginResponse,
     TouchScaleUpdate |-> TouchScaleUpdate, TouchPanStart |-> TouchPanStart,
     TouchPanUpdate |-> TouchPanUpdate, TouchPanEnd |-> TouchPanEnd, TouchEvent |-> TouchEvent,
     PointerDeviceEvent |-> PointerDeviceEvent, MouseEvent |-> MouseEvent,
     KeyEvent |-> KeyEvent, CursorData |-> CursorData, CursorPosition |-> CursorPosition,
     Hash |-> Hash, Clipboard |-> Clipboard, MultiClipboards |-> MultiClipboards,
     FileEntry |-> FileEntry, FileDirectory |-> FileDirectory, ReadDir |-> ReadDir,
     ReadEmptyDirs |-> ReadEmptyDirs, ReadEmptyDirsResponse |-> ReadEmptyDirsResponse,
     ReadAllFiles |-> ReadAllFiles, FileRename |-> FileRename, FileAction |-> FileAction,
     FileTransferCancel |-> FileTransferCancel, FileResponse |-> FileResponse,
     FileTransferDigest |-> FileTransferDigest, FileTransferBlock |-> FileTransferBlock,
     FileTransferError |-> FileTransferError,
     FileTransferSendRequest |-> FileTransferSendRequest,
     FileTransferSendConfirmRequest |-> FileTransferSendConfirmRequest,
     FileTransferDone |-> FileTransferDone,
     FileTransferReceiveRequest |-> FileTransferReceiveRequest, FileRemoveDir |-> FileRemoveDir,
     FileRemoveFile |-> FileRemoveFile, FileDirCreate |-> FileDirCreate,
     CliprdrMonitorReady |-> CliprdrMonitorReady, CliprdrFormat |-> CliprdrFormat,
     CliprdrServerFormatList |-> CliprdrServerFormatList,
     CliprdrServerFormatListResponse |-> CliprdrServerFormatListResponse,
     CliprdrServerFormatDataRequest |-> CliprdrServerFormatDataRequest,
     CliprdrServerFormatDataResponse |-> CliprdrServerFormatDataResponse,
     CliprdrFileContentsRequest |-> CliprdrFileContentsRequest,
     CliprdrFileContentsResponse |-> CliprdrFileContentsResponse,
     CliprdrTryEmpty |-> CliprdrTryEmpty, CliprdrFile |-> CliprdrFile,
     CliprdrFiles |-> CliprdrFiles, Cliprdr |-> Cliprdr, Resolution |-> Resolution,
     DisplayResolution |-> DisplayResolution, SupportedResolutions |-> SupportedResolutions,
     SwitchDisplay |-> SwitchDisplay, CaptureDisplays |-> CaptureDisplays,
     ToggleVirtualDisplay |-> ToggleVirtualDisplay, TogglePrivacyMode |-> TogglePrivacyMode,
     PermissionInfo |-> PermissionInfo, SupportedDecoding |-> SupportedDecoding,
     OptionMessage |-> OptionMessage, TestDelay |-> TestDelay, PublicKey |-> PublicKey,
     SignedId |-> SignedId, AudioFormat |-> AudioFormat, AudioFrame |-> AudioFrame,
     MessageBox |-> MessageBox, BackNotification |-> BackNotification,
     ElevationRequestWithLogon |-> ElevationRequestWithLogon,
     ElevationRequest |-> ElevationRequest, SwitchSidesRequest |-> SwitchSidesRequest,
     SwitchSidesResponse |-> SwitchSidesResponse, SwitchBack |-> SwitchBack,
     PluginRequest |-> PluginRequest, PluginFailure |-> PluginFailure,
     WindowsSessions |-> WindowsSessions, MessageQuery |-> MessageQuery, Misc |-> Misc,
     VoiceCallRequest |-> VoiceCallRequest, VoiceCallResponse |-> VoiceCallResponse,
     ScreenshotRequest |-> ScreenshotRequest, ScreenshotResponse |-> ScreenshotResponse,
     OpenTerminal |-> OpenTerminal, ResizeTerminal |-> ResizeTerminal,
     TerminalData |-> TerminalData, CloseTerminal |-> CloseTerminal,
     TerminalAction |-> TerminalAction, TerminalOpened |-> TerminalOpened,
     TerminalClosed |-> TerminalClosed, TerminalError |-> TerminalError,
     TerminalResponse |-> TerminalResponse, Message |-> Message]
=============================================================================
