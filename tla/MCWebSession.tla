---------------------------- MODULE MCWebSession ----------------------------
(* A small instance of WebSession: two codecs, two frames in flight, two
   changes of what is advertised. *)
EXTENDS WebSession
MCCodecs == {"vp9", "h264"}
=============================================================================
