--------------------------- MODULE MCWebFeatures ---------------------------
(* The features of the web client's page that live inside a session, one at a
   time: a behaviour begins with the feature it is about, and the others rest.
   They share no state in the code but the session, which each model reduces to
   whether it is up. *)
EXTENDS VoiceCall, FileDownload, FileUpload, RestartFlow, RemoteSecurity, Wire

VARIABLE focus

featureVars == <<focus, voiceVars, dlVars, upVars, restartVars, securityVars, wireVars>>

MCWireNames == DOMAIN Rendezvous!ByName \cup DOMAIN Session!ByName

\* While another feature is in use the message is one without fields.
AnyWireName == CHOOSE name \in MCWireNames : Tables[name] = <<>>

FeaturesInit ==
    /\ focus \in {"voice", "download", "upload", "restart", "security", "wire"}
    /\ VoiceInit /\ RestartInit /\ SecurityInit /\ DlInit /\ UpInit /\ WireInit
    /\ focus # "download" => dlFiles = 1 /\ inMemory
    /\ focus # "upload" => upFiles = 1
    /\ focus # "wire" => wireName = AnyWireName

FeaturesNext ==
    \/ /\ focus = "voice" /\ VoiceNext
       /\ UNCHANGED <<focus, dlVars, upVars, restartVars, securityVars, wireVars>>
    \/ /\ focus = "download" /\ DlNext
       /\ UNCHANGED <<focus, voiceVars, upVars, restartVars, securityVars, wireVars>>
    \/ /\ focus = "upload" /\ UpNext
       /\ UNCHANGED <<focus, voiceVars, dlVars, restartVars, securityVars, wireVars>>
    \/ /\ focus = "restart" /\ RestartNext
       /\ UNCHANGED <<focus, voiceVars, dlVars, upVars, securityVars, wireVars>>
    \/ /\ focus = "security" /\ SecurityNext
       /\ UNCHANGED <<focus, voiceVars, dlVars, upVars, restartVars, wireVars>>
    \/ /\ focus = "wire" /\ WireNext
       /\ UNCHANGED <<focus, voiceVars, dlVars, upVars, restartVars, securityVars>>

FeaturesSpec == FeaturesInit /\ [][FeaturesNext]_featureVars

\* The types of the variables of every feature.
FeaturesTypeOK ==
    VoiceTypeOK /\ DlTypeOK /\ UpTypeOK /\ RestartTypeOK /\ SecurityTypeOK /\ WireTypeOK
=============================================================================
