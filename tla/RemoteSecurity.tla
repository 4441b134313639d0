---------------------------- MODULE RemoteSecurity ----------------------------
(* The two intrusive modes the page of the web client can put a remote device
   into (src/webclient/src/ui/app.ts): its keyboard and mouse blocked, and its
   screen hidden (privacy mode, by one of several implementations).  A request
   and the device's word of what came of it cross on the way, the device's own
   user can turn privacy mode off, and when the user leaves, what is on, or may
   be turned on yet, must be turned off by the last commands of the session.

   Abstracted: the worker passes commands and notifications on in order, so
   page and device are joined by one channel each way. *)
EXTENDS Integers, Sequences

CONSTANTS Impls,        \* implementations of privacy mode
          MaxCommands   \* bound: commands on their way

\* A screen that is "shown" or "stuck", and no implementation at all, are not
\* implementations.
ASSUME SecurityAssumption ==
    MaxCommands \in Nat /\ Impls \cap {"", "shown", "stuck"} = {}

VARIABLES
    left,          \* the user left the session
    blockInput,    \* the page: "off", "on"
    blockPending,  \* blockInputPending
    privacyMode,   \* the page: "off", "on"
    privacyPending,\* privacyModePending
    activeImpl,    \* activePrivacyImplKey; "" when none
    commands,      \* commands the device has not handled
    notices,       \* notifications the page has not handled
    inputOf,       \* the device: its own input is "free", "blocked", or "stuck" blocked
    screenOf,      \* the device: its screen is "shown", hidden by an implementation, or "stuck"
    overruled      \* the device's own user turned privacy mode off

pageSecurity == <<left, blockInput, blockPending, privacyMode, privacyPending, activeImpl>>
deviceSecurity == <<inputOf, screenOf, overruled>>
securityVars == <<pageSecurity, commands, notices, deviceSecurity>>

Block(on) == [k |-> "block", on |-> on]
Privacy(impl, on) == [k |-> "privacy", impl |-> impl, on |-> on]
-----------------------------------------------------------------------------
(* The page: activateSecurityControl. *)

ToggleBlockInput ==
    /\ ~left /\ ~blockPending /\ Len(commands) < MaxCommands
    /\ blockPending' = TRUE
    /\ commands' = Append(commands, Block(blockInput = "off"))
    /\ UNCHANGED <<left, blockInput, privacyMode, privacyPending, activeImpl, notices, deviceSecurity>>

TogglePrivacy(impl) ==
    /\ ~left /\ ~privacyPending /\ Len(commands) < MaxCommands
    /\ privacyPending' = TRUE
    /\ activeImpl' = impl
    /\ commands' = Append(commands, Privacy(impl, ~(privacyMode = "on" /\ activeImpl = impl)))
    /\ UNCHANGED <<left, blockInput, blockPending, privacyMode, notices, deviceSecurity>>

\* applyBlockInputState and applyPrivacyModeState: what the device said.
SecurityNotice ==
    /\ ~left /\ notices # <<>>
    /\ notices' = Tail(notices)
    /\ LET n == Head(notices) IN
       \/ /\ n.k = "block"
          /\ blockPending' = FALSE
          /\ blockInput' = IF n.on THEN "on" ELSE "off"
          /\ UNCHANGED <<privacyMode, privacyPending, activeImpl>>
       \/ /\ n.k = "privacy"
          /\ privacyPending' = FALSE
          /\ privacyMode' = IF n.on THEN "on" ELSE "off"
          /\ activeImpl' = IF n.fails THEN activeImpl ELSE IF n.on THEN n.impl ELSE ""
          /\ UNCHANGED <<blockInput, blockPending>>
    /\ UNCHANGED <<left, commands, deviceSecurity>>

\* Mutant: only what the device has confirmed is turned off.
LeaveConfirmedOnly ==
    /\ ~left
    /\ left' = TRUE
    /\ commands' = commands
         \o (IF blockInput = "on" THEN <<Block(FALSE)>> ELSE <<>>)
         \o (IF privacyMode = "on" /\ activeImpl # "" THEN <<Privacy(activeImpl, FALSE)>> ELSE <<>>)
    /\ blockInput' = "off" /\ blockPending' = FALSE
    /\ privacyMode' = "off" /\ privacyPending' = FALSE
    /\ activeImpl' = ""
    /\ notices' = <<>>
    /\ UNCHANGED deviceSecurity

\* The Disconnect button and beforeunload: releaseRemoteSecurityState, then the
\* session is ended behind the commands already posted.
LeaveSession ==
    /\ ~left
    /\ left' = TRUE
    /\ commands' = commands
         \o (IF blockInput = "on" \/ blockPending THEN <<Block(FALSE)>> ELSE <<>>)
         \o (IF (privacyMode = "on" \/ privacyPending) /\ activeImpl # ""
             THEN <<Privacy(activeImpl, FALSE)>> ELSE <<>>)
    /\ blockInput' = "off" /\ blockPending' = FALSE
    /\ privacyMode' = "off" /\ privacyPending' = FALSE
    /\ activeImpl' = ""
    /\ notices' = <<>>
    /\ UNCHANGED deviceSecurity
-----------------------------------------------------------------------------
(* The device, as the page relies on it: it does as told or says it could not,
   and its user may turn privacy mode off. *)

Tell(n) == notices' = IF left THEN notices ELSE Append(notices, n)

DeviceBlocks(fails) ==
    /\ commands # <<>> /\ Head(commands).k = "block"
    /\ LET c == Head(commands) IN
       /\ inputOf' = IF c.on
                     THEN IF fails THEN "free" ELSE "blocked"
                     ELSE IF fails THEN "stuck" ELSE "free"
       /\ Tell([k |-> "block", on |-> c.on # fails])
    /\ commands' = Tail(commands)
    /\ UNCHANGED <<pageSecurity, screenOf, overruled>>

\* Its screen is shown again before another implementation is tried.
DeviceHides(fails) ==
    /\ commands # <<>> /\ Head(commands).k = "privacy"
    /\ LET c == Head(commands) IN
       /\ screenOf' = IF c.on
                      THEN IF fails THEN "shown" ELSE c.impl
                      ELSE IF fails THEN "stuck" ELSE "shown"
       /\ Tell([k |-> "privacy", on |-> c.on # fails, impl |-> c.impl, fails |-> fails])
    /\ commands' = Tail(commands)
    /\ UNCHANGED <<pageSecurity, inputOf, overruled>>

\* PrvOffByPeer.
DeviceUserUnhides ==
    /\ screenOf \in Impls /\ ~overruled
    /\ screenOf' = "shown"
    /\ overruled' = TRUE
    /\ Tell([k |-> "privacy", on |-> FALSE, impl |-> screenOf, fails |-> FALSE])
    /\ UNCHANGED <<pageSecurity, commands, inputOf>>
-----------------------------------------------------------------------------
SecurityInit ==
    /\ left = FALSE
    /\ blockInput = "off" /\ blockPending = FALSE
    /\ privacyMode = "off" /\ privacyPending = FALSE /\ activeImpl = ""
    /\ commands = <<>> /\ notices = <<>>
    /\ inputOf = "free" /\ screenOf = "shown" /\ overruled = FALSE

SecurityNext ==
    \/ ToggleBlockInput \/ SecurityNotice \/ LeaveSession \/ DeviceUserUnhides
    \/ \E impl \in Impls : TogglePrivacy(impl)
    \/ \E fails \in BOOLEAN : DeviceBlocks(fails) \/ DeviceHides(fails)

SecuritySpec == SecurityInit /\ [][SecurityNext]_securityVars
-----------------------------------------------------------------------------
\* The types of the variables.
SecurityTypeOK ==
    /\ left \in BOOLEAN /\ overruled \in BOOLEAN
    /\ blockInput \in {"off", "on"} /\ blockPending \in BOOLEAN
    /\ privacyMode \in {"off", "on"} /\ privacyPending \in BOOLEAN
    /\ activeImpl \in Impls \cup {""}
    /\ inputOf \in {"free", "blocked", "stuck"} /\ screenOf \in Impls \cup {"shown", "stuck"}

\* Once the user left and the device handled the last command, it is released:
\* its input is free and its screen shown, unless it failed to do so, or its own
\* user had turned privacy mode off meanwhile.
ReleasedOnLeave ==
    left /\ commands = <<>> =>
        /\ inputOf # "blocked"
        /\ screenOf \in Impls => overruled
=============================================================================
