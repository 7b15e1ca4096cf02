----------------------------- MODULE Commands -----------------------------
(***************************************************************************)
(* A phone sends lines over its socket: each is taken from the socket      *)
(* (tcp_server/tcp_client_recv.c), unwrapped (EncFrame), passed or refused *)
(* by the access policy (security/access_policy.c), and handed to the      *)
(* component that it is for (tcp_server/tcp_command.c).  Of the components *)
(* only this is kept: owner commands, of which LIST stands for all, answer *)
(* in a frame, and provisioning, for which PROV stands, in the clear.      *)
(*                                                                         *)
(* The phone sends each line after the reply to the last.  When it gets an *)
(* error it authenticates again.  A third party on the network may put     *)
(* lines in the clear on the socket, and frames that were sent before.     *)
(* The device may lose power at any point.                                 *)
(***************************************************************************)
EXTENDS EncFrame

CONSTANTS MaxSent,     \* bound: frames that the phone sends with one key
          MaxTrouble   \* bound: how often power is lost, a third party sends or
                       \* another client drops the session

VARIABLES
    secured,   \* device_password_is_set()
    rx,        \* the receive task: its step, the frame, and whether it is the phone's
    app,       \* the phone: session key and last counter
    wire,      \* the phone's line that is on its way
    carried,   \* history: the counters of the frames carried out under the last key
    twice,     \* history: a frame was carried out that was carried out before
    bare,      \* history: a line in the clear was carried out
    trouble    \* history: what MaxTrouble bounds

vars == <<secured, rx, app, wire, carried, twice, bare, trouble, linkVars>>

Lines == {"LIST", "PROV"}

Frame(key, ctr, line) == [key |-> key, ctr |-> ctr, line |-> line]

NoFrame == Frame(NoKey, 0, "none")

Idle == [step |-> "idle", frame |-> NoFrame, own |-> FALSE]

Init ==
    /\ secured \in BOOLEAN
    /\ rx = Idle
    /\ app = [key |-> NoKey, ctr |-> 0]
    /\ wire = NoFrame
    /\ carried = {} /\ twice = FALSE /\ bare = FALSE /\ trouble = 0
    /\ LinkInit
-----------------------------------------------------------------------------
(* the phone and the network *)

Trouble == trouble < MaxTrouble /\ trouble' = trouble + 1

Waits == wire # NoFrame \/ rx.own

\* With a session the line goes in a frame; without one it is only sent to a
\* device that has no password.
AppSends(l) ==
    /\ ~Waits
    /\ IF app.key = NoKey THEN ~secured ELSE app.ctr < MaxSent
    /\ app' = [app EXCEPT !.ctr = IF app.key = NoKey THEN @ ELSE @ + 1]
    /\ wire' = Frame(app.key, app'.ctr, l)
    /\ UNCHANGED <<secured, rx, carried, twice, bare, trouble, linkVars>>

\* The reply to the phone's line; after an error it forgets the session.
Replied(ok) == app' = IF rx.own /\ ~ok THEN [app EXCEPT !.key = NoKey] ELSE app

\* The handshake; LocalAuth has its details.
AppAuth1 ==
    /\ ~Waits /\ rx.step = "idle"
    /\ app.key = NoKey /\ secured
    /\ Auth1
    /\ UNCHANGED <<secured, rx, app, wire, carried, twice, bare, trouble>>

AppAuth3 ==
    /\ ~Waits /\ rx.step = "idle"
    /\ Auth3
    /\ app' = [app EXCEPT !.key = keys', !.ctr = 0]
    /\ carried' = {}
    /\ UNCHANGED <<secured, rx, wire, twice, bare, trouble>>
-----------------------------------------------------------------------------
(* tcp_client_recv_task() *)

Arrives(f, own) ==
    /\ rx.step = "idle"
    /\ rx' = [step |-> "arrived", frame |-> f, own |-> own]
    /\ UNCHANGED <<secured, app, carried, twice, bare, linkVars>>

LineArrives ==
    /\ wire # NoFrame /\ wire' = NoFrame
    /\ Arrives(wire, TRUE)
    /\ UNCHANGED trouble

\* A frame that was carried out, or was sealed with an earlier session key.  What
\* is in it only matters if it passes a second time, so it may be anything.
OldFrames(l) == {Frame(keys, c, l) : c \in carried} \cup {Frame(k, 1, l) : k \in 1 .. keys - 1}

\* From the third party: a line in the clear, or an old frame.
StrangeArrives ==
    /\ Trouble
    /\ UNCHANGED wire
    /\ \E l \in Lines :
          \E f \in OldFrames(l) \cup {Frame(NoKey, 0, l)} : Arrives(f, FALSE)

\* ERR:ENC or ERR:AUTH, and the line is dropped.
Refused ==
    /\ Replied(FALSE)
    /\ rx' = Idle
    /\ UNCHANGED <<wire, carried, twice, bare>>

\* enc_frame_unwrap() of a line in the clear ...
Clear ==
    /\ rx.step = "arrived" /\ rx.frame.key = NoKey
    /\ Unwrapped
    /\ rx' = [rx EXCEPT !.step = "line"]
    /\ UNCHANGED <<secured, app, wire, carried, twice, bare, trouble>>
    /\ UNCHANGED <<keys, dropping, lock, tx, sealed, reused>>

\* ... and of a frame: state and counter are checked, then it is decrypted
\* with the key, and only then the counter kept.
Checks ==
    /\ rx.step = "arrived" /\ rx.frame.key # NoKey
    /\ IF FrameChecked(rx.frame)
       THEN rx' = [rx EXCEPT !.step = "checked"] /\ UNCHANGED <<app, wire, carried, twice, bare>>
       ELSE Refused
    /\ UNCHANGED <<secured, trouble, linkVars>>

Decrypts ==
    /\ rx.step = "checked"
    /\ IF Authentic(rx.frame)
       THEN rx' = [rx EXCEPT !.step = "opened"] /\ UNCHANGED <<app, wire, carried, twice, bare>>
       ELSE Refused
    /\ UNCHANGED <<secured, trouble, linkVars>>

Opens ==
    /\ rx.step = "opened"
    /\ Decrypted(rx.frame)
    /\ rx' = [rx EXCEPT !.step = "line"]
    /\ UNCHANGED <<secured, app, wire, carried, twice, bare, trouble>>
    /\ UNCHANGED <<keys, dropping, lock, tx, sealed, reused>>
-----------------------------------------------------------------------------
(* tcp_dispatch_line() *)

\* is_public(), of these lines.
IsPublic == ~secured

\* access_policy_sock_authenticated()
SockAuthenticated == session.state = "AUTH_OK"

\* access_policy_allow()
Allowed == IsPublic \/ (SockAuthenticated /\ session.rxEnc)

Policy ==
    /\ rx.step = "line"
    /\ IF Allowed
       THEN /\ rx' = [rx EXCEPT !.step = "allowed"]
            /\ IF rx.frame.key = NoKey THEN UNCHANGED <<carried, twice>>
               ELSE /\ carried' = carried \cup {rx.frame.ctr}
                    /\ twice' = (twice \/ rx.frame.key < keys \/ rx.frame.ctr \in carried)
            /\ bare' = (bare \/ rx.frame.key = NoKey)
            /\ UNCHANGED <<app, wire>>
       ELSE Refused
    /\ UNCHANGED <<secured, trouble, linkVars>>

\* An owner command is answered in a frame by the receive task itself.
OwnerCommand ==
    /\ rx.step = "allowed" /\ rx.frame.line = "LIST"
    /\ rx' = [rx EXCEPT !.step = "replies"]
    /\ UNCHANGED <<secured, app, wire, carried, twice, bare, trouble, linkVars>>

\* A provisioning line is answered with send().
ProvisioningLine ==
    /\ rx.step = "allowed" /\ rx.frame.line = "PROV"
    /\ Replied(TRUE)
    /\ rx' = Idle
    /\ UNCHANGED <<secured, wire, carried, twice, bare, trouble, linkVars>>
-----------------------------------------------------------------------------
(* the other tasks *)

\* The task that empties the response queue, and other clients' commands.
Others ==
    /\ \/ \E t \in Senders \ {Recv} : SendStarts(t)
       \/ \E t \in Senders : SendLocks(t) \/ SendSeals(t)
       \/ DropStep
    /\ UNCHANGED <<secured, rx, app, wire, carried, twice, bare, trouble>>

Drops ==
    /\ DropStarts
    /\ Trouble
    /\ UNCHANGED <<secured, rx, app, wire, carried, twice, bare>>

\* The receive task's own reply.
Replies ==
    /\ rx.step = "replies"
    /\ SendStarts(Recv)
    /\ rx' = [rx EXCEPT !.step = "sends"]
    /\ UNCHANGED <<secured, app, wire, carried, twice, bare, trouble>>

\* It is sent, or goes out in the clear because the session is gone.
ReplySent ==
    /\ \/ rx.step = "sends" /\ tx[Recv] = "idle"
       \/ rx.step = "replies" /\ (~SessionKeyed \/ session.txCtr = MaxSealed)
    /\ Replied(TRUE)
    /\ rx' = Idle
    /\ UNCHANGED <<secured, wire, carried, twice, bare, trouble, linkVars>>

\* Power is lost, or a reboot timer fires.
Restart ==
    /\ Trouble
    /\ rx' = Idle /\ wire' = NoFrame
    /\ app' = [app EXCEPT !.key = NoKey]
    /\ LinkRestart
    /\ UNCHANGED <<secured, carried, twice, bare>>

Next ==
    \/ \E l \in Lines : AppSends(l)
    \/ AppAuth1 \/ AppAuth3
    \/ LineArrives \/ StrangeArrives
    \/ Clear \/ Checks \/ Decrypts \/ Opens \/ Policy
    \/ OwnerCommand \/ ProvisioningLine
    \/ Others \/ Drops \/ Replies \/ ReplySent
    \/ Restart

Spec == Init /\ [][Next]_vars
-----------------------------------------------------------------------------
(* Properties *)

\* On a device with a password no line in the clear is carried out, also when it
\* comes between the frames of a socket that is authenticated, or while the session
\* is dropped or the phone authenticates again (access_policy_allow(),
\* enc_frame_unwrap()).
ClearIsRefused == secured => ~bare

\* A frame is carried out once: put on the socket again it is refused, also
\* while another task drops the session or after the device restarted
\* (enc_frame_unwrap(), drop_auth()).
FramesOnce == ~twice

\* No session key seals two frames with the same counter, whoever sends and
\* whatever happens to the session meanwhile (enc_frame_send(), drop_auth()).
NoncesFresh == ~reused
=============================================================================
