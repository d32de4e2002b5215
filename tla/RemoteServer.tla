---------------------------- MODULE RemoteServer ----------------------------
(***************************************************************************)
(* RemoteServer (remote.py): the WebSockets that Shelly devices open       *)
(* towards Home Assistant.  A handler task identifies each socket, binds   *)
(* its credential to the device, replaces the device's older session and   *)
(* serves; administrator commands replace the set of credentials           *)
(* meanwhile (websocket_api.py) and close the sessions that lost theirs.   *)
(*                                                                         *)
(* One action is the code a task runs between two awaits that can suspend. *)
(* Awaits that never suspend (the callbacks of the device manager, the     *)
(* close of a socket that is closed already) do not end an action.         *)
(***************************************************************************)
EXTENDS Naturals, FiniteSets

CONSTANTS
    Sockets,      \* the incoming WebSockets, with one handler task each
    Devices,      \* the device identities
    Creds,        \* the credential ids
    InitCreds,    \* those that exist when the server is configured
    Updates,      \* the administrator's changes of the credentials
    None,
    MaxDevices    \* MAX_DEVICES

ASSUME NamesAssumption == /\ InitCreds \subseteq Creds
                          /\ None \notin Sockets \cup Devices \cup Creds
ASSUME LimitAssumption == MaxDevices \in Nat \ {0}

VARIABLES
    store,        \* the credentials in the config entry
    creds,        \* _credentials: the server's copy of them
    issued,       \* history: the number of secrets generated for each id
    transports,   \* _transports: device -> socket of its session
    credDev,      \* _credential_devices: credential -> device of its session
    routes,       \* DeviceManager.transports, its remote part
    pc,           \* where the handler of each socket stands
    cred,         \* the credential each socket was admitted with
    secret,       \* history: which secret of the credential that was
    dev,          \* the device each socket identified as
    waits,        \* the session whose close each handler awaits
    open,         \* not socket.closed
    connected,    \* the flag of the RemoteRpcTransport on each socket
    upd           \* where each change of the credentials stands

credVars    == <<store, creds, issued>>
sessionVars == <<transports, credDev, routes>>
socketVars  == <<pc, cred, secret, dev, waits, open, connected>>
vars == <<credVars, sessionVars, socketVars, upd>>

----------------------------------------------------------------------------
(* Values *)

\* A credential record; the number of its secret is 0 for an id without one.
Records == [secret : Nat, bound : Devices \cup {None}]
NoRecord == [secret |-> 0, bound |-> None]
NewRecord(n) == [secret |-> n, bound |-> None]
Exists(c) == creds[c].secret # 0

PCs == {"idle", "identify", "replacing", "serving", "done"}

\* A change of the credentials: the new set, the sessions it still has to look
\* at, the session whose close it awaits and (history) all it has to close.
Changes == [pc : {"idle", "closing", "done"}, new : [Creds -> Records],
            todo : SUBSET (Creds \X Devices), waits : Sockets \cup {None},
            revoked : SUBSET Sockets]

\* The devices that have a session.
Registered == {d \in Devices : transports[d] # None}

----------------------------------------------------------------------------
(* Careless forms of the pieces below, for mutation runs only *)

NoDeadline == FALSE
AlwaysMine(s) == TRUE
MineIfConnected(s) == connected[s]
CloseFlagOnly(t) == connected' = [connected EXCEPT ![t] = FALSE] /\ UNCHANGED open
ClaimsKept(s, d, replaces) == [credDev EXCEPT ![cred[s]] = d]
RemovedOnly(new, c) == new[c].secret = 0
BindForgotten(c, d) == UNCHANGED <<creds, store>>

----------------------------------------------------------------------------
(* Pieces of steps *)

\* RemoteRpcTransport.async_close of the session on socket t.
Close(t) ==
    /\ open' = [open EXCEPT ![t] = FALSE]
    /\ connected' = [connected EXCEPT ![t] = FALSE]

\* The device has a session whose close suspends its caller.
HasOpen(d) == transports[d] # None /\ open[transports[d]]

\* The credential is not in use by another device.
Unclaimed(c, d) == credDev[c] \in {None, d}

\* The checks between the identity and the registration.
Admissible(s, d) ==
    /\ transports[d] # None \/ Cardinality(Registered) < MaxDevices
    /\ Exists(cred[s])
    /\ creds[cred[s]].bound \in {None, d}
    /\ Unclaimed(cred[s], d)

\* First use binds: in the server's record, and through async_bind_credential
\* in the stored record of that id.
Bind(c, d) ==
    IF creds[c].bound = None
    THEN /\ creds' = [creds EXCEPT ![c].bound = d]
         /\ store' = IF store[c].secret # 0 THEN [store EXCEPT ![c].bound = d] ELSE store
    ELSE UNCHANGED <<creds, store>>

\* The credential claims the device; where another session is replaced, the
\* claims of the device's older credentials go.
Claims(s, d, replaces) ==
    [c \in Creds |-> CASE c = cred[s] -> d
                       [] c # cred[s] /\ replaces /\ credDev[c] = d -> None
                       [] OTHER -> credDev[c]]

\* The new session is installed, also in the device manager.
Register(s, d, replaces) ==
    /\ transports' = [transports EXCEPT ![d] = s]
    /\ credDev' = Claims(s, d, replaces)
    /\ routes' = [routes EXCEPT ![d] = s]
    /\ pc' = [pc EXCEPT ![s] = "serving"]

----------------------------------------------------------------------------
(* RemoteReceiverView.get and RemoteServer.async_handle *)

Init ==
    /\ store = [c \in Creds |-> IF c \in InitCreds THEN NewRecord(1) ELSE NoRecord]
    /\ creds = store
    /\ issued = [c \in Creds |-> store[c].secret]
    /\ transports = [d \in Devices |-> None]
    /\ credDev = [c \in Creds |-> None]
    /\ routes = [d \in Devices |-> None]
    /\ pc = [s \in Sockets |-> "idle"]
    /\ cred = [s \in Sockets |-> None]
    /\ secret = [s \in Sockets |-> 0]
    /\ dev = [s \in Sockets |-> None]
    /\ waits = [s \in Sockets |-> None]
    /\ open = [s \in Sockets |-> FALSE]
    /\ connected = [s \in Sockets |-> FALSE]
    /\ upd = [u \in Updates |-> [pc |-> "idle", new |-> store, todo |-> {},
                                 waits |-> None, revoked |-> {}]]

\* A device comes with the current secret of a credential and is asked who it is.
Accept(s) ==
    \E c \in Creds :
        /\ pc[s] = "idle" /\ Exists(c)
        /\ pc' = [pc EXCEPT ![s] = "identify"]
        /\ cred' = [cred EXCEPT ![s] = c]
        /\ secret' = [secret EXCEPT ![s] = creds[c].secret]
        /\ open' = [open EXCEPT ![s] = TRUE]
        /\ UNCHANGED <<credVars, sessionVars, dev, waits, connected, upd>>

\* The identity must come within 12 s.
IdentityDeadline == TRUE

\* It does not come, is not valid, or the device leaves.
IdentityFails(s) ==
    /\ pc[s] = "identify" /\ IdentityDeadline
    /\ pc' = [pc EXCEPT ![s] = "done"]
    /\ open' = [open EXCEPT ![s] = FALSE]
    /\ UNCHANGED <<credVars, sessionVars, cred, secret, dev, waits, connected, upd>>

Refuse(s) ==
    \E d \in Devices :
        /\ pc[s] = "identify" /\ ~Admissible(s, d)
        /\ pc' = [pc EXCEPT ![s] = "done"]
        /\ open' = [open EXCEPT ![s] = FALSE]
        /\ UNCHANGED <<credVars, sessionVars, cred, secret, dev, waits, connected, upd>>

\* The device has no session that must be closed first.
Admit(s) ==
    \E d \in Devices :
        /\ pc[s] = "identify" /\ Admissible(s, d)
        /\ ~HasOpen(d)
        /\ Bind(cred[s], d)
        /\ dev' = [dev EXCEPT ![s] = d]
        /\ Register(s, d, transports[d] # None)
        /\ connected' = [connected EXCEPT ![s] = TRUE]
        /\ UNCHANGED <<issued, cred, secret, waits, open, upd>>

\* The device has one: close it, and wait until its handler let go.
AdmitClosingOld(s) ==
    \E d \in Devices :
        /\ pc[s] = "identify" /\ Admissible(s, d)
        /\ HasOpen(d)
        /\ Bind(cred[s], d)
        /\ dev' = [dev EXCEPT ![s] = d]
        /\ waits' = [waits EXCEPT ![s] = transports[d]]
        /\ Close(transports[d])
        /\ pc' = [pc EXCEPT ![s] = "replacing"]
        /\ UNCHANGED <<issued, sessionVars, cred, secret, upd>>

\* The close returned: nothing is checked again.
Replace(s) ==
    /\ pc[s] = "replacing" /\ pc[waits[s]] = "done"
    /\ Register(s, dev[s], TRUE)
    /\ waits' = [waits EXCEPT ![s] = None]
    /\ connected' = [connected EXCEPT ![s] = TRUE]
    /\ UNCHANGED <<credVars, cred, secret, dev, open, upd>>

\* The session that ends is the one its device is registered with.
Mine(s) == transports[dev[s]] = s

\* The socket was closed, or the device left: the finally block.
End(s) ==
    /\ pc[s] = "serving"
    /\ pc' = [pc EXCEPT ![s] = "done"]
    /\ open' = [open EXCEPT ![s] = FALSE]
    /\ IF Mine(s)
       THEN /\ transports' = [transports EXCEPT ![dev[s]] = None]
            /\ credDev' = [credDev EXCEPT ![cred[s]] = IF @ = dev[s] THEN None ELSE @]
            /\ connected' = [connected EXCEPT ![s] = FALSE]
            /\ routes' = [routes EXCEPT ![dev[s]] = None]
       ELSE UNCHANGED <<sessionVars, connected>>
    /\ UNCHANGED <<credVars, cred, secret, dev, waits, upd>>

----------------------------------------------------------------------------
(* async_update_credentials and the commands that call it *)

\* The record of c is gone or has another secret in the new set.
Changed(new, c) == ~Exists(c) \/ new[c].secret # creds[c].secret

\* Of the sessions still to look at, those whose close will suspend the task.
Suspending(new, todo) ==
    {p \in todo : Changed(new, p[1]) /\ HasOpen(p[2])}

\* The loop runs on to the next session that has to be closed, or to its end
\* where the new set takes effect.
Loop(u, new, todo, revoked) ==
    \/ \E p \in Suspending(new, todo), rest \in SUBSET todo :
           /\ p \notin rest /\ Suspending(new, todo \ (rest \cup {p})) = {}
           /\ Close(transports[p[2]])
           /\ upd' = [upd EXCEPT ![u] = [pc |-> "closing", new |-> new, todo |-> rest,
                                         waits |-> transports[p[2]], revoked |-> revoked]]
           /\ UNCHANGED creds
    \/ /\ Suspending(new, todo) = {}
       /\ creds' = new
       /\ upd' = [upd EXCEPT ![u] = [pc |-> "done", new |-> new, todo |-> {},
                                     waits |-> None, revoked |-> revoked]]
       /\ UNCHANGED <<open, connected>>

InUse == {p \in Creds \X Devices : credDev[p[1]] = p[2]}

\* The registered sessions whose secret is not in a new set of credentials.
Affected(new) ==
    {s \in Sockets : \E d \in Registered : transports[d] = s /\ new[cred[s]].secret # secret[s]}

\* _set_credentials: the config entry first, the running server after it.
SetCredentials(u, new) ==
    /\ upd[u].pc = "idle"
    /\ store' = new
    /\ Loop(u, new, InUse, Affected(new))
    /\ UNCHANGED <<sessionVars, pc, cred, secret, dev, waits>>

Create(u) == \E c \in Creds :
    /\ issued[c] = 0
    /\ issued' = [issued EXCEPT ![c] = 1]
    /\ SetCredentials(u, [store EXCEPT ![c] = NewRecord(1)])

Revoke(u) == \E c \in Creds :
    /\ SetCredentials(u, [store EXCEPT ![c] = NoRecord])
    /\ UNCHANGED issued

Regenerate(u) == \E c \in Creds :
    /\ store[c].secret # 0
    /\ issued' = [issued EXCEPT ![c] = @ + 1]
    /\ SetCredentials(u, [store EXCEPT ![c] = NewRecord(issued[c] + 1)])

\* The close of one session returned.
Continue(u) ==
    /\ upd[u].pc = "closing" /\ pc[upd[u].waits] = "done"
    /\ Loop(u, upd[u].new, upd[u].todo, upd[u].revoked)
    /\ UNCHANGED <<store, issued, sessionVars, pc, cred, secret, dev, waits>>

----------------------------------------------------------------------------

Handler(s) == \/ Accept(s) \/ IdentityFails(s) \/ Refuse(s) \/ Admit(s)
              \/ AdmitClosingOld(s) \/ Replace(s) \/ End(s)

Update(u) == Create(u) \/ Revoke(u) \/ Regenerate(u) \/ Continue(u)

Next == (\E s \in Sockets : Handler(s)) \/ (\E u \in Updates : Update(u))

Spec == Init /\ [][Next]_vars

\* Tasks that can run do; the identity has a deadline and a closed socket ends
\* its handler's loop.  Devices may stay connected for ever.
Fairness ==
    /\ \A s \in Sockets : /\ WF_vars(IdentityFails(s)) /\ WF_vars(Replace(s))
                          /\ WF_vars(~open[s] /\ End(s))
    /\ \A u \in Updates : WF_vars(Continue(u))

FairSpec == Spec /\ Fairness

----------------------------------------------------------------------------
(* Properties *)

TypeOK ==
    /\ store \in [Creds -> Records] /\ creds \in [Creds -> Records]
    /\ issued \in [Creds -> Nat]
    /\ transports \in [Devices -> Sockets \cup {None}]
    /\ routes \in [Devices -> Sockets \cup {None}]
    /\ credDev \in [Creds -> Devices \cup {None}]
    /\ pc \in [Sockets -> PCs] /\ cred \in [Sockets -> Creds \cup {None}]
    /\ secret \in [Sockets -> Nat]
    /\ dev \in [Sockets -> Devices \cup {None}]
    /\ waits \in [Sockets -> Sockets \cup {None}]
    /\ open \in [Sockets -> BOOLEAN] /\ connected \in [Sockets -> BOOLEAN]
    /\ upd \in [Updates -> Changes]

\* The registered session of a device is being served on a socket that
\* identified as that device, and the device manager calls through it and no
\* other, also right after the session ended or lost its socket to a command.
SessionServed ==
    \A d \in Devices :
        /\ routes[d] = transports[d]
        /\ transports[d] # None => pc[transports[d]] = "serving" /\ dev[transports[d]] = d

\* A registration goes away only with its own handler or for a newer session:
\* however late the clean-up of a replaced session runs, it never takes the new
\* one off the registry (the test at line 287).
RegistrationKept ==
    [][\A d \in Devices : transports[d] # None /\ transports'[d] = None =>
           pc'[transports[d]] = "done"]_vars

\* A credential counts as in use only while the registered session of its
\* device was admitted with it: no claim is left behind that would refuse the
\* credential's device for good.
NoStaleClaim ==
    \A c \in Creds, d \in Devices :
        credDev[c] = d => transports[d] # None /\ cred[transports[d]] = c

\* "Replace credentials and disconnect revoked or regenerated sessions"
\* (remote.py:191): when a change has completed, every session it found
\* registered with a removed or regenerated secret is closed, whatever connected
\* or left while it waited.  It holds for one change; a second one misses the
\* session that was still in its handshake during the first.
RevokedClosed ==
    \A u \in Updates : upd[u].pc = "done" => \A s \in upd[u].revoked : ~open[s]

\* Every handshake ends in a served session or in a closed socket.
HandshakeEnds ==
    \A s \in Sockets : pc[s] \in {"identify", "replacing"} ~> pc[s] \in {"serving", "done"}

\* Every change of the credentials completes: closing sessions never waits for
\* the device, nor for a handler that waits itself.
UpdateEnds == \A u \in Updates : upd[u].pc = "closing" ~> upd[u].pc = "done"

----------------------------------------------------------------------------
(* The inductive invariant behind the theorems of RemoteServer_proofs *)

\* The administrator makes one change at most.
Alone == \A u, v \in Updates : u = v

\* Who is past a step has what the step assigned.
Placed ==
    /\ \A s \in Sockets :
          /\ pc[s] # "idle" => cred[s] \in Creds
          /\ pc[s] \in {"replacing", "serving"} => dev[s] \in Devices
          /\ pc[s] = "replacing" => waits[s] \in Sockets
    /\ \A u \in Updates : upd[u].pc = "closing" => upd[u].waits \in Sockets

\* The credential of a registered session is in use by its device.
ClaimsHeld == \A d \in Registered : credDev[cred[transports[d]]] = d

\* Until a first change begins, the stored and the running credentials have the
\* same secrets; a socket that was admitted has the current one, and from its
\* registration on the credential is bound to its device and in use by it.
Settled ==
    (\A u \in Updates : upd[u].pc = "idle") =>
        /\ \A c \in Creds : store[c].secret = creds[c].secret
        /\ \A s \in Sockets :
              /\ pc[s] \in {"identify", "replacing", "serving"} =>
                    Exists(cred[s]) /\ secret[s] = creds[cred[s]].secret
              /\ pc[s] \in {"replacing", "serving"} => creds[cred[s]].bound = dev[s]
        /\ ClaimsHeld

\* A single change closes what it has to close in the step it begins with.
Cut == Alone => \A u \in Updates : \A s \in upd[u].revoked : pc[s] # "idle" /\ ~open[s]

IInv == TypeOK /\ Placed /\ SessionServed /\ NoStaleClaim /\ Settled /\ Cut

----------------------------------------------------------------------------
(* What the repository says and the code does not do (violated) *)

\* "only one live socket may use a bound credential" (ARCHITECTURE.md:52).
OneLiveSocket ==
    \A s, t \in Sockets :
        pc[s] = "serving" /\ pc[t] = "serving" /\ open[s] /\ open[t] /\ cred[s] = cred[t] => s = t

\* "A credential is bound to the first valid Shelly device identity that uses
\* it" (ARCHITECTURE.md:51): only a new secret undoes a binding.
FirstDeviceKept ==
    [][\A c \in Creds : store[c].bound # None /\ store'[c].secret = store[c].secret =>
           store'[c].bound = store[c].bound]_vars
=============================================================================
