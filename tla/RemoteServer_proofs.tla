------------------------ MODULE RemoteServer_proofs ------------------------
(***************************************************************************)
(* Proofs about RemoteServer: types, and the agreement of its three        *)
(* dictionaries with each other, with the device manager and with the      *)
(* handlers, for any number of sockets, devices, credentials and commands. *)
(***************************************************************************)
EXTENDS RemoteServer, TLAPS

\* Closing a session keeps the types of what it changes (async_close of
\* RemoteRpcTransport).
LEMMA CloseFact ==
    ASSUME TypeOK, NEW t \in Sockets, Close(t)
    PROVE  open' \in [Sockets -> BOOLEAN] /\ connected' \in [Sockets -> BOOLEAN]
BY DEF TypeOK, Close

\* A binding keeps both sets of records well formed (lines 261-264).
LEMMA BindFact ==
    ASSUME TypeOK, NEW c \in Creds, NEW d \in Devices, Bind(c, d)
    PROVE  store' \in [Creds -> Records] /\ creds' \in [Creds -> Records]
  <1>1. \A r \in Records : [r EXCEPT !.bound = d] \in Records
    BY DEF Records
  <1>2. [creds EXCEPT ![c].bound = d] \in [Creds -> Records]
    BY <1>1 DEF TypeOK
  <1>3. [store EXCEPT ![c].bound = d] \in [Creds -> Records]
    BY <1>1 DEF TypeOK
  <1> QED BY <1>2, <1>3 DEF TypeOK, Bind

\* What an installation leaves in the registries (lines 269-276).
LEMMA RegisterFact ==
    ASSUME TypeOK, NEW s \in Sockets, NEW d \in Devices, NEW r \in BOOLEAN,
           Register(s, d, r)
    PROVE  /\ transports' \in [Devices -> Sockets \cup {None}]
           /\ routes' \in [Devices -> Sockets \cup {None}]
           /\ credDev' \in [Creds -> Devices \cup {None}]
           /\ pc' \in [Sockets -> PCs]
BY DEF TypeOK, Register, Claims, PCs

\* A pass of the update loop ends in a well-formed state of the change
\* (lines 193-205).
LEMMA LoopFact ==
    ASSUME TypeOK, NEW u \in Updates, NEW new \in [Creds -> Records],
           NEW todo \in SUBSET (Creds \X Devices), NEW revoked \in SUBSET Sockets,
           Loop(u, new, todo, revoked)
    PROVE  /\ creds' \in [Creds -> Records]
           /\ open' \in [Sockets -> BOOLEAN] /\ connected' \in [Sockets -> BOOLEAN]
           /\ upd' \in [Updates -> Changes]
           /\ upd'[u].pc = "closing" => upd'[u].waits \in Sockets
           /\ \A v \in Updates \ {u} : upd'[v] = upd[v]
  <1>1. CASE \E p \in Suspending(new, todo), rest \in SUBSET todo :
                /\ Close(transports[p[2]])
                /\ upd' = [upd EXCEPT ![u] = [pc |-> "closing", new |-> new, todo |-> rest,
                                              waits |-> transports[p[2]], revoked |-> revoked]]
                /\ UNCHANGED creds
    <2>1. PICK p \in Suspending(new, todo), rest \in SUBSET todo :
                /\ Close(transports[p[2]])
                /\ upd' = [upd EXCEPT ![u] = [pc |-> "closing", new |-> new, todo |-> rest,
                                              waits |-> transports[p[2]], revoked |-> revoked]]
                /\ UNCHANGED creds
      BY <1>1
    <2>2. transports[p[2]] \in Sockets
      BY DEF Suspending, HasOpen, TypeOK
    <2>3. [pc |-> "closing", new |-> new, todo |-> rest,
           waits |-> transports[p[2]], revoked |-> revoked] \in Changes
      BY <2>2 DEF Changes
    <2> QED BY <2>1, <2>2, <2>3, CloseFact DEF TypeOK
  <1>2. CASE /\ creds' = new
             /\ upd' = [upd EXCEPT ![u] = [pc |-> "done", new |-> new, todo |-> {},
                                           waits |-> None, revoked |-> revoked]]
             /\ UNCHANGED <<open, connected>>
    <2>1. [pc |-> "done", new |-> new, todo |-> {},
           waits |-> None, revoked |-> revoked] \in Changes
      BY DEF Changes
    <2> QED BY <1>2, <2>1 DEF TypeOK
  <1> QED BY <1>1, <1>2 DEF Loop

----------------------------------------------------------------------------
(* Types, and what each step has assigned *)

\* What a change of the credentials starts from (lines 192-193 and
\* _set_credentials in websocket_api.py).
LEMMA SetFact ==
    ASSUME TypeOK, Placed, NEW u \in Updates, NEW new \in [Creds -> Records],
           SetCredentials(u, new), issued' \in [Creds -> Nat]
    PROVE  TypeOK' /\ Placed'
  <1>1. InUse \in SUBSET (Creds \X Devices) BY DEF InUse
  <1>2. Affected(new) \in SUBSET Sockets BY DEF Affected
  <1>3. Loop(u, new, InUse, Affected(new)) BY DEF SetCredentials
  <1>4. /\ creds' \in [Creds -> Records]
        /\ open' \in [Sockets -> BOOLEAN] /\ connected' \in [Sockets -> BOOLEAN]
        /\ upd' \in [Updates -> Changes]
        /\ upd'[u].pc = "closing" => upd'[u].waits \in Sockets
        /\ \A v \in Updates \ {u} : upd'[v] = upd[v]
    BY <1>1, <1>2, <1>3, LoopFact
  <1>5. TypeOK' BY <1>4 DEF TypeOK, SetCredentials, sessionVars
  <1>6. Placed' BY <1>4 DEF Placed, SetCredentials
  <1> QED BY <1>5, <1>6

\* Every step keeps the types, and what the steps behind it assigned (the
\* fields of RemoteServer and the locals of async_handle).
LEMMA TypeStep == TypeOK /\ Placed /\ [Next]_vars => TypeOK' /\ Placed'
  <1> SUFFICES ASSUME TypeOK, Placed, [Next]_vars PROVE TypeOK' /\ Placed'
    OBVIOUS
  <1>1. ASSUME NEW s \in Sockets, Accept(s) PROVE TypeOK' /\ Placed'
    <2>1. TypeOK' BY <1>1 DEF TypeOK, Accept, Records, PCs, credVars, sessionVars
    <2>2. Placed' BY <1>1 DEF Placed, Accept, TypeOK
    <2> QED BY <2>1, <2>2
  <1>2. ASSUME NEW s \in Sockets, IdentityFails(s) \/ Refuse(s) PROVE TypeOK' /\ Placed'
    <2>1. TypeOK'
      BY <1>2 DEF TypeOK, IdentityFails, Refuse, PCs, credVars, sessionVars
    <2>2. Placed' BY <1>2 DEF Placed, IdentityFails, Refuse, TypeOK
    <2> QED BY <2>1, <2>2
  <1>3. ASSUME NEW s \in Sockets, Admit(s) PROVE TypeOK' /\ Placed'
    <2>1. PICK d \in Devices :
            /\ pc[s] = "identify" /\ Bind(cred[s], d) /\ dev' = [dev EXCEPT ![s] = d]
            /\ Register(s, d, transports[d] # None)
            /\ connected' = [connected EXCEPT ![s] = TRUE]
            /\ UNCHANGED <<issued, cred, secret, waits, open, upd>>
      BY <1>3 DEF Admit
    <2>2. cred[s] \in Creds BY <2>1 DEF Placed
    <2>3. TypeOK' BY <2>1, <2>2, BindFact, RegisterFact DEF TypeOK
    <2>4. Placed' BY <2>1 DEF Placed, Register, TypeOK
    <2> QED BY <2>3, <2>4
  <1>4. ASSUME NEW s \in Sockets, AdmitClosingOld(s) PROVE TypeOK' /\ Placed'
    <2>1. PICK d \in Devices :
            /\ pc[s] = "identify" /\ HasOpen(d) /\ Bind(cred[s], d)
            /\ dev' = [dev EXCEPT ![s] = d] /\ waits' = [waits EXCEPT ![s] = transports[d]]
            /\ Close(transports[d]) /\ pc' = [pc EXCEPT ![s] = "replacing"]
            /\ UNCHANGED <<issued, sessionVars, cred, secret, upd>>
      BY <1>4 DEF AdmitClosingOld
    <2>2. cred[s] \in Creds /\ transports[d] \in Sockets BY <2>1 DEF Placed, HasOpen, TypeOK
    <2>3. TypeOK' BY <2>1, <2>2, BindFact, CloseFact DEF TypeOK, PCs, sessionVars
    <2>4. Placed' BY <2>1, <2>2 DEF Placed, TypeOK
    <2> QED BY <2>3, <2>4
  <1>5. ASSUME NEW s \in Sockets, Replace(s) PROVE TypeOK' /\ Placed'
    <2>1. dev[s] \in Devices BY <1>5 DEF Placed, Replace
    <2>2. TypeOK' BY <1>5, <2>1, RegisterFact DEF TypeOK, Replace, credVars
    <2>3. Placed' BY <1>5, <2>1 DEF Placed, Replace, Register, TypeOK
    <2> QED BY <2>2, <2>3
  <1>6. ASSUME NEW s \in Sockets, End(s) PROVE TypeOK' /\ Placed'
    <2>0. dev[s] \in Devices /\ cred[s] \in Creds BY <1>6 DEF Placed, End
    <2>1. /\ pc' = [pc EXCEPT ![s] = "done"] /\ open' = [open EXCEPT ![s] = FALSE]
          /\ UNCHANGED <<store, creds, issued, cred, secret, dev, waits, upd>>
      BY <1>6 DEF End, credVars
    <2>2. ASSUME Mine(s) PROVE TypeOK'
      <3>1. /\ transports' = [transports EXCEPT ![dev[s]] = None]
            /\ credDev' = [credDev EXCEPT ![cred[s]] = IF @ = dev[s] THEN None ELSE @]
            /\ connected' = [connected EXCEPT ![s] = FALSE]
            /\ routes' = [routes EXCEPT ![dev[s]] = None]
        BY <1>6, <2>2 DEF End
      <3>2. credDev' \in [Creds -> Devices \cup {None}]
        BY <2>0, <3>1 DEF TypeOK
      <3> QED BY <2>0, <2>1, <3>1, <3>2 DEF TypeOK, PCs
    <2>3. ASSUME ~Mine(s) PROVE TypeOK'
      <3>1. UNCHANGED <<transports, credDev, routes, connected>>
        BY <1>6, <2>3 DEF End, sessionVars
      <3> QED BY <2>1, <3>1 DEF TypeOK, PCs
    <2>4. TypeOK' BY <2>2, <2>3
    <2>5. Placed' BY <1>6 DEF Placed, End, TypeOK
    <2> QED BY <2>4, <2>5
  <1>7. ASSUME NEW u \in Updates, Create(u) \/ Revoke(u) \/ Regenerate(u)
        PROVE  TypeOK' /\ Placed'
    <2>1. \A c \in Creds, n \in Nat : [store EXCEPT ![c] = NewRecord(n)] \in [Creds -> Records]
      BY DEF TypeOK, NewRecord, Records
    <2>2. \A c \in Creds : [store EXCEPT ![c] = NoRecord] \in [Creds -> Records]
      BY DEF TypeOK, NoRecord, Records
    <2>3. CASE Create(u)
      <3>1. PICK c \in Creds : /\ issued' = [issued EXCEPT ![c] = 1]
                               /\ SetCredentials(u, [store EXCEPT ![c] = NewRecord(1)])
        BY <2>3 DEF Create
      <3>2. 1 \in Nat /\ issued' \in [Creds -> Nat] BY <3>1 DEF TypeOK
      <3> QED BY <2>1, <3>1, <3>2, SetFact
    <2>4. CASE Revoke(u)
      BY <2>2, <2>4, SetFact DEF Revoke, TypeOK
    <2>5. CASE Regenerate(u)
      <3>1. PICK c \in Creds : /\ issued' = [issued EXCEPT ![c] = issued[c] + 1]
                               /\ SetCredentials(u, [store EXCEPT ![c] = NewRecord(issued[c] + 1)])
        BY <2>5 DEF Regenerate
      <3>2. issued[c] + 1 \in Nat /\ issued' \in [Creds -> Nat] BY <3>1 DEF TypeOK
      <3> QED BY <2>1, <3>1, <3>2, SetFact
    <2> QED BY <1>7, <2>3, <2>4, <2>5
  <1>8. ASSUME NEW u \in Updates, Continue(u) PROVE TypeOK' /\ Placed'
    <2>1. /\ upd[u].new \in [Creds -> Records] /\ upd[u].todo \in SUBSET (Creds \X Devices)
          /\ upd[u].revoked \in SUBSET Sockets
      BY DEF TypeOK, Changes
    <2>2. /\ creds' \in [Creds -> Records]
          /\ open' \in [Sockets -> BOOLEAN] /\ connected' \in [Sockets -> BOOLEAN]
          /\ upd' \in [Updates -> Changes]
          /\ upd'[u].pc = "closing" => upd'[u].waits \in Sockets
          /\ \A v \in Updates \ {u} : upd'[v] = upd[v]
      BY <1>8, <2>1, LoopFact DEF Continue
    <2>3. TypeOK' BY <1>8, <2>2 DEF TypeOK, Continue, sessionVars
    <2>4. Placed' BY <1>8, <2>2 DEF Placed, Continue
    <2> QED BY <2>3, <2>4
  <1>9. CASE UNCHANGED vars
    <2>1. TypeOK' BY <1>9 DEF TypeOK, vars, credVars, sessionVars, socketVars
    <2>2. Placed' BY <1>9 DEF Placed, vars, credVars, sessionVars, socketVars
    <2> QED BY <2>1, <2>2
  <1> QED BY <1>1, <1>2, <1>3, <1>4, <1>5, <1>6, <1>7, <1>8, <1>9 DEF Next, Handler, Update

----------------------------------------------------------------------------
(* The registries agree *)

\* Only installations and ends of sessions touch the registries and the state
\* of handlers that serve.
LEMMA QuietFact ==
    ASSUME TypeOK, Placed, SessionServed, NoStaleClaim,
           UNCHANGED <<transports, routes, credDev>>,
           \A s \in Sockets : pc[s] = "serving" =>
               pc'[s] = "serving" /\ dev'[s] = dev[s] /\ cred'[s] = cred[s]
    PROVE  SessionServed' /\ NoStaleClaim'
  <1>1. \A d \in Devices : transports[d] # None => transports[d] \in Sockets BY DEF TypeOK
  <1>2. SessionServed' BY <1>1 DEF SessionServed
  <1>3. NoStaleClaim' BY <1>1 DEF SessionServed, NoStaleClaim
  <1> QED BY <1>2, <1>3

\* An installation keeps the registries in agreement: the new session takes
\* over every claim on its device (lines 269-276).
LEMMA InstallFact ==
    ASSUME TypeOK, SessionServed, NoStaleClaim,
           NEW s \in Sockets, NEW d \in Devices, NEW r \in BOOLEAN,
           pc[s] # "serving", cred[s] \in Creds, transports[d] # None => r,
           Register(s, d, r), dev' = [dev EXCEPT ![s] = d], cred' = cred
    PROVE  SessionServed' /\ NoStaleClaim'
  <1>1. s # None BY NamesAssumption
  <1>2. \A e \in Devices : transports[e] # s
    BY <1>1 DEF SessionServed
  <1>3. \A e \in Devices : transports'[e] = IF e = d THEN s ELSE transports[e]
    BY DEF Register, TypeOK
  <1>4. \A e \in Devices : routes'[e] = IF e = d THEN s ELSE routes[e]
    BY DEF Register, TypeOK
  <1>5. SessionServed'
    BY <1>1, <1>2, <1>3, <1>4 DEF SessionServed, Register, TypeOK
  <1>6. ASSUME NEW c \in Creds, NEW e \in Devices, credDev'[c] = e
        PROVE  transports'[e] # None /\ cred'[transports'[e]] = c
    <2>1. CASE c = cred[s]
      <3>1. e = d BY <1>6, <2>1 DEF Register, Claims
      <3> QED BY <2>1, <3>1, <1>1, <1>3
    <2>2. CASE c # cred[s]
      <3>1. e # None BY NamesAssumption
      <3>2. credDev[c] = e /\ ~(r /\ credDev[c] = d)
        BY <1>6, <2>2, <3>1 DEF Register, Claims
      <3>3. transports[e] # None /\ cred[transports[e]] = c
        BY <3>2 DEF NoStaleClaim
      <3>4. e # d BY <3>2, <3>3
      <3> QED BY <3>3, <3>4, <1>3
    <2> QED BY <2>1, <2>2
  <1>7. NoStaleClaim' BY <1>6 DEF NoStaleClaim
  <1> QED BY <1>5, <1>7

\* The clean-up of a session takes away its own registrations and no others
\* (the finally block, lines 286-294).
LEMMA EndFact ==
    ASSUME TypeOK, Placed, SessionServed, NoStaleClaim, NEW s \in Sockets, End(s)
    PROVE  SessionServed' /\ NoStaleClaim'
  <1>1. s # None /\ dev[s] \in Devices /\ cred[s] \in Creds
    BY NamesAssumption DEF Placed, End
  <1>2. \A e \in Devices : transports[e] = s => e = dev[s]
    BY <1>1 DEF SessionServed
  <1>3. \A e \in Devices : transports[e] # s /\ transports[e] # None => transports[e] \in Sockets
    BY DEF TypeOK
  <1>4. CASE Mine(s)
    <2>1. /\ \A e \in Devices : transports'[e] = IF e = dev[s] THEN None ELSE transports[e]
          /\ \A e \in Devices : routes'[e] = IF e = dev[s] THEN None ELSE routes[e]
          /\ dev' = dev /\ cred' = cred /\ pc' = [pc EXCEPT ![s] = "done"]
      BY <1>4 DEF End, TypeOK
    <2>2. SessionServed'
      BY <1>1, <1>2, <1>3, <2>1 DEF SessionServed, TypeOK
    <2>3. ASSUME NEW c \in Creds, NEW e \in Devices, credDev'[c] = e
          PROVE  transports'[e] # None /\ cred'[transports'[e]] = c
      <3>0. e # None BY NamesAssumption
      <3>1. credDev[c] = e /\ ~(c = cred[s] /\ e = dev[s])
        BY <1>1, <1>4, <2>3, <3>0 DEF End, TypeOK
      <3>2. transports[e] # None /\ cred[transports[e]] = c BY <3>1 DEF NoStaleClaim
      <3>3. e # dev[s] BY <1>4, <3>1, <3>2 DEF Mine
      <3> QED BY <2>1, <3>2, <3>3
    <2> QED BY <2>2, <2>3 DEF NoStaleClaim
  <1>5. CASE ~Mine(s)
    <2>1. /\ transports' = transports /\ routes' = routes /\ credDev' = credDev
          /\ dev' = dev /\ cred' = cred /\ pc' = [pc EXCEPT ![s] = "done"]
      BY <1>5 DEF End, sessionVars
    <2>2. \A e \in Devices : transports[e] # s BY <1>2, <1>5 DEF Mine
    <2>3. SessionServed' BY <1>3, <2>1, <2>2 DEF SessionServed, TypeOK
    <2>4. NoStaleClaim' BY <2>1 DEF NoStaleClaim
    <2> QED BY <2>3, <2>4
  <1> QED BY <1>4, <1>5

\* Every step keeps the registries in agreement (async_handle and
\* async_update_credentials).
LEMMA RegistryStep == IInv /\ [Next]_vars => SessionServed' /\ NoStaleClaim'
  <1> SUFFICES ASSUME IInv, [Next]_vars PROVE SessionServed' /\ NoStaleClaim'
    OBVIOUS
  <1>0. TypeOK /\ Placed /\ SessionServed /\ NoStaleClaim BY DEF IInv
  <1>1. ASSUME NEW s \in Sockets, Accept(s) \/ IdentityFails(s) \/ Refuse(s)
        PROVE  SessionServed' /\ NoStaleClaim'
    BY <1>0, <1>1, QuietFact DEF Accept, IdentityFails, Refuse, sessionVars, TypeOK
  <1>2. ASSUME NEW s \in Sockets, Admit(s) PROVE SessionServed' /\ NoStaleClaim'
    BY <1>0, <1>2, InstallFact DEF Admit, Placed
  <1>3. ASSUME NEW s \in Sockets, AdmitClosingOld(s) PROVE SessionServed' /\ NoStaleClaim'
    BY <1>0, <1>3, QuietFact DEF AdmitClosingOld, sessionVars, TypeOK
  <1>4. ASSUME NEW s \in Sockets, Replace(s) PROVE SessionServed' /\ NoStaleClaim'
    <2>1. /\ pc[s] = "replacing" /\ Register(s, dev[s], TRUE)
          /\ UNCHANGED <<cred, dev>>
      BY <1>4 DEF Replace
    <2>2. cred[s] \in Creds /\ dev[s] \in Devices BY <1>0, <2>1 DEF Placed
    <2>3. dev' = [dev EXCEPT ![s] = dev[s]] BY <1>0, <2>1 DEF TypeOK
    <2> QED BY <1>0, <2>1, <2>2, <2>3, InstallFact
  <1>5. ASSUME NEW s \in Sockets, End(s) PROVE SessionServed' /\ NoStaleClaim'
    BY <1>0, <1>5, EndFact
  <1>6. ASSUME NEW u \in Updates, Update(u) PROVE SessionServed' /\ NoStaleClaim'
    <2>1. UNCHANGED <<transports, routes, credDev, pc, dev, cred>>
      BY <1>6 DEF Update, Create, Revoke, Regenerate, Continue, SetCredentials, sessionVars
    <2> QED BY <1>0, <2>1, QuietFact
  <1>7. CASE UNCHANGED vars
    BY <1>0, <1>7, QuietFact DEF vars, sessionVars, socketVars
  <1> QED BY <1>1, <1>2, <1>3, <1>4, <1>5, <1>6, <1>7 DEF Next, Handler

----------------------------------------------------------------------------
(* Before the first change: admitted sessions have current credentials *)

\* A binding changes the binding of one running record, and no secret
\* (lines 261-264).
LEMMA BindEffect ==
    ASSUME TypeOK, NEW c \in Creds, NEW d \in Devices, Bind(c, d),
           creds[c].bound \in {None, d}
    PROVE  /\ \A e \in Creds : store'[e].secret = store[e].secret
           /\ \A e \in Creds : creds'[e].secret = creds[e].secret
           /\ \A e \in Creds : creds'[e].bound = IF e = c THEN d ELSE creds[e].bound
  <1>1. CASE creds[c].bound = None
    <2>1. creds' = [creds EXCEPT ![c].bound = d]
      BY <1>1 DEF Bind
    <2>2. store' = store \/ store' = [store EXCEPT ![c].bound = d]
      BY <1>1 DEF Bind
    <2>3. /\ \A e \in Creds : creds'[e].secret = creds[e].secret
          /\ \A e \in Creds : creds'[e].bound = IF e = c THEN d ELSE creds[e].bound
      BY <2>1 DEF TypeOK, Records
    <2>4. \A e \in Creds : store'[e].secret = store[e].secret
      BY <2>2 DEF TypeOK, Records
    <2> QED BY <2>3, <2>4
  <1>2. CASE creds[c].bound # None
    BY <1>2 DEF Bind
  <1> QED BY <1>1, <1>2

\* The new session uses its credential on its device, and takes it from no
\* registered session of another device (lines 269-274).
LEMMA ClaimEffect ==
    ASSUME TypeOK, Placed, SessionServed, ClaimsHeld,
           NEW s \in Sockets, NEW d \in Devices, NEW r \in BOOLEAN,
           Register(s, d, r), cred' = cred, cred[s] \in Creds,
           NEW e \in Devices, transports'[e] # None,
           transports[e] # None /\ cred[transports[e]] = cred[s] => e = d
    PROVE  credDev'[cred'[transports'[e]]] = e
  <1>1. \A c \in Creds :
          credDev'[c] = IF c = cred[s] THEN d
                        ELSE IF r /\ credDev[c] = d THEN None ELSE credDev[c]
    BY DEF Register, Claims
  <1>2. CASE e = d
    <2>1. transports'[e] = s BY <1>2 DEF Register, TypeOK
    <2> QED BY <1>1, <1>2, <2>1
  <1>3. CASE e # d
    <2>1. transports'[e] = transports[e] BY <1>3 DEF Register, TypeOK
    <2>2. e \in Registered BY <2>1 DEF Registered
    <2>3. /\ cred[transports[e]] \in Creds /\ credDev[cred[transports[e]]] = e
          /\ cred[transports[e]] # cred[s]
      BY <1>3, <2>2 DEF ClaimsHeld, Registered, TypeOK, Placed, SessionServed
    <2> QED BY <1>1, <1>3, <2>1, <2>3
  <1> QED BY <1>2, <1>3

\* A pass of the update loop goes on with the same change (lines 193-205).
LEMMA LoopEffect ==
    ASSUME TypeOK, NEW u \in Updates, NEW new, NEW todo, NEW revoked,
           Loop(u, new, todo, revoked)
    PROVE  upd'[u].pc \in {"closing", "done"} /\ upd'[u].revoked = revoked
  <1>1. DOMAIN upd = Updates BY DEF TypeOK
  <1>2. CASE \E p \in Suspending(new, todo), rest \in SUBSET todo :
                upd' = [upd EXCEPT ![u] = [pc |-> "closing", new |-> new, todo |-> rest,
                                           waits |-> transports[p[2]], revoked |-> revoked]]
    BY <1>1, <1>2
  <1>3. CASE upd' = [upd EXCEPT ![u] = [pc |-> "done", new |-> new, todo |-> {},
                                        waits |-> None, revoked |-> revoked]]
    BY <1>1, <1>3
  <1> QED BY <1>2, <1>3 DEF Loop

\* Until the first change begins, whoever was admitted keeps the current
\* secret, the binding and the use of its credential (async_handle).
LEMMA SettledStep == IInv /\ [Next]_vars => Settled'
  <1> SUFFICES ASSUME IInv, [Next]_vars, \A u \in Updates : upd'[u].pc = "idle"
               PROVE  /\ \A c \in Creds : store'[c].secret = creds'[c].secret
                      /\ \A s \in Sockets :
                            /\ pc'[s] \in {"identify", "replacing", "serving"} =>
                                  /\ creds'[cred'[s]].secret # 0
                                  /\ secret'[s] = creds'[cred'[s]].secret
                            /\ pc'[s] \in {"replacing", "serving"} =>
                                  creds'[cred'[s]].bound = dev'[s]
                      /\ ClaimsHeld'
    BY DEF Settled, Exists
  <1> DEFINE
        Sound == /\ \A c \in Creds : store'[c].secret = creds'[c].secret
                 /\ \A s \in Sockets :
                       /\ pc'[s] \in {"identify", "replacing", "serving"} =>
                             /\ creds'[cred'[s]].secret # 0
                             /\ secret'[s] = creds'[cred'[s]].secret
                       /\ pc'[s] \in {"replacing", "serving"} =>
                             creds'[cred'[s]].bound = dev'[s]
  <1>0. TypeOK /\ Placed /\ SessionServed BY DEF IInv
  <1>1. ASSUME NEW u \in Updates, Update(u) PROVE FALSE
    <2>1. PICK new, todo, revoked : Loop(u, new, todo, revoked)
      BY <1>1 DEF Update, Create, Revoke, Regenerate, Continue, SetCredentials
    <2>2. upd'[u].pc \in {"closing", "done"} BY <1>0, <2>1, LoopEffect
    <2> QED BY <2>2
  <1>2. upd' = upd
    <2>1. ASSUME NEW s \in Sockets, Handler(s) PROVE upd' = upd
      BY <2>1 DEF Handler, Accept, IdentityFails, Refuse, Admit, AdmitClosingOld, Replace, End
    <2> QED BY <1>1, <2>1 DEF Next, vars
  <1>3. /\ \A c \in Creds : store[c].secret = creds[c].secret
        /\ \A s \in Sockets :
              /\ pc[s] \in {"identify", "replacing", "serving"} =>
                    creds[cred[s]].secret # 0 /\ secret[s] = creds[cred[s]].secret
              /\ pc[s] \in {"replacing", "serving"} => creds[cred[s]].bound = dev[s]
        /\ ClaimsHeld
    BY <1>2 DEF IInv, Settled, Exists
  <1>4. \A d \in Registered :
          /\ transports[d] \in Sockets /\ pc[transports[d]] = "serving"
          /\ dev[transports[d]] = d /\ cred[transports[d]] \in Creds
          /\ creds[cred[transports[d]]].bound = d
    BY <1>0, <1>3 DEF Registered, SessionServed, TypeOK, Placed
  <1>5. ASSUME NEW s \in Sockets, Accept(s) PROVE Sound /\ ClaimsHeld'
    <2>1. PICK c \in Creds :
            /\ pc[s] = "idle" /\ creds[c].secret # 0 /\ pc' = [pc EXCEPT ![s] = "identify"]
            /\ cred' = [cred EXCEPT ![s] = c]
            /\ secret' = [secret EXCEPT ![s] = creds[c].secret]
            /\ UNCHANGED <<credVars, sessionVars, dev>>
      BY <1>5 DEF Accept, Exists
    <2>2. Sound BY <1>0, <1>3, <2>1 DEF TypeOK, credVars
    <2>3. \A d \in Registered : transports[d] # s BY <1>4, <2>1
    <2>4. ClaimsHeld'
      BY <1>0, <1>3, <1>4, <2>1, <2>3 DEF ClaimsHeld, Registered, sessionVars, TypeOK
    <2> QED BY <2>2, <2>4
  <1>6. ASSUME NEW s \in Sockets, IdentityFails(s) \/ Refuse(s) PROVE Sound /\ ClaimsHeld'
    <2>1. /\ pc' = [pc EXCEPT ![s] = "done"]
          /\ UNCHANGED <<store, creds, transports, credDev, cred, secret, dev>>
      BY <1>6 DEF IdentityFails, Refuse, credVars, sessionVars
    <2> QED BY <1>0, <1>3, <2>1 DEF ClaimsHeld, Registered, TypeOK
  \* The record becomes bound, the socket goes on with the device it named.
  <1>7. ASSUME NEW s \in Sockets, NEW d \in Devices, Bind(cred[s], d), pc[s] = "identify",
               creds[cred[s]].bound \in {None, d}, dev' = [dev EXCEPT ![s] = d],
               pc' \in [Sockets -> PCs], \A t \in Sockets \ {s} : pc'[t] = pc[t],
               UNCHANGED <<cred, secret>>
        PROVE  Sound
    <2>0. cred[s] \in Creds BY <1>0, <1>7 DEF Placed
    <2>1. /\ \A e \in Creds : store'[e].secret = store[e].secret
          /\ \A e \in Creds : creds'[e].secret = creds[e].secret
          /\ \A e \in Creds : creds'[e].bound = IF e = cred[s] THEN d ELSE creds[e].bound
      BY <1>0, <1>7, <2>0, BindEffect
    <2>2. ASSUME NEW t \in Sockets, t # s, pc[t] \in {"replacing", "serving"}
          PROVE  creds'[cred'[t]].bound = dev'[t]
      <3>1. cred[t] \in Creds /\ dev[t] \in Devices /\ creds[cred[t]].bound = dev[t]
        BY <1>0, <1>3, <2>2 DEF Placed
      <3>2. dev[t] # None BY <3>1, NamesAssumption
      <3>3. cred[t] = cred[s] => dev[t] = d BY <1>7, <3>1, <3>2
      <3> QED BY <1>0, <1>7, <2>1, <2>2, <3>1, <3>3 DEF TypeOK
    <2>3. creds'[cred'[s]].bound = dev'[s] BY <1>0, <1>7, <2>0, <2>1 DEF TypeOK
    <2>4. \A t \in Sockets : pc[t] \in {"identify", "replacing", "serving"} =>
            creds'[cred'[t]].secret # 0 /\ secret'[t] = creds'[cred'[t]].secret
      <3>1. \A t \in Sockets : pc[t] # "idle" => cred[t] \in Creds BY <1>0 DEF Placed
      <3> QED BY <1>3, <1>7, <2>1, <3>1
    <2>5. \A c \in Creds : store'[c].secret = creds'[c].secret BY <1>3, <2>1
    <2> QED BY <1>7, <2>2, <2>3, <2>4, <2>5
  <1>8. ASSUME NEW s \in Sockets, Admit(s) PROVE Sound /\ ClaimsHeld'
    <2>1. PICK d \in Devices :
            /\ pc[s] = "identify" /\ creds[cred[s]].bound \in {None, d} /\ Unclaimed(cred[s], d)
            /\ Bind(cred[s], d) /\ dev' = [dev EXCEPT ![s] = d]
            /\ Register(s, d, transports[d] # None) /\ UNCHANGED <<cred, secret>>
      BY <1>8 DEF Admit, Admissible
    <2>2. cred[s] \in Creds BY <1>0, <2>1 DEF Placed
    <2>3. pc' \in [Sockets -> PCs] /\ \A t \in Sockets \ {s} : pc'[t] = pc[t]
      BY <1>0, <2>1 DEF Register, TypeOK, PCs
    <2>4. Sound BY <1>7, <2>1, <2>3
    <2>5. ASSUME NEW e \in Registered, cred[transports[e]] = cred[s] PROVE e = d
      <3>1. credDev[cred[s]] = e BY <1>3, <2>5 DEF ClaimsHeld
      <3>2. e # None BY NamesAssumption DEF Registered
      <3> QED BY <2>1, <3>1, <3>2 DEF Unclaimed
    <2>6. (transports[d] # None) \in BOOLEAN /\ cred' = cred
      BY <2>1
    <2>7. ASSUME NEW e \in Devices, transports'[e] # None
          PROVE  credDev'[cred'[transports'[e]]] = e
      <3>1. transports[e] # None /\ cred[transports[e]] = cred[s] => e = d
        BY <2>5 DEF Registered
      <3>2. TypeOK /\ Placed /\ SessionServed /\ ClaimsHeld BY <1>0, <1>3
      <3> QED BY <2>1, <2>2, <2>6, <2>7, <3>1, <3>2, ClaimEffect
    <2> QED BY <2>4, <2>7 DEF ClaimsHeld, Registered
  <1>9. ASSUME NEW s \in Sockets, AdmitClosingOld(s) PROVE Sound /\ ClaimsHeld'
    <2>1. PICK d \in Devices :
            /\ pc[s] = "identify" /\ creds[cred[s]].bound \in {None, d}
            /\ Bind(cred[s], d) /\ dev' = [dev EXCEPT ![s] = d]
            /\ pc' = [pc EXCEPT ![s] = "replacing"]
            /\ UNCHANGED <<transports, credDev, cred, secret>>
      BY <1>9 DEF AdmitClosingOld, Admissible, sessionVars
    <2>2. pc' \in [Sockets -> PCs] /\ \A t \in Sockets \ {s} : pc'[t] = pc[t]
      BY <1>0, <2>1 DEF TypeOK, PCs
    <2>3. Sound BY <1>7, <2>1, <2>2
    <2>4. ClaimsHeld' BY <1>3, <2>1 DEF ClaimsHeld, Registered
    <2> QED BY <2>3, <2>4
  <1>10. ASSUME NEW s \in Sockets, Replace(s) PROVE Sound /\ ClaimsHeld'
    <2>1. /\ pc[s] = "replacing" /\ Register(s, dev[s], TRUE) /\ pc' = [pc EXCEPT ![s] = "serving"]
          /\ UNCHANGED <<store, creds, cred, secret, dev>>
      BY <1>10 DEF Replace, Register, credVars
    <2>2. cred[s] \in Creds /\ dev[s] \in Devices /\ creds[cred[s]].bound = dev[s]
      BY <1>0, <1>3, <2>1 DEF Placed
    <2>3. Sound BY <1>0, <1>3, <2>1 DEF TypeOK
    <2>4. ASSUME NEW e \in Devices, transports'[e] # None
          PROVE  credDev'[cred'[transports'[e]]] = e
      <3>1. transports[e] # None /\ cred[transports[e]] = cred[s] => e = dev[s]
        BY <1>4, <2>2 DEF Registered
      <3>2. TypeOK /\ Placed /\ SessionServed /\ ClaimsHeld BY <1>0, <1>3
      <3>3. PICK d \in Devices, r \in BOOLEAN : d = dev[s] /\ Register(s, d, r)
        BY <2>1, <2>2
      <3>4. cred' = cred /\ cred[s] \in Creds BY <2>1, <2>2
      <3> QED BY <2>4, <3>1, <3>2, <3>3, <3>4, ClaimEffect
    <2> QED BY <2>3, <2>4 DEF ClaimsHeld, Registered
  <1>11. ASSUME NEW s \in Sockets, End(s) PROVE Sound /\ ClaimsHeld'
    <2>1. /\ pc[s] = "serving" /\ pc' = [pc EXCEPT ![s] = "done"]
          /\ UNCHANGED <<store, creds, cred, secret, dev>>
      BY <1>11 DEF End, credVars
    <2>2. Sound BY <1>0, <1>3, <2>1 DEF TypeOK
    <2>3. CASE ~Mine(s)
      BY <1>3, <1>11, <2>1, <2>3 DEF End, ClaimsHeld, Registered, sessionVars
    <2>4. CASE Mine(s)
      <3>1. dev[s] \in Devices /\ cred[s] \in Creds /\ creds[cred[s]].bound = dev[s]
        BY <1>0, <1>3, <2>1 DEF Placed
      <3>2. /\ transports' = [transports EXCEPT ![dev[s]] = None]
            /\ credDev' = [credDev EXCEPT ![cred[s]] = IF @ = dev[s] THEN None ELSE @]
        BY <1>11, <2>4 DEF End
      <3>3. ASSUME NEW e \in Devices, transports'[e] # None
            PROVE  credDev'[cred'[transports'[e]]] = e
        <4>1. e \in Registered /\ e # dev[s] /\ transports'[e] = transports[e]
          BY <1>0, <3>1, <3>2, <3>3 DEF Registered, TypeOK
        <4>2. cred[transports[e]] # cred[s] BY <1>4, <3>1, <4>1
        <4>3. credDev'[cred[transports[e]]] = credDev[cred[transports[e]]]
          BY <1>0, <1>4, <3>2, <4>1, <4>2 DEF TypeOK
        <4> QED BY <1>3, <2>1, <4>1, <4>3 DEF ClaimsHeld
      <3> QED BY <2>2, <3>3 DEF ClaimsHeld, Registered
    <2> QED BY <2>2, <2>3, <2>4
  <1>12. CASE UNCHANGED vars
    BY <1>3, <1>12 DEF vars, credVars, sessionVars, socketVars, ClaimsHeld, Registered
  <1> HIDE DEF Sound
  <1>13. Sound /\ ClaimsHeld'
    <2>1. CASE UNCHANGED vars
      BY <1>12, <2>1 DEF Sound
    <2> QED BY <1>1, <1>5, <1>6, <1>8, <1>9, <1>10, <1>11, <2>1 DEF Next, Handler
  <1> QED BY <1>13 DEF Sound

----------------------------------------------------------------------------
(* The sessions a single change has to close *)

\* The pass that a change of one credential begins with closes every session
\* admitted with the secret that goes: there is one at most, because the
\* credential is in use by one device (lines 193-205).
LEMMA CutOff ==
    ASSUME IInv, \A v \in Updates : upd[v].pc = "idle", NEW u \in Updates,
           NEW c \in Creds, NEW new \in [Creds -> Records],
           \A e \in Creds \ {c} : new[e] = store[e],
           Loop(u, new, InUse, Affected(new)),
           NEW s \in Affected(new)
    PROVE  ~open'[s]
  <1>0. TypeOK /\ Placed /\ SessionServed /\ NoStaleClaim BY DEF IInv
  <1>1. /\ \A e \in Creds : store[e].secret = creds[e].secret
        /\ \A t \in Sockets : pc[t] = "serving" =>
              creds[cred[t]].secret # 0 /\ secret[t] = creds[cred[t]].secret
        /\ \A d \in Registered : credDev[cred[transports[d]]] = d
    BY DEF IInv, Settled, ClaimsHeld, Exists
  <1>2. PICK d \in Registered : transports[d] = s /\ new[cred[s]].secret # secret[s]
    BY DEF Affected
  <1>3. /\ s \in Sockets /\ d \in Devices /\ pc[s] = "serving" /\ cred[s] \in Creds
        /\ s # None
    BY <1>0, <1>2, NamesAssumption DEF Affected, Registered, SessionServed, Placed
  <1>4. secret[s] = store[cred[s]].secret BY <1>1, <1>3
  <1>5. cred[s] = c BY <1>2, <1>3, <1>4
  <1>6. credDev[c] = d /\ Changed(new, c) BY <1>1, <1>2, <1>3, <1>5 DEF Changed
  <1>7. CASE open[s]
    <2>1. <<c, d>> \in Suspending(new, InUse)
      BY <1>2, <1>3, <1>6, <1>7 DEF Suspending, InUse, HasOpen
    <2>2. PICK p \in Suspending(new, InUse) : Close(transports[p[2]])
      BY <2>1 DEF Loop
    <2>3. PICK e \in Creds, f \in Devices : p = <<e, f>> /\ credDev[e] = f
      BY <2>2 DEF Suspending, InUse
    <2>4. Changed(new, e) /\ transports[f] # None
      BY <2>2, <2>3 DEF Suspending, HasOpen
    <2>5. cred[transports[f]] = e /\ transports[f] \in Sockets /\ pc[transports[f]] = "serving"
      BY <1>0, <2>3, <2>4 DEF NoStaleClaim, SessionServed, TypeOK
    <2>6. creds[e].secret # 0 BY <1>1, <2>5
    <2>7. e = c
      BY <1>1, <2>3, <2>4, <2>6 DEF Changed, Exists
    <2>8. transports[p[2]] = s BY <1>2, <1>6, <2>3, <2>7
    <2> QED BY <1>0, <1>3, <2>2, <2>8 DEF Close, TypeOK
  <1>8. CASE ~open[s]
    <2>1. ~open'[s]
      BY <1>0, <1>3, <1>8 DEF Loop, Close, TypeOK
    <2> QED BY <2>1
  <1> QED BY <1>7, <1>8

\* A closed socket is not opened again, and no handler goes back to its start.
LEMMA StaysCut ==
    ASSUME TypeOK, [Next]_vars, NEW s \in Sockets, pc[s] # "idle", ~open[s]
    PROVE  pc'[s] # "idle" /\ ~open'[s]
  <1>1. ASSUME NEW t \in Sockets, Handler(t) PROVE pc'[s] # "idle" /\ ~open'[s]
    <2>1. CASE Accept(t) BY <2>1 DEF Accept, TypeOK
    <2>2. CASE IdentityFails(t) \/ Refuse(t) BY <2>2 DEF IdentityFails, Refuse, TypeOK
    <2>3. CASE Admit(t) BY <2>3 DEF Admit, Register, TypeOK
    <2>4. CASE AdmitClosingOld(t) BY <2>4 DEF AdmitClosingOld, Close, TypeOK
    <2>5. CASE Replace(t) BY <2>5 DEF Replace, Register, TypeOK
    <2>6. CASE End(t) BY <2>6 DEF End, TypeOK
    <2> QED BY <1>1, <2>1, <2>2, <2>3, <2>4, <2>5, <2>6 DEF Handler
  <1>2. ASSUME NEW u \in Updates, Update(u) PROVE pc'[s] # "idle" /\ ~open'[s]
    <2>1. PICK new, todo, revoked : Loop(u, new, todo, revoked)
      BY <1>2 DEF Update, Create, Revoke, Regenerate, Continue, SetCredentials
    <2>2. pc' = pc
      BY <1>2 DEF Update, Create, Revoke, Regenerate, Continue, SetCredentials
    <2>3. ~open'[s] BY <2>1 DEF Loop, Close, TypeOK
    <2> QED BY <2>2, <2>3
  <1>3. CASE UNCHANGED vars BY <1>3 DEF vars, socketVars
  <1> QED BY <1>1, <1>2, <1>3 DEF Next

\* What a single change has to close is closed from its first step on
\* (async_update_credentials).
LEMMA CutStep == IInv /\ [Next]_vars => Cut'
  <1> SUFFICES ASSUME IInv, [Next]_vars, Alone, NEW u \in Updates, NEW s \in upd'[u].revoked
               PROVE  pc'[s] # "idle" /\ ~open'[s]
    BY DEF Cut
  <1>0. TypeOK /\ Placed /\ SessionServed BY DEF IInv
  <1>1. CASE upd'[u].revoked = upd[u].revoked
    <2>1. s \in Sockets BY <1>0, <1>1 DEF TypeOK, Changes
    <2>2. pc[s] # "idle" /\ ~open[s] BY <1>1 DEF IInv, Cut
    <2> QED BY <1>0, <2>1, <2>2, StaysCut
  <1>2. ASSUME NEW c \in Creds, NEW rec \in Records,
               SetCredentials(u, [store EXCEPT ![c] = rec])
        PROVE  pc'[s] # "idle" /\ ~open'[s]
    <2> DEFINE new == [store EXCEPT ![c] = rec]
    <2>1. new \in [Creds -> Records] /\ \A e \in Creds \ {c} : new[e] = store[e]
      BY <1>0 DEF TypeOK
    <2>2. \A v \in Updates : upd[v].pc = "idle" BY <1>2 DEF SetCredentials, Alone
    <2>3. Loop(u, new, InUse, Affected(new)) /\ pc' = pc BY <1>2 DEF SetCredentials
    <2> HIDE DEF new
    <2>4. upd'[u].revoked = Affected(new) BY <1>0, <2>3, LoopEffect
    <2>5. s \in Affected(new) BY <2>4
    <2>6. ~open'[s] BY <2>1, <2>2, <2>3, <2>5, CutOff
    <2>7. pc[s] = "serving"
      BY <1>0, <2>5, NamesAssumption DEF Affected, Registered, SessionServed
    <2> QED BY <2>3, <2>6, <2>7
  <1>3. CASE Create(u) \/ Revoke(u) \/ Regenerate(u)
    <2>1. NoRecord \in Records /\ \A n \in Nat : NewRecord(n) \in Records
      BY DEF NoRecord, NewRecord, Records
    <2>2. CASE Create(u) BY <1>2, <2>1, <2>2 DEF Create
    <2>3. CASE Revoke(u) BY <1>2, <2>1, <2>3 DEF Revoke
    <2>4. CASE Regenerate(u)
      <3>1. \A c \in Creds : issued[c] + 1 \in Nat BY <1>0 DEF TypeOK
      <3> QED BY <1>2, <2>1, <2>4, <3>1 DEF Regenerate
    <2> QED BY <1>3, <2>2, <2>3, <2>4
  <1>4. CASE Continue(u)
    <2>1. upd'[u].revoked = upd[u].revoked BY <1>0, <1>4, LoopEffect DEF Continue
    <2> QED BY <1>1, <2>1
  <1>5. CASE \E t \in Sockets : Handler(t)
    <2>1. upd' = upd
      BY <1>5 DEF Handler, Accept, IdentityFails, Refuse, Admit, AdmitClosingOld, Replace, End
    <2> QED BY <1>1, <2>1
  <1>6. CASE UNCHANGED vars BY <1>1, <1>6 DEF vars
  <1>7. \A v \in Updates : v = u BY DEF Alone
  <1> QED BY <1>3, <1>4, <1>5, <1>6, <1>7 DEF Next, Update

----------------------------------------------------------------------------
(* The theorems *)

\* IInv holds in every reachable state of the server.
THEOREM Invariance == Spec => []IInv
  <1>1. Init => IInv
    <2> SUFFICES ASSUME Init PROVE IInv OBVIOUS
    <2>1. store \in [Creds -> Records] BY DEF Init, NewRecord, NoRecord, Records
    <2>2. \A u \in Updates : upd[u] \in Changes
      BY <2>1 DEF Init, Changes
    <2>3. TypeOK BY <2>1, <2>2 DEF Init, TypeOK, PCs, Records
    <2>4. Placed BY DEF Init, Placed
    <2>5. SessionServed BY DEF Init, SessionServed
    <2>6. NoStaleClaim BY NamesAssumption DEF Init, NoStaleClaim
    <2>7. Settled BY DEF Init, Settled, ClaimsHeld, Registered
    <2>8. Cut BY DEF Init, Cut
    <2> QED BY <2>3, <2>4, <2>5, <2>6, <2>7, <2>8 DEF IInv
  <1>2. IInv /\ [Next]_vars => IInv'
    BY TypeStep, RegistryStep, SettledStep, CutStep DEF IInv
  <1> QED BY <1>1, <1>2, PTL DEF Spec

\* Every variable keeps its type (the fields of RemoteServer, lines 168-174).
THEOREM TypeCorrect == Spec => []TypeOK
BY Invariance, PTL DEF IInv

\* The registered session is served, and the device manager routes through it
\* (lines 273-295).
THEOREM RegisteredIsServed == Spec => []SessionServed
BY Invariance, PTL DEF IInv

\* A registration goes away only with its own handler: the clean-up of an old
\* session never takes a new one off the registry (line 287).
THEOREM OnlyOwnCleanUp == Spec => RegistrationKept
  <1>1. ASSUME IInv, [Next]_vars, NEW d \in Devices, transports[d] # None, transports'[d] = None
        PROVE  pc'[transports[d]] = "done"
    <2>1. TypeOK /\ Placed BY <1>1 DEF IInv
    <2>2. ASSUME NEW s \in Sockets, NEW e \in Devices, NEW r \in BOOLEAN, Register(s, e, r)
          PROVE  FALSE
      <3>1. s # None BY NamesAssumption
      <3>2. transports'[d] \in {s, transports[d]} BY <2>1, <2>2 DEF Register, TypeOK
      <3> QED BY <1>1, <3>1, <3>2
    <2>3. ASSUME NEW s \in Sockets, Handler(s), transports' # transports
          PROVE  End(s)
      <3>1. CASE Admit(s) BY <2>2, <3>1 DEF Admit
      <3>2. CASE Replace(s)
        <4>1. dev[s] \in Devices BY <2>1, <3>2 DEF Placed, Replace
        <4> QED BY <2>2, <3>2, <4>1 DEF Replace
      <3> QED BY <2>3, <3>1, <3>2
            DEF Handler, Accept, IdentityFails, Refuse, AdmitClosingOld, sessionVars
    <2>4. ASSUME NEW u \in Updates, Update(u) PROVE transports' = transports
      BY <2>4 DEF Update, Create, Revoke, Regenerate, Continue, SetCredentials, sessionVars
    <2>5. PICK s \in Sockets : End(s)
      BY <1>1, <2>3, <2>4 DEF Next, vars, sessionVars
    <2>6. Mine(s) /\ dev[s] = d
      BY <1>1, <2>1, <2>5 DEF End, sessionVars, TypeOK
    <2> QED BY <2>1, <2>5, <2>6 DEF End, Mine, TypeOK
  <1>2. IInv /\ [Next]_vars =>
           [\A d \in Devices : transports[d] # None /\ transports'[d] = None =>
                pc'[transports[d]] = "done"]_vars
    BY <1>1
  <1> QED BY <1>2, Invariance, PTL DEF Spec, RegistrationKept

\* No credential is left claimed by a session that is gone (lines 257-274).
THEOREM ClaimsAreLive == Spec => []NoStaleClaim
BY Invariance, PTL DEF IInv

\* "Replace credentials and disconnect revoked or regenerated sessions" (line
\* 191): when a change completes, every session it found registered with a
\* secret that goes is closed, if it is the only change.
THEOREM RevokedAreClosed == Alone => (Spec => []RevokedClosed)
  <1> SUFFICES ASSUME Alone PROVE Spec => []RevokedClosed
    OBVIOUS
  <1>1. IInv => RevokedClosed
    BY DEF IInv, Cut, RevokedClosed
  <1> QED BY <1>1, Invariance, PTL
=============================================================================
