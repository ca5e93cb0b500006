------------------------ MODULE MatrixSession_proofs ------------------------
(* Theorems about MatrixSession, for any rooms and configurations and any    *)
(* number of sessions, foreign identities and restarts.                      *)
EXTENDS MatrixSession, FiniteSetTheorems, TLAPS

Pcs == {"idle", "load", "read", "signin", "whoami_login", "save", "write", "signing", "policy", "bootstrap",
        "verify", "repair", "login_failed", "login_close", "reload", "lock", "whoami", "sync",
        "invite_safe_sync", "patched_sync", "post", "publish", "failed", "done", "raised", "join", "joining", "joined"}
Auth == [token : Nat, device : Nat, user : BOOLEAN]
CallRecord == [pc : Pcs, in : {"connect", "login"}, auth : Auth, file : BOOLEAN, e2ee : BOOLEAN, old : Nat,
               reset : BOOLEAN, seen : Nat, client : {"none", "open", "broken"},
               login : {"none", "open", "left", "broken"}, todo : SUBSET Rooms, room : SUBSET Rooms]

SrvRecord == [session : Seq(Nat), identity : Nat, signed : SUBSET Nat]

\* The types the argument needs.
Types ==
    /\ config \in [token : BOOLEAN, password : BOOLEAN, e2ee : BOOLEAN]
    /\ creds \in Auth /\ store \in Nat /\ made \in Nat
    /\ srv \in SrvRecord
    /\ call \in [Callers -> CallRecord]
    /\ current \in {"none"} \union Connectors /\ lock \in {"none"} \union Connectors
    /\ patched \in BOOLEAN
    /\ mapping \in [Rooms -> {"alias", "id"}] /\ joined \in SUBSET Rooms

\* Where a call of connect_matrix() is inside the startup lock.
Holds(k) ==
    \/ k.pc \in {"whoami", "sync", "invite_safe_sync", "patched_sync", "post", "publish", "failed"}
    \/ k.pc \in {"save", "write", "signing", "policy", "bootstrap", "verify", "repair"} /\ k.in = "connect"

\* Where login_matrix_bot() is on its own, and where its client is open.
LoginOnly == {"read", "signin", "whoami_login", "login_failed", "login_close"}
LoginOpen == {"signin", "whoami_login", "save", "write", "signing", "policy", "bootstrap", "verify", "repair",
              "login_failed", "login_close"}

\* Where the client of a call may be the published one.
Later == {"done", "raised", "join", "joining", "joined"}

\* A token is of a session the homeserver opened, and the device with it is that session's.
OneSession(auth) ==
    auth.token # None => /\ auth.token \in 1..Len(srv.session)
                         /\ auth.device # None => srv.session[auth.token] = auth.device

\* What the record of a call says about the lock, the clients and the credentials.
Fits(c, k) ==
    /\ lock = c <=> Holds(k)
    /\ Holds(k) => k.client = "open"
    /\ k.client = "open" => Holds(k) \/ current = c
    /\ current = c => k.pc \in Later /\ k.client = "open"
    /\ k.login = "open" => k.in = "login" /\ k.pc \in LoginOpen
    /\ k.pc \in LoginOnly => k.in = "login"
    /\ k.pc \in {"lock", "whoami"} => k.in = "connect" /\ k.auth.token # None
    /\ k.pc = "bootstrap" => k.reset \/ k.seen = None \/ store # None
    /\ OneSession(k.auth)

\* A client is published by the holder of the lock, and only when there is none.
Calls ==
    /\ \A c \in Callers : Fits(c, call[c])
    /\ lock # "none" => current = "none"

Sessions == Len(srv.session) # 0 /\ OneSession(creds)
Patching == patched => \E c \in Connectors : At(c, "patched_sync")

SessionInv == Types /\ Calls /\ Sessions /\ Patching

-----------------------------------------------------------------------------
USE DEF SrvRecord

\* A call whose record is replaced.
LEMMA UpdateFields ==
    ASSUME NEW S, NEW R, NEW f \in [S -> R], NEW c \in S, NEW r \in R, NEW g, g = [f EXCEPT ![c] = r]
    PROVE  g \in [S -> R] /\ g[c] = r /\ \A x \in S \ {c} : g[x] = f[x]
OBVIOUS

\* A record that has nothing to do fits every caller that holds nothing.
LEMMA IdleFields ==
    /\ Torn \in Auth /\ Torn.token = None
    /\ Idle \in CallRecord /\ Idle.pc = "idle" /\ Idle.in = "connect" /\ Idle.auth = Torn /\ Idle.client = "none"
    /\ Idle.login = "none" /\ Idle.reset = FALSE /\ Idle.seen = None /\ Idle.file = FALSE /\ Idle.e2ee = FALSE
    /\ Idle.old = None /\ Idle.todo = {} /\ Idle.room = {}
<1>1. Torn \in Auth /\ Torn.token = None BY DEF Torn, Auth, None
<1> QED BY <1>1 DEF Idle, CallRecord, Pcs, None

\* The calls that go on without what they knew, with the mode of the login, or for the signing only.
Ends == {"done", "raised", "sync", "post", "invite_safe_sync", "patched_sync", "publish", "failed"}
Closes == {"login_failed", "login_close", "reload"}
Signs == {"policy", "verify", "repair"}

\* What a call keeps when it goes on to pc.
LEMMA ReachedFields ==
    ASSUME NEW k \in CallRecord, NEW pc \in Pcs
    PROVE  LET r == Reached(k, pc)
           IN  /\ r \in CallRecord /\ r.pc = pc /\ r.login = k.login
               /\ pc \in Ends => r.client = k.client /\ r.in = "connect" /\ r.auth = Torn
               /\ pc \in Closes => r.client = "none" /\ r.in = k.in /\ r.auth = Torn
               /\ pc \in Signs => /\ r.client = k.client /\ r.in = k.in /\ r.reset = k.reset
                                  /\ r.auth.token = None
               /\ pc \notin Ends \union Closes \union Signs =>
                     r.client = k.client /\ r.in = k.in /\ r.auth = k.auth
<1> USE DEF Ends, Closes, Signs
<1>1. CASE pc \in Ends
  <2> DEFINE r == [Idle EXCEPT !.pc = pc, !.client = k.client, !.login = k.login]
  <2>1. Reached(k, pc) = r BY <1>1 DEF Reached
  <2>2. /\ r \in CallRecord /\ r.pc = pc /\ r.login = k.login /\ r.client = k.client /\ r.in = "connect"
        /\ r.auth = Torn
    BY IdleFields DEF CallRecord
  <2> HIDE DEF r
  <2> QED BY <1>1, <2>1, <2>2
<1>2. CASE pc \in Closes
  <2> DEFINE r == [Idle EXCEPT !.pc = pc, !.in = k.in, !.login = k.login]
  <2>1. Reached(k, pc) = r BY <1>2 DEF Reached
  <2>2. /\ r \in CallRecord /\ r.pc = pc /\ r.login = k.login /\ r.client = "none" /\ r.in = k.in
        /\ r.auth = Torn
    BY IdleFields DEF CallRecord
  <2> HIDE DEF r
  <2> QED BY <1>2, <2>1, <2>2
<1>3. CASE pc \in Signs
  <2> DEFINE a == [Torn EXCEPT !.device = k.auth.device]
             r == [Idle EXCEPT !.pc = pc, !.in = k.in, !.reset = k.reset, !.client = k.client,
                               !.login = k.login, !.auth = a]
  <2>1. Reached(k, pc) = r BY <1>3 DEF Reached
  <2>2. a \in Auth /\ a.token = None
    <3>1. k.auth \in Auth BY DEF CallRecord
    <3> QED BY <3>1, IdleFields DEF Auth
  <2> HIDE DEF a
  <2>3. /\ r \in CallRecord /\ r.pc = pc /\ r.login = k.login /\ r.client = k.client /\ r.in = k.in
        /\ r.reset = k.reset /\ r.auth = a
    BY <2>2, IdleFields DEF CallRecord
  <2> HIDE DEF r
  <2> QED BY <1>3, <2>1, <2>2, <2>3
<1>4. CASE pc \notin Ends \union Closes \union Signs
  <2> DEFINE r == [k EXCEPT !.pc = pc]
  <2>1. Reached(k, pc) = r BY <1>4 DEF Reached
  <2>2. r \in CallRecord /\ r.pc = pc /\ r.login = k.login /\ r.client = k.client /\ r.in = k.in /\ r.auth = k.auth
    BY DEF CallRecord
  <2> HIDE DEF r
  <2> QED BY <1>4, <2>1, <2>2
<1> QED BY <1>1, <1>2, <1>3, <1>4

\* A call goes on to pc.
LEMMA GoFields ==
    ASSUME Types, NEW c \in Callers, NEW pc \in Pcs, Go(c, pc)
    PROVE  /\ call' \in [Callers -> CallRecord] /\ \A x \in Callers \ {c} : call'[x] = call[x]
           /\ call'[c] = Reached(call[c], pc)
<1>1. call[c] \in CallRecord BY DEF Types
<1>2. Reached(call[c], pc) \in CallRecord BY <1>1, ReachedFields
<1> QED BY <1>2 DEF Types, Go

\* What the other calls, the file and the sidecar need of a step of one call.
Beside(c) ==
    /\ \A x \in Callers \ {c} : /\ call'[x] = call[x]
                                /\ lock' = x <=> lock = x
                                /\ current' = x <=> current = x
    /\ Len(srv'.session) \in Nat /\ Len(srv.session) <= Len(srv'.session)
    /\ \A i \in 1..Len(srv.session) : srv'.session[i] = srv.session[i]
    /\ store # None => store' # None

\* The sessions of the homeserver stay what they are.
LEMMA SessionsStay ==
    ASSUME Types, Len(srv'.session) \in Nat, Len(srv.session) <= Len(srv'.session),
           \A i \in 1..Len(srv.session) : srv'.session[i] = srv.session[i],
           NEW a \in Auth, OneSession(a)
    PROVE  OneSession(a)'
<1>1. Len(srv.session) \in Nat BY DEF Types
<1> QED BY <1>1 DEF OneSession, Auth

\* A step of one call leaves the others fitting.
LEMMA CallStep ==
    ASSUME Types, Calls, NEW c \in Callers, Beside(c), Fits(c, call[c])', (lock # "none" => current = "none")'
    PROVE  Calls'
<1>1. ASSUME NEW x \in Callers \ {c} PROVE Fits(x, call[x])'
  <2>1. call[x] \in CallRecord /\ call[x].auth \in Auth BY <1>1 DEF Types, CallRecord
  <2>2. Fits(x, call[x]) BY <1>1 DEF Calls
  <2>3. /\ call'[x] = call[x] /\ (lock' = x <=> lock = x) /\ (current' = x <=> current = x)
        /\ store # None => store' # None
    BY <1>1 DEF Beside
  <2>4. OneSession(call[x].auth)' BY <2>1, <2>2, <2>3, SessionsStay DEF Beside, Fits
  <2> QED BY <2>2, <2>3, <2>4 DEF Fits, Holds
<1> QED BY <1>1 DEF Calls

\* A step of one call that changes nothing but its record.
Quiet(c) ==
    /\ call' \in [Callers -> CallRecord] /\ \A x \in Callers \ {c} : call'[x] = call[x]
    /\ UNCHANGED <<config, creds, store, srv, made, current, lock, patched, mapping, joined>>

\* Such a step keeps the invariant when the new record fits.
LEMMA QuietStep ==
    ASSUME SessionInv, NEW c \in Callers, Quiet(c), call[c].pc # "patched_sync", Fits(c, call'[c])
    PROVE  SessionInv'
<1> USE DEF SessionInv, Quiet
<1>1. Types' BY DEF Types
<1>2. Len(srv.session) \in Nat BY DEF Types
<1>3. Fits(c, call[c])' BY DEF Fits, OneSession
<1>4. Calls'
  <2>1. Beside(c) BY <1>2 DEF Beside
  <2>2. (lock # "none" => current = "none")' BY DEF Calls
  <2> QED BY <1>3, <2>1, <2>2, CallStep
<1>5. Sessions' BY DEF Sessions, OneSession
<1>6. Patching'
  <2> SUFFICES ASSUME patched' PROVE \E x \in Connectors : At(x, "patched_sync")' BY DEF Patching
  <2>1. PICK x \in Connectors : At(x, "patched_sync") BY DEF Patching
  <2>2. x \in Callers \ {c} BY <2>1 DEF At, Callers
  <2> QED BY <2>1, <2>2 DEF At
<1> QED BY <1>1, <1>4, <1>5, <1>6

\* A step of one call that goes on to pc and changes nothing else.
LEMMA GoQuiet ==
    ASSUME SessionInv, NEW c \in Callers, NEW pc \in Pcs, Go(c, pc), call[c].pc # "patched_sync",
           UNCHANGED <<config, creds, store, srv, made, current, lock, patched, mapping, joined>>,
           Fits(c, Reached(call[c], pc))
    PROVE  SessionInv'
<1>1. Quiet(c) /\ call'[c] = Reached(call[c], pc) BY GoFields DEF Quiet, SessionInv
<1> QED BY <1>1, QuietStep

\* Where a call may go from where it is without taking or releasing anything: out of the
\* lock only to the end without a client, out of a login only by its own doors.
LEMMA ReachedFits ==
    ASSUME SessionInv, NEW c \in Callers, NEW pc \in Pcs \ {"lock", "whoami", "bootstrap"}, current # c,
           \/ /\ Holds(call[c]) /\ pc \in {"sync", "invite_safe_sync", "patched_sync", "post", "publish", "failed",
                                           "signing", "policy", "verify", "repair", "write"}
              /\ pc \in {"signing", "policy", "verify", "repair", "write"} => call[c].in = "connect"
           \/ ~Holds(call[c]) /\ call[c].login # "open" /\ pc \in {"done", "raised", "load"}
           \/ /\ ~Holds(call[c]) /\ call[c].in = "login"
              /\ pc \in {"signing", "policy", "verify", "repair", "write", "login_failed", "login_close"}
    PROVE  Fits(c, Reached(call[c], pc))
<1> DEFINE k == call[c]
           r == Reached(call[c], pc)
<1>1. k \in CallRecord /\ Fits(c, k) BY DEF SessionInv, Types, Calls
<1>2. /\ r.pc = pc /\ r.login = k.login
      /\ pc \in Ends => r.client = k.client /\ r.in = "connect" /\ r.auth = Torn
      /\ pc \in Closes => r.client = "none" /\ r.in = k.in /\ r.auth = Torn
      /\ pc \in Signs => r.client = k.client /\ r.in = k.in /\ r.auth.token = None
      /\ pc \notin Ends \union Closes \union Signs => r.client = k.client /\ r.in = k.in /\ r.auth = k.auth
  BY <1>1, ReachedFields
<1>3. Torn.token = None BY IdleFields
<1> HIDE DEF k, r
<1>4. OneSession(r.auth) BY <1>1, <1>2, <1>3 DEF Fits, OneSession
<1>5. k.client \in {"none", "open", "broken"} /\ k.login \in {"none", "open", "left", "broken"} BY <1>1 DEF CallRecord
<1>6. /\ k = call[c] /\ r = Reached(call[c], pc) BY DEF k, r
<1>7. lock = c <=> Holds(r) BY <1>1, <1>2, <1>6 DEF Fits, Holds, Ends, Closes, Signs
<1>8. Holds(r) => r.client = "open" BY <1>1, <1>2, <1>6, <1>7 DEF Fits, Holds, Ends, Closes, Signs
<1>9. r.client = "open" => Holds(r) BY <1>1, <1>2, <1>5, <1>6, <1>7 DEF Fits, Ends, Closes, Signs
<1>10. r.login = "open" => r.in = "login" /\ r.pc \in LoginOpen
  BY <1>1, <1>2, <1>6 DEF Fits, Holds, LoginOpen, Ends, Closes, Signs
<1>11. r.pc \in LoginOnly => r.in = "login" BY <1>1, <1>2, <1>6 DEF LoginOnly, Ends, Closes, Signs
<1> QED BY <1>2, <1>4, <1>6, <1>7, <1>8, <1>9, <1>10, <1>11 DEF Fits

-----------------------------------------------------------------------------
\* What is known of a call that is neither over nor joining.
LEMMA Running ==
    ASSUME SessionInv, NEW c \in Callers, call[c].pc \notin Later
    PROVE  call[c] \in CallRecord /\ call[c].auth \in Auth /\ Fits(c, call[c]) /\ current # c
BY DEF SessionInv, Types, Calls, CallRecord, Fits, Later

\* The credentials are resolved: the call waits for the lock with a session of the homeserver.
LEMMA InvResolved ==
    ASSUME SessionInv, NEW c \in Callers, call[c].pc \in {"load", "reload"}, NEW auth \in Auth, NEW file \in BOOLEAN,
           auth.token # None, OneSession(auth), Resolved(c, auth, file),
           UNCHANGED <<disk, server, process, rooms, restarts>>
    PROVE  SessionInv'
<1>1. PICK on \in ConfigureE2EE :
         call' = [call EXCEPT ![c] = [Idle EXCEPT !.pc = "lock", !.auth = auth, !.file = file,
                                                  !.e2ee = on, !.login = call[c].login]]
  BY DEF Resolved
<1>2. on \in BOOLEAN BY DEF ConfigureE2EE, SessionInv, Types
<1>3. call[c] \in CallRecord /\ Fits(c, call[c]) /\ current # c BY Running DEF Later
<1> DEFINE r == [Idle EXCEPT !.pc = "lock", !.auth = auth, !.file = file, !.e2ee = on, !.login = call[c].login]
<1>4. /\ r \in CallRecord /\ r.pc = "lock" /\ r.auth = auth /\ r.in = "connect" /\ r.client = "none"
      /\ r.login = call[c].login
  BY <1>2, <1>3, IdleFields DEF CallRecord, Pcs
<1>5. call' = [call EXCEPT ![c] = r] BY <1>1
<1> HIDE DEF r
<1>6. Quiet(c) /\ call'[c] = r BY <1>4, <1>5 DEF Quiet, SessionInv, Types, disk, server, process, rooms
<1>7. Fits(c, r) BY <1>3, <1>4 DEF Fits, Holds, LoginOpen, LoginOnly
<1> QED BY <1>6, <1>7, QuietStep

\* _resolve_and_load_credentials()
LEMMA InvLoadCredentials ==
    ASSUME SessionInv, NEW c \in Callers, LoadCredentials(c)
    PROVE  SessionInv'
<1>1. call[c].pc = "load" /\ UNCHANGED <<disk, server, process, rooms, restarts>> BY DEF LoadCredentials, At
<1>2. call[c] \in CallRecord /\ Fits(c, call[c]) /\ current # c BY <1>1, Running DEF Later
<1>3. CASE Usable(creds) /\ Resolved(c, creds, TRUE)
  BY <1>1, <1>3, InvResolved DEF SessionInv, Types, Sessions, Usable
<1>4. CASE call' = [call EXCEPT ![c].pc = "read", ![c].in = "login"]
  <2>1. /\ call' \in [Callers -> CallRecord] /\ call'[c].pc = "read" /\ call'[c].in = "login"
        /\ call'[c].auth = call[c].auth /\ call'[c].client = call[c].client /\ call'[c].login = call[c].login
        /\ \A x \in Callers \ {c} : call'[x] = call[x]
    BY <1>2, <1>4 DEF SessionInv, Types, CallRecord, Pcs
  <2>2. Quiet(c) BY <1>1, <2>1 DEF Quiet, disk, server, process, rooms
  <2>3. Fits(c, call'[c]) BY <1>1, <1>2, <2>1 DEF Fits, Holds, LoginOpen, LoginOnly
  <2> QED BY <1>1, <2>2, <2>3, QuietStep
<1>5. CASE \E auth \in ConfigAuth : Resolved(c, auth, FALSE)
  <2>1. PICK auth \in ConfigAuth : Resolved(c, auth, FALSE) BY <1>5
  <2>2. auth \in Auth /\ auth.token = 1 /\ auth.device = None BY DEF ConfigAuth, Auth, None
  <2>3. Len(srv.session) \in Nat /\ Len(srv.session) # 0 BY DEF SessionInv, Types, Sessions
  <2>4. OneSession(auth) /\ auth.token # None BY <2>2, <2>3 DEF OneSession, None
  <2> QED BY <1>1, <2>1, <2>2, <2>4, InvResolved
<1>6. CASE Go(c, "raised")
  <2>1. Fits(c, Reached(call[c], "raised")) BY <1>1, <1>2, ReachedFits DEF Fits, Holds, LoginOpen, Pcs
  <2> QED BY <1>1, <1>6, <2>1, GoQuiet DEF Pcs, disk, server, process, rooms
<1> QED BY <1>3, <1>4, <1>5, <1>6 DEF LoadCredentials

\* The credentials the login has saved are read again.
LEMMA InvReloadCredentials ==
    ASSUME SessionInv, NEW c \in Callers, ReloadCredentials(c)
    PROVE  SessionInv'
<1>1. call[c].pc = "reload" /\ UNCHANGED <<disk, server, process, rooms, restarts>> BY DEF ReloadCredentials, At
<1>2. call[c] \in CallRecord /\ Fits(c, call[c]) /\ current # c BY <1>1, Running DEF Later
<1>3. CASE Usable(creds) /\ Resolved(c, creds, TRUE)
  BY <1>1, <1>3, InvResolved DEF SessionInv, Types, Sessions, Usable
<1>4. CASE Go(c, "raised")
  <2>1. Fits(c, Reached(call[c], "raised")) BY <1>1, <1>2, ReachedFits DEF Fits, Holds, LoginOpen, Pcs
  <2> QED BY <1>1, <1>4, <2>1, GoQuiet DEF Pcs, disk, server, process, rooms
<1> QED BY <1>3, <1>4 DEF ReloadCredentials

\* The file cannot be written.
LEMMA InvSaveFails ==
    ASSUME SessionInv, NEW c \in Callers, SaveFails(c)
    PROVE  SessionInv'
<1>1. call[c].pc \in {"save", "write"} /\ UNCHANGED <<disk, server, process, rooms, restarts>> BY DEF SaveFails
<1>2. call[c] \in CallRecord /\ Fits(c, call[c]) /\ current # c BY <1>1, Running DEF Later
<1>3. call[c].in \in {"connect", "login"} BY <1>2 DEF CallRecord
<1> DEFINE pc == IF call[c].in = "login" THEN "login_failed" ELSE "signing"
<1>4. Go(c, pc) /\ pc \in Pcs BY DEF SaveFails, Pcs
<1>5. Fits(c, Reached(call[c], pc)) BY <1>1, <1>2, <1>3, ReachedFits DEF Holds, Pcs
<1> HIDE DEF pc
<1> QED BY <1>1, <1>4, <1>5, GoQuiet DEF disk, server, process, rooms

\* mmrelay auth login
LEMMA InvAuthLogin ==
    ASSUME SessionInv, AuthLogin
    PROVE  SessionInv'
<1>1. "cli" \in Callers /\ call["cli"].pc = "idle" /\ UNCHANGED <<disk, server, process, rooms, restarts>>
  BY DEF AuthLogin, At, Callers
<1>2. call["cli"] \in CallRecord /\ Fits("cli", call["cli"]) /\ current # "cli" BY <1>1, Running DEF Later
<1>3. /\ call' \in [Callers -> CallRecord] /\ call'["cli"].pc = "read" /\ call'["cli"].in = "login"
      /\ call'["cli"].auth = call["cli"].auth /\ call'["cli"].client = call["cli"].client
      /\ call'["cli"].login = call["cli"].login
      /\ \A x \in Callers \ {"cli"} : call'[x] = call[x]
  <2>1. PICK reset \in BOOLEAN :
           call' = [call EXCEPT !["cli"].pc = "read", !["cli"].in = "login", !["cli"].reset = reset]
    BY DEF AuthLogin
  <2> QED BY <1>1, <1>2, <2>1 DEF SessionInv, Types, CallRecord, Pcs
<1>4. Quiet("cli") BY <1>1, <1>3 DEF Quiet, disk, server, process, rooms
<1>5. Fits("cli", call'["cli"]) BY <1>1, <1>2, <1>3 DEF Fits, Holds, LoginOpen, LoginOnly
<1> QED BY <1>1, <1>4, <1>5, QuietStep

\* The file is read for the device, and the client of the login opened.
LEMMA InvReadDevice ==
    ASSUME SessionInv, NEW c \in Callers, ReadDevice(c)
    PROVE  SessionInv'
<1>1. call[c].pc = "read" /\ UNCHANGED <<disk, server, process, rooms, restarts>> BY DEF ReadDevice, At
<1>2. call[c] \in CallRecord /\ Fits(c, call[c]) /\ current # c BY <1>1, Running DEF Later
<1>3. CASE Go(c, "raised")
  <2>1. Fits(c, Reached(call[c], "raised")) BY <1>1, <1>2, ReachedFits DEF Fits, Holds, LoginOpen, Pcs
  <2> QED BY <1>1, <1>3, <2>1, GoQuiet DEF Pcs, disk, server, process, rooms
<1>4. CASE ~Go(c, "raised")
  <2> DEFINE old == IF creds.user THEN creds.device ELSE None
  <2>1. PICK on \in {config.e2ee, FALSE} :
           call' = [call EXCEPT ![c].pc = "signin", ![c].login = "open", ![c].e2ee = on, ![c].old = old]
    BY <1>4 DEF ReadDevice
  <2>2. on \in BOOLEAN /\ old \in Nat BY DEF SessionInv, Types, Auth, None
  <2> HIDE DEF old
  <2> DEFINE r == [call[c] EXCEPT !.pc = "signin", !.login = "open", !.e2ee = on, !.old = old]
  <2>6. /\ r \in CallRecord /\ r.pc = "signin" /\ r.login = "open" /\ r.in = call[c].in
        /\ r.auth = call[c].auth /\ r.client = call[c].client
    BY <1>2, <2>2 DEF CallRecord, Pcs
  <2>7. call' = [call EXCEPT ![c] = r] BY <1>2, <2>1 DEF SessionInv, Types, CallRecord
  <2> HIDE DEF r
  <2>8. call \in [Callers -> CallRecord] BY DEF SessionInv, Types
  <2>3. /\ call' \in [Callers -> CallRecord] /\ call'[c].pc = "signin" /\ call'[c].login = "open"
        /\ call'[c].in = call[c].in /\ call'[c].auth = call[c].auth /\ call'[c].client = call[c].client
        /\ \A x \in Callers \ {c} : call'[x] = call[x]
    BY <2>6, <2>7, <2>8, UpdateFields
  <2>4. Quiet(c) BY <1>1, <2>3 DEF Quiet, disk, server, process, rooms
  <2>5. Fits(c, call'[c]) BY <1>1, <1>2, <2>3 DEF Fits, Holds, LoginOpen, LoginOnly
  <2> QED BY <1>1, <2>4, <2>5, QuietStep
<1> QED BY <1>3, <1>4

\* whoami() after a login
LEMMA InvWhoamiAfterLogin ==
    ASSUME SessionInv, NEW c \in Callers, WhoamiAfterLogin(c)
    PROVE  SessionInv'
<1>1. call[c].pc = "whoami_login" /\ UNCHANGED <<disk, server, process, rooms, restarts>>
  BY DEF WhoamiAfterLogin, At
<1>2. call[c] \in CallRecord /\ call[c].auth \in Auth /\ Fits(c, call[c]) /\ current # c BY <1>1, Running DEF Later
<1>3. call[c].in = "login" BY <1>1, <1>2 DEF Fits, LoginOnly
<1>4. CASE \E user \in BOOLEAN : call' = [call EXCEPT ![c].pc = "save", ![c].auth.user = user]
  <2>1. PICK user \in BOOLEAN : call' = [call EXCEPT ![c].pc = "save", ![c].auth.user = user] BY <1>4
  <2> DEFINE a == [call[c].auth EXCEPT !.user = user]
             r == [call[c] EXCEPT !.pc = "save", !.auth = a]
  <2>2. a \in Auth /\ a.token = call[c].auth.token /\ a.device = call[c].auth.device BY <1>2 DEF Auth
  <2>3. call' = [call EXCEPT ![c] = r] BY <1>2, <2>1 DEF SessionInv, Types, CallRecord
  <2> HIDE DEF a
  <2>4. /\ r \in CallRecord /\ r.pc = "save" /\ r.auth = a /\ r.in = call[c].in /\ r.client = call[c].client
        /\ r.login = call[c].login
    BY <1>2, <2>2 DEF CallRecord, Pcs
  <2> HIDE DEF r
  <2>5. Quiet(c) /\ call'[c] = r BY <1>1, <2>3, <2>4 DEF Quiet, SessionInv, Types, disk, server, process, rooms
  <2>6. Fits(c, r) BY <1>1, <1>2, <1>3, <2>2, <2>4 DEF Fits, Holds, LoginOpen, LoginOnly, OneSession
  <2> QED BY <1>1, <2>5, <2>6, QuietStep
<1>5. CASE Go(c, "login_failed")
  <2>1. Fits(c, Reached(call[c], "login_failed")) BY <1>1, <1>2, <1>3, ReachedFits DEF Holds, Pcs
  <2> QED BY <1>1, <1>5, <2>1, GoQuiet DEF Pcs, disk, server, process, rooms
<1> QED BY <1>4, <1>5 DEF WhoamiAfterLogin

\* Every way out of the login calls close() on its client.
LEMMA InvLoginEnds ==
    ASSUME SessionInv, NEW c \in Callers, LoginEnds(c)
    PROVE  SessionInv'
<1>1. call[c].pc \in {"login_failed", "login_close"} /\ UNCHANGED <<disk, server, process, rooms, restarts>>
  BY DEF LoginEnds, At
<1>2. call[c] \in CallRecord /\ Fits(c, call[c]) /\ current # c BY <1>1, Running DEF Later
<1>3. PICK next \in {"reload", "done", "raised"}, left \in {"none", "broken"} :
         call' = [call EXCEPT ![c] = [Idle EXCEPT !.pc = next, !.login = left]]
  BY DEF LoginEnds, LoginReturns
<1> DEFINE r == [Idle EXCEPT !.pc = next, !.login = left]
<1>4. r \in CallRecord /\ r.pc = next /\ r.in = "connect" /\ r.auth = Torn /\ r.client = "none" /\ r.login = left
  BY IdleFields DEF CallRecord, Pcs
<1> HIDE DEF r
<1>5. Quiet(c) /\ call'[c] = r
  BY <1>1, <1>3, <1>4 DEF r, Quiet, SessionInv, Types, disk, server, process, rooms
<1>6. Fits(c, r) BY <1>1, <1>2, <1>4, IdleFields DEF Fits, Holds, LoginOpen, LoginOnly, OneSession
<1> QED BY <1>1, <1>5, <1>6, QuietStep

\* Where the signing of the device may be left for.
LEMMA SigningGoes ==
    ASSUME SessionInv, NEW c \in Callers, call[c].pc \in {"signing", "policy", "bootstrap", "verify", "repair"},
           NEW pc, pc \in {"policy", "verify", "repair", AfterSigning(c)}
    PROVE  pc \in Pcs /\ Fits(c, Reached(call[c], pc))
<1>1. call[c] \in CallRecord /\ Fits(c, call[c]) /\ current # c BY Running DEF Later
<1>2. call[c].in \in {"connect", "login"} BY <1>1 DEF CallRecord
<1> QED BY <1>1, <1>2, ReachedFits DEF Holds, Pcs, AfterSigning

\* The steps of the signing that only go on.
LEMMA InvSigning ==
    ASSUME SessionInv, NEW c \in Callers, call[c].pc \in {"signing", "policy", "bootstrap", "verify", "repair"},
           NEW pc, pc \in {"policy", "verify", "repair", AfterSigning(c)}, Go(c, pc),
           UNCHANGED <<disk, server, process, rooms, restarts>>
    PROVE  SessionInv'
<1>1. pc \in Pcs /\ Fits(c, Reached(call[c], pc)) BY SigningGoes
<1> QED BY <1>1, GoQuiet DEF disk, server, process, rooms

\* _maybe_upload_e2ee_keys(), _confirm_server_visible_cross_signing() and its failures
LEMMA InvSigningSteps ==
    ASSUME SessionInv, NEW c \in Callers, StartSigning(c) \/ SigningFails(c) \/ Verify(c)
    PROVE  SessionInv'
<1>1. CASE StartSigning(c)
  <2>1. call[c].pc = "signing" /\ UNCHANGED <<disk, server, process, rooms, restarts>>
    BY <1>1 DEF StartSigning, At
  <2>2. PICK pc \in Provider(c) : Go(c, pc) BY <1>1 DEF StartSigning
  <2>3. pc \in {"policy", AfterSigning(c)} BY DEF Provider
  <2> QED BY <2>1, <2>2, <2>3, InvSigning
<1>2. CASE SigningFails(c) BY <1>2, InvSigning DEF SigningFails
<1>3. CASE Verify(c)
  <2>1. call[c].pc = "verify" /\ UNCHANGED <<disk, server, process, rooms, restarts>> BY <1>3 DEF Verify, At
  <2>2. Go(c, "repair") \/ Go(c, AfterSigning(c)) BY <1>3 DEF Verify
  <2> QED BY <2>1, <2>2, InvSigning
<1> QED BY <1>1, <1>2, <1>3

\* The reset policy: to make an identity it has to see none, or be asked for a reset.
LEMMA InvPolicy ==
    ASSUME SessionInv, NEW c \in Callers, Policy(c)
    PROVE  SessionInv'
<1>1. call[c].pc = "policy" /\ UNCHANGED <<disk, server, process, rooms, restarts>> BY DEF Policy, At
<1>2. call[c] \in CallRecord /\ Fits(c, call[c]) /\ current # c BY <1>1, Running DEF Later
<1>3. CASE /\ store # None \/ ~ServerHasIdentity \/ (call[c].reset /\ HasPassword(c))
           /\ call' = [call EXCEPT ![c].pc = "bootstrap", ![c].seen = srv.identity]
  <2>1. srv.identity \in Nat BY DEF SessionInv, Types
  <2>2. /\ call' \in [Callers -> CallRecord] /\ call'[c].pc = "bootstrap" /\ call'[c].seen = srv.identity
        /\ call'[c].in = call[c].in /\ call'[c].auth = call[c].auth /\ call'[c].client = call[c].client
        /\ call'[c].login = call[c].login /\ call'[c].reset = call[c].reset
        /\ \A x \in Callers \ {c} : call'[x] = call[x]
    BY <1>2, <1>3, <2>1 DEF SessionInv, Types, CallRecord, Pcs
  <2>3. Quiet(c) BY <1>1, <2>2 DEF Quiet, disk, server, process, rooms
  <2>4. Fits(c, call'[c])
    BY <1>1, <1>2, <1>3, <2>2 DEF Fits, Holds, LoginOpen, LoginOnly, ServerHasIdentity
  <2> QED BY <1>1, <2>3, <2>4, QuietStep
<1>4. CASE Go(c, AfterSigning(c)) BY <1>1, <1>4, InvSigning
<1> QED BY <1>3, <1>4 DEF Policy

\* connect_matrix() is called.
LEMMA InvConnect ==
    ASSUME SessionInv, NEW c \in Callers, Connect(c)
    PROVE  SessionInv'
<1>1. call[c].pc = "idle" /\ UNCHANGED <<disk, server, process, rooms, restarts>> BY DEF Connect, At
<1>2. call[c] \in CallRecord /\ Fits(c, call[c]) /\ current # c BY <1>1, Running DEF Later
<1>3. PICK pc \in {"done", "load"} : Go(c, pc) BY DEF Connect
<1>4. pc \in Pcs /\ Fits(c, Reached(call[c], pc)) BY <1>1, <1>2, ReachedFits DEF Fits, Holds, LoginOpen, Pcs
<1> QED BY <1>1, <1>3, <1>4, GoQuiet DEF disk, server, process, rooms

\* The initial sync: its first try.
LEMMA InvInitialSync ==
    ASSUME SessionInv, NEW c \in Callers, InitialSync(c)
    PROVE  SessionInv'
<1>1. call[c].pc = "sync" /\ UNCHANGED <<disk, server, process, rooms, restarts>> BY DEF InitialSync, At
<1>2. call[c] \in CallRecord /\ Fits(c, call[c]) /\ current # c BY <1>1, Running DEF Later
<1>3. PICK pc \in {"post", "invite_safe_sync", "failed"} : Go(c, pc) BY DEF InitialSync
<1>4. pc \in Pcs /\ Fits(c, Reached(call[c], pc)) BY <1>1, <1>2, ReachedFits DEF Holds, Pcs
<1> QED BY <1>1, <1>3, <1>4, GoQuiet DEF disk, server, process, rooms

\* A step of one call that may also write the file, the sidecar and the homeserver.
LEMMA OwnStep ==
    ASSUME SessionInv, NEW c \in Callers, call[c].pc # "patched_sync",
           call' \in [Callers -> CallRecord], \A x \in Callers \ {c} : call'[x] = call[x],
           UNCHANGED <<config, current, lock, patched, mapping, joined>>,
           creds' \in Auth, store' \in Nat, made' \in Nat,
           srv' \in SrvRecord,
           Len(srv.session) <= Len(srv'.session),
           \A i \in 1..Len(srv.session) : srv'.session[i] = srv.session[i],
           store # None => store' # None, OneSession(creds)', Fits(c, call[c])'
    PROVE  SessionInv'
<1> USE DEF SessionInv
<1>1. Types' BY DEF Types
<1>2. Len(srv.session) \in Nat /\ Len(srv'.session) \in Nat BY DEF Types
<1>3. Calls'
  <2>1. Beside(c) BY <1>2 DEF Beside
  <2>2. (lock # "none" => current = "none")' BY DEF Calls
  <2> QED BY <2>1, <2>2, CallStep
<1>4. Sessions' BY <1>2 DEF Sessions
<1>5. Patching'
  <2> SUFFICES ASSUME patched' PROVE \E x \in Connectors : At(x, "patched_sync")' BY DEF Patching
  <2>1. PICK x \in Connectors : At(x, "patched_sync") BY DEF Patching
  <2>2. x \in Callers \ {c} BY <2>1 DEF At, Callers
  <2> QED BY <2>1, <2>2 DEF At
<1> QED BY <1>1, <1>3, <1>4, <1>5

\* What the sessions of the homeserver are worth to the file and to the calls.
LEMMA FileStays ==
    ASSUME SessionInv, srv' \in SrvRecord,
           Len(srv.session) <= Len(srv'.session),
           \A i \in 1..Len(srv.session) : srv'.session[i] = srv.session[i], UNCHANGED creds
    PROVE  OneSession(creds)'
<1>1. OneSession(creds) /\ creds \in Auth /\ Len(srv.session) \in Nat /\ Len(srv'.session) \in Nat
  BY DEF SessionInv, Sessions, Types
<1> QED BY <1>1 DEF OneSession, Auth

\* save_credentials(): the file is truncated, then filled.
LEMMA InvSave ==
    ASSUME SessionInv, NEW c \in Callers, OpenFile(c) \/ WriteFile(c)
    PROVE  SessionInv'
<1>1. call[c].pc \in {"save", "write"} /\ UNCHANGED <<config, store, server, process, rooms, restarts>>
  BY DEF OpenFile, WriteFile, At
<1>2. call[c] \in CallRecord /\ call[c].auth \in Auth /\ Fits(c, call[c]) /\ current # c BY <1>1, Running DEF Later
<1>3. PICK pc \in {"write", "signing"} : Go(c, pc) BY DEF OpenFile, WriteFile
<1>4. creds' = Torn \/ creds' = call[c].auth BY DEF OpenFile, WriteFile
<1>5. call[c].in \in {"connect", "login"} BY <1>2 DEF CallRecord
<1>6. pc \in Pcs /\ Fits(c, Reached(call[c], pc)) BY <1>1, <1>2, <1>5, ReachedFits DEF Holds, Pcs
<1>7. /\ call' \in [Callers -> CallRecord] /\ \A x \in Callers \ {c} : call'[x] = call[x]
      /\ call'[c] = Reached(call[c], pc)
  BY <1>3, <1>6, GoFields DEF SessionInv
<1>8. UNCHANGED <<config, store, srv, made, current, lock, patched, mapping, joined>>
  BY <1>1 DEF server, process, rooms
<1>9. Fits(c, call[c])' BY <1>6, <1>7, <1>8 DEF Fits, OneSession
<1>10. creds' \in Auth /\ OneSession(creds)'
  BY <1>2, <1>4, <1>8, IdleFields DEF Fits, OneSession
<1>11. /\ store' \in Nat /\ made' \in Nat /\ srv' \in SrvRecord
       /\ Len(srv.session) <= Len(srv'.session)
  BY <1>8 DEF SessionInv, Types
<1> QED BY <1>1, <1>7, <1>8, <1>9, <1>10, <1>11, OwnStep

\* The homeserver opens a session after the ones it has.
LEMMA NewSessionFields ==
    ASSUME SessionInv, NEW c \in Callers
    PROVE  LET n == NewSession(c)
           IN  /\ n \in SrvRecord /\ n.identity = srv.identity
               /\ Len(n.session) = Len(srv.session) + 1
               /\ \A i \in 1..Len(srv.session) : n.session[i] = srv.session[i]
<1> DEFINE known == {srv.session[i] : i \in DOMAIN srv.session}
           device == IF call[c].old # None THEN call[c].old ELSE Cardinality(known) + 1
           n == [srv EXCEPT !.session = Append(@, device)]
<1>1. srv.session \in Seq(Nat) /\ Len(srv.session) \in Nat /\ DOMAIN srv.session = 1..Len(srv.session)
  BY DEF SessionInv, Types
<1>2. IsFiniteSet(1..Len(srv.session)) BY <1>1, FS_Interval
<1>3. IsFiniteSet(known)
  <2>1. srv.session \in Surjection(1..Len(srv.session), known) BY <1>1 DEF Surjection
  <2> QED BY <1>2, <2>1, FS_Surjection
<1>4. Cardinality(known) \in Nat BY <1>3, FS_CardinalityType
<1>5. device \in Nat BY <1>4 DEF SessionInv, Types, CallRecord
<1>6. NewSession(c) = n BY DEF NewSession
<1> HIDE DEF device
<1>7. /\ n \in SrvRecord /\ n.identity = srv.identity
      /\ n.session = Append(srv.session, device)
  <2>1. Append(srv.session, device) \in Seq(Nat) BY <1>1, <1>5
  <2>2. srv \in SrvRecord BY DEF SessionInv, Types
  <2> QED BY <2>1, <2>2
<1> HIDE DEF n
<1>8. /\ Len(n.session) = Len(srv.session) + 1
      /\ \A i \in 1..Len(srv.session) : n.session[i] = srv.session[i]
  BY <1>1, <1>5, <1>7
<1> QED BY <1>6, <1>7, <1>8

\* A call that fits goes on fitting while the homeserver only opens sessions.
LEMMA FitsStay ==
    ASSUME SessionInv, NEW c \in Callers, call'[c] \in CallRecord, Fits(c, call'[c]), UNCHANGED <<lock, current>>,
           srv' \in SrvRecord, Len(srv.session) <= Len(srv'.session),
           \A i \in 1..Len(srv.session) : srv'.session[i] = srv.session[i], store # None => store' # None
    PROVE  Fits(c, call[c])'
<1>1. Len(srv.session) \in Nat /\ Len(srv'.session) \in Nat BY DEF SessionInv, Types
<1>2. call'[c].auth \in Auth BY DEF CallRecord
<1>3. OneSession(call[c].auth)' BY <1>1, <1>2 DEF Fits, OneSession, Auth
<1> QED BY <1>3 DEF Fits

\* The login gets its session.
LEMMA InvSignIn ==
    ASSUME SessionInv, NEW c \in Callers, SignIn(c)
    PROVE  SessionInv'
<1>1. /\ call[c].pc = "signin" /\ srv' = NewSession(c)
      /\ UNCHANGED <<config, creds, store, made, current, lock, patched, mapping, joined>>
  BY DEF SignIn, At, disk, process, rooms
<1>2. call[c] \in CallRecord /\ Fits(c, call[c]) /\ current # c BY <1>1, Running DEF Later
<1>3. /\ srv' \in SrvRecord /\ Len(srv'.session) = Len(srv.session) + 1
      /\ \A i \in 1..Len(srv.session) : srv'.session[i] = srv.session[i]
  BY <1>1, NewSessionFields
<1>4. Len(srv.session) \in Nat /\ Len(srv'.session) \in 1..Len(srv'.session)
  BY <1>3 DEF SessionInv, Types
<1> DEFINE n == Len(srv'.session)
           a == [token |-> n, user |-> TRUE, device |-> srv'.session[n]]
           r == [call[c] EXCEPT !.pc = "whoami_login", !.old = None, !.auth = a]
<1>5. srv'.session[n] \in Nat BY <1>3, <1>4
<1>6. a \in Auth /\ a.token = n /\ a.device = srv'.session[n] BY <1>4, <1>5 DEF Auth
<1>7. call' = [call EXCEPT ![c] = r] BY <1>2 DEF SignIn, SessionInv, Types, CallRecord
<1> HIDE DEF a
<1>8. /\ r \in CallRecord /\ r.pc = "whoami_login" /\ r.auth = a /\ r.in = call[c].in /\ r.client = call[c].client
      /\ r.login = call[c].login
  BY <1>2, <1>6 DEF CallRecord, Pcs, None
<1> HIDE DEF r
<1>9. call' \in [Callers -> CallRecord] /\ call'[c] = r /\ \A x \in Callers \ {c} : call'[x] = call[x]
  BY <1>7, <1>8 DEF SessionInv, Types
<1>10. OneSession(call[c].auth)' BY <1>4, <1>6, <1>8, <1>9 DEF OneSession
<1>11. Fits(c, call[c])'
  BY <1>1, <1>2, <1>8, <1>9, <1>10 DEF Fits, Holds, LoginOpen, LoginOnly
<1>12. OneSession(creds)' BY <1>1, <1>3, <1>4, FileStays
<1>13. creds' \in Auth /\ store' \in Nat /\ made' \in Nat BY <1>1 DEF SessionInv, Types
<1> QED BY <1>1, <1>3, <1>4, <1>9, <1>11, <1>12, <1>13, OwnStep

\* The login is refused, or is not known to have been granted.
LEMMA InvSignInFails ==
    ASSUME SessionInv, NEW c \in Callers, SignInFails(c)
    PROVE  SessionInv'
<1>1. /\ call[c].pc = "signin" /\ Go(c, "login_failed") /\ srv' \in {srv, NewSession(c)}
      /\ UNCHANGED <<config, creds, store, made, current, lock, patched, mapping, joined>>
  BY DEF SignInFails, At, disk, process, rooms
<1>2. call[c] \in CallRecord /\ Fits(c, call[c]) /\ current # c BY <1>1, Running DEF Later
<1>3. Len(srv.session) \in Nat /\ srv \in SrvRecord BY DEF SessionInv, Types
<1>4. /\ srv' \in SrvRecord /\ Len(srv.session) <= Len(srv'.session)
      /\ \A i \in 1..Len(srv.session) : srv'.session[i] = srv.session[i]
  BY <1>1, <1>3, NewSessionFields
<1>5. "login_failed" \in Pcs /\ Fits(c, Reached(call[c], "login_failed"))
  BY <1>1, <1>2, ReachedFits DEF Fits, Holds, LoginOnly, Pcs
<1>6. /\ call' \in [Callers -> CallRecord] /\ call'[c] = Reached(call[c], "login_failed")
      /\ \A x \in Callers \ {c} : call'[x] = call[x]
  BY <1>1, <1>5, GoFields DEF SessionInv
<1>7. Fits(c, call[c])' BY <1>1, <1>4, <1>5, <1>6, FitsStay
<1>8. OneSession(creds)' BY <1>1, <1>4, FileStays
<1>9. creds' \in Auth /\ store' \in Nat /\ made' \in Nat BY <1>1 DEF SessionInv, Types
<1> QED BY <1>1, <1>4, <1>6, <1>7, <1>8, <1>9, OwnStep

\* A step of the signing that publishes an identity or a signature.
LEMMA SigningStep ==
    ASSUME SessionInv, NEW c \in Callers, call[c].pc \in {"bootstrap", "repair"},
           NEW pc, pc \in {"policy", "verify", "repair", AfterSigning(c)}, Go(c, pc),
           UNCHANGED <<config, creds, process, rooms>>, store' \in Nat, store # None => store' # None, made' \in Nat,
           srv' \in SrvRecord, srv'.session = srv.session
    PROVE  SessionInv'
<1>1. pc \in Pcs /\ Fits(c, Reached(call[c], pc)) BY SigningGoes
<1>2. /\ call' \in [Callers -> CallRecord] /\ call'[c] = Reached(call[c], pc)
      /\ \A x \in Callers \ {c} : call'[x] = call[x]
  BY <1>1, GoFields DEF SessionInv
<1>3. UNCHANGED <<current, lock, patched, mapping, joined>> BY DEF process, rooms
<1>4. Len(srv.session) <= Len(srv'.session) BY DEF SessionInv, Types
<1>5. Fits(c, call[c])' BY <1>1, <1>2, <1>3, <1>4, FitsStay
<1>6. OneSession(creds)' BY <1>4, FileStays
<1>7. creds' \in Auth BY DEF SessionInv, Types
<1> QED BY <1>2, <1>3, <1>4, <1>5, <1>6, <1>7, OwnStep

\* The homeserver takes an identity and signatures and keeps its sessions.
LEMMA SrvFields ==
    ASSUME srv \in SrvRecord, NEW id \in Nat, NEW S \in SUBSET Nat
    PROVE  LET n == [srv EXCEPT !.identity = id, !.signed = S]
           IN  n \in SrvRecord /\ n.session = srv.session /\ n.identity = id
OBVIOUS

\* ensure_cross_signing() and _republish_own_device_signature()
LEMMA InvPublishesIdentity ==
    ASSUME SessionInv, NEW c \in Callers, SignDevice(c) \/ MakeIdentity(c) \/ Repair(c)
    PROVE  SessionInv'
<1>1. srv \in SrvRecord /\ store \in Nat /\ made \in Nat BY DEF SessionInv, Types
<1>2. call[c].pc \in {"bootstrap", "repair"} BY DEF SignDevice, MakeIdentity, Repair, At
<1>3. call[c].auth.device \in Nat
  <2>1. call[c].auth \in Auth BY <1>2, Running DEF Later
  <2> QED BY <2>1 DEF Auth
<1>4. CASE SignDevice(c)
  <2>1. /\ Go(c, "verify") /\ UNCHANGED <<config, creds, process, rooms>> /\ UNCHANGED <<store, made>>
    BY <1>4 DEF SignDevice, disk
  <2>2. srv' \in SrvRecord /\ srv'.session = srv.session
    <3>1. CASE srv' = srv BY <1>1, <3>1
    <3>2. CASE srv' # srv
      <4>1. PICK S \in {srv.signed, srv.signed \union {call[c].auth.device}} :
               srv' = [srv EXCEPT !.identity = store, !.signed = S]
        BY <1>4, <3>2 DEF SignDevice
      <4>2. S \in SUBSET Nat BY <1>1, <1>3
      <4> QED BY <1>1, <4>1, <4>2, SrvFields
    <3> QED BY <3>1, <3>2
  <2> QED BY <1>1, <1>2, <2>1, <2>2, SigningStep
<1>5. CASE MakeIdentity(c)
  <2>1. /\ store = None /\ UNCHANGED <<config, creds, process, rooms>>
        /\ made' = made + 1 /\ (store' = made' \/ store' = store)
        /\ Go(c, "verify") \/ Go(c, AfterSigning(c))
    BY <1>5 DEF MakeIdentity
  <2>2. srv' \in SrvRecord /\ srv'.session = srv.session
    <3>1. srv' = [srv EXCEPT !.identity = made', !.signed = {call[c].auth.device}] BY <1>5 DEF MakeIdentity
    <3>2. {call[c].auth.device} \in SUBSET Nat /\ made' \in Nat BY <1>1, <1>3, <2>1
    <3> QED BY <1>1, <3>1, <3>2, SrvFields
  <2> QED BY <1>1, <1>2, <2>1, <2>2, SigningStep
<1>6. CASE Repair(c)
  <2>1. /\ Go(c, AfterSigning(c)) /\ UNCHANGED <<config, creds, process, rooms>> /\ UNCHANGED <<store, made>>
    BY <1>6 DEF Repair, disk
  <2>2. srv' \in SrvRecord /\ srv'.session = srv.session BY <1>1, <1>3, <1>6 DEF Repair
  <2> QED BY <1>1, <1>2, <2>1, <2>2, SigningStep
<1> QED BY <1>4, <1>5, <1>6

\* A step of one call, whatever it changes.
LEMMA AnyStep ==
    ASSUME SessionInv, NEW c \in Callers, Types', Beside(c), Fits(c, call[c])', (lock # "none" => current = "none")',
           OneSession(creds)', Patching'
    PROVE  SessionInv'
<1>1. Calls' BY CallStep DEF SessionInv
<1>2. Len(srv.session) \in Nat /\ Len(srv.session) # 0 BY DEF SessionInv, Types, Sessions
<1>3. Sessions' BY <1>2 DEF Sessions, Beside
<1> QED BY <1>1, <1>3 DEF SessionInv

\* While the homeserver and the sidecar stay as they are only the lock and the client count.
LEMMA BesideLocal ==
    ASSUME SessionInv, NEW c \in Callers, UNCHANGED <<srv, store>>,
           \A x \in Callers \ {c} : /\ call'[x] = call[x]
                                    /\ lock' = x <=> lock = x
                                    /\ current' = x <=> current = x
    PROVE  Beside(c)
<1>1. Len(srv.session) \in Nat BY DEF SessionInv, Types
<1> QED BY <1>1 DEF Beside

\* nio stays patched only for the call that patched it.
LEMMA PatchStays ==
    ASSUME SessionInv, NEW c \in Callers, call[c].pc # "patched_sync", \A x \in Callers \ {c} : call'[x] = call[x],
           patched' => patched
    PROVE  Patching'
<1> SUFFICES ASSUME patched' PROVE \E x \in Connectors : At(x, "patched_sync")' BY DEF Patching
<1>1. PICK x \in Connectors : At(x, "patched_sync") BY DEF Patching, SessionInv
<1>2. x \in Callers \ {c} BY <1>1 DEF At, Callers
<1> QED BY <1>1, <1>2 DEF At

\* whoami() of connect_matrix()
LEMMA InvWhoami ==
    ASSUME SessionInv, NEW c \in Callers, Whoami(c)
    PROVE  SessionInv'
<1>1. call[c].pc = "whoami" /\ UNCHANGED <<disk, server, process, rooms, restarts>> BY DEF Whoami, At
<1>2. call[c] \in CallRecord /\ call[c].auth \in Auth /\ Fits(c, call[c]) /\ current # c BY <1>1, Running DEF Later
<1>3. call[c].in = "connect" /\ call[c].auth.token # None /\ call[c].auth.token \in 1..Len(srv.session)
  BY <1>1, <1>2 DEF Fits, OneSession
<1>4. ASSUME NEW device \in Nat, NEW pc \in {"signing", "save"},
             device \in {call[c].auth.device, srv.session[call[c].auth.token]},
             NEW a \in Auth, a.token = call[c].auth.token, a.device = device,
             call' = [call EXCEPT ![c] = [call[c] EXCEPT !.auth = a, !.pc = pc]]
      PROVE  SessionInv'
  <2> DEFINE r == [call[c] EXCEPT !.auth = a, !.pc = pc]
  <2>2. call' = [call EXCEPT ![c] = r] BY <1>4
  <2>3. /\ r \in CallRecord /\ r.pc = pc /\ r.auth = a /\ r.in = call[c].in /\ r.client = call[c].client
        /\ r.login = call[c].login
    BY <1>2, <1>4 DEF CallRecord, Pcs
  <2> HIDE DEF r
  <2>4. Quiet(c) /\ call'[c] = r BY <1>1, <2>2, <2>3 DEF Quiet, SessionInv, Types, disk, server, process, rooms
  <2>5. OneSession(a) BY <1>2, <1>3, <1>4 DEF Fits, OneSession
  <2>6. Fits(c, r) BY <1>1, <1>2, <1>3, <2>3, <2>5 DEF Fits, Holds, LoginOpen, LoginOnly
  <2> QED BY <1>1, <2>4, <2>6, QuietStep
<1>5. CASE /\ call[c].file
           /\ \E device \in {call[c].auth.device, srv.session[call[c].auth.token]} :
                 call' = [call EXCEPT ![c].auth.user = TRUE, ![c].auth.device = device,
                            ![c].pc = IF call[c].auth.user /\ device = call[c].auth.device
                                      THEN "signing" ELSE "save"]
  <2>1. PICK device \in {call[c].auth.device, srv.session[call[c].auth.token]} :
           call' = [call EXCEPT ![c].auth.user = TRUE, ![c].auth.device = device,
                      ![c].pc = IF call[c].auth.user /\ device = call[c].auth.device
                                THEN "signing" ELSE "save"]
    BY <1>5
  <2> DEFINE pc == IF call[c].auth.user /\ device = call[c].auth.device THEN "signing" ELSE "save"
  <2>2. device \in Nat BY <1>2, <1>3 DEF Auth, SessionInv, Types
  <2>3. pc \in {"signing", "save"} OBVIOUS
  <2>4. call' = [call EXCEPT ![c].auth.user = TRUE, ![c].auth.device = device, ![c].pc = pc] BY <2>1
  <2> HIDE DEF pc
  <2> DEFINE a == [call[c].auth EXCEPT !.user = TRUE, !.device = device]
  <2>5. a \in Auth /\ a.token = call[c].auth.token /\ a.device = device BY <1>2, <2>2 DEF Auth
  <2>6. call' = [call EXCEPT ![c] = [call[c] EXCEPT !.auth = a, !.pc = pc]]
    BY <1>2, <2>4 DEF SessionInv, Types, CallRecord
  <2> HIDE DEF a
  <2> QED BY <1>4, <2>2, <2>3, <2>5, <2>6
<1>6. CASE call' = [call EXCEPT ![c].auth.user = TRUE, ![c].pc = "signing"]
  <2> DEFINE a == [call[c].auth EXCEPT !.user = TRUE]
  <2>1. /\ a \in Auth /\ a.token = call[c].auth.token /\ a.device = call[c].auth.device
        /\ call[c].auth.device \in Nat
    BY <1>2 DEF Auth
  <2>2. call' = [call EXCEPT ![c] = [call[c] EXCEPT !.auth = a, !.pc = "signing"]]
    BY <1>2, <1>6 DEF SessionInv, Types, CallRecord
  <2> HIDE DEF a
  <2> QED BY <1>4, <2>1, <2>2
<1>7. CASE Go(c, CheckUser(c))
  <2>1. CheckUser(c) \in {"signing", "failed"} BY DEF CheckUser
  <2>2. CheckUser(c) \in Pcs /\ Fits(c, Reached(call[c], CheckUser(c)))
    BY <1>1, <1>2, <1>3, <2>1, ReachedFits DEF Holds, Pcs
  <2> QED BY <1>1, <1>7, <2>2, GoQuiet DEF disk, server, process, rooms
<1> QED BY <1>5, <1>6, <1>7 DEF Whoami

\* The startup lock is taken, or the client that is there is used.
LEMMA InvTakeLock ==
    ASSUME SessionInv, NEW c \in Connectors, TakeLock(c)
    PROVE  SessionInv'
<1>1. /\ c \in Callers /\ call[c].pc = "lock" /\ lock = "none"
      /\ UNCHANGED <<config, creds, store, srv, made, current, patched, mapping, joined>>
  BY DEF TakeLock, At, Callers, disk, server, rooms
<1>2. call[c] \in CallRecord /\ Fits(c, call[c]) /\ current # c BY <1>1, Running DEF Later
<1>3. CASE current # "none"
  <2>1. Go(c, "done") /\ UNCHANGED lock BY <1>3 DEF TakeLock
  <2>2. "done" \in Pcs /\ Fits(c, Reached(call[c], "done"))
    BY <1>1, <1>2, ReachedFits DEF Fits, Holds, LoginOpen, Pcs
  <2> QED BY <1>1, <2>1, <2>2, GoQuiet
<1>4. CASE current = "none"
  <2>1. lock' = c BY <1>4 DEF TakeLock
  <2>2. PICK pc \in {"signing", "whoami"} : call' = [call EXCEPT ![c].pc = pc, ![c].client = "open"]
    BY <1>4 DEF TakeLock, RestoreLogin
  <2>3. /\ call' \in [Callers -> CallRecord] /\ call'[c].pc = pc /\ call'[c].client = "open"
        /\ call'[c].in = call[c].in /\ call'[c].auth = call[c].auth /\ call'[c].login = call[c].login
        /\ \A x \in Callers \ {c} : call'[x] = call[x]
    BY <1>1, <1>2, <2>2 DEF SessionInv, Types, CallRecord, Pcs
  <2>4. \A x \in Callers : x # "none" BY DEF Callers, Connectors
  <2>5. Types' BY <1>1, <2>1, <2>3 DEF SessionInv, Types
  <2>6. Beside(c) BY <1>1, <2>1, <2>3, <2>4, BesideLocal
  <2>7. OneSession(call[c].auth)' /\ OneSession(creds)'
    BY <1>1, <1>2, <2>3 DEF SessionInv, Sessions, Fits, OneSession
  <2>8. Fits(c, call[c])' BY <1>1, <1>2, <2>1, <2>3, <2>7 DEF Fits, Holds, LoginOpen, LoginOnly
  <2>9. Patching' BY <1>1, <2>3, PatchStays
  <2> QED BY <1>1, <1>4, <2>5, <2>6, <2>7, <2>8, <2>9, AnyStep
<1> QED BY <1>3, <1>4

\* A step of the sync inside the lock.
LEMMA SyncStep ==
    ASSUME SessionInv, NEW c \in Callers, Holds(call[c]), call[c].pc \in {"invite_safe_sync", "patched_sync", "post"},
           NEW pc \in {"post", "failed", "patched_sync", "publish"}, Go(c, pc),
           UNCHANGED <<config, creds, store, srv, made, current, lock, joined>>,
           patched' \in BOOLEAN, Patching', mapping' \in [Rooms -> {"alias", "id"}]
    PROVE  SessionInv'
<1>1. call[c] \in CallRecord /\ Fits(c, call[c]) /\ current # c BY Running DEF Later
<1>2. pc \in Pcs /\ Fits(c, Reached(call[c], pc)) BY <1>1, ReachedFits DEF Pcs
<1>3. /\ call' \in [Callers -> CallRecord] /\ call'[c] = Reached(call[c], pc)
      /\ \A x \in Callers \ {c} : call'[x] = call[x]
  BY <1>2, GoFields DEF SessionInv
<1>4. Types' BY <1>3 DEF SessionInv, Types
<1>5. Beside(c) BY <1>3, BesideLocal
<1>6. Fits(c, call[c])' /\ OneSession(creds)' BY <1>2, <1>3 DEF Fits, OneSession, SessionInv, Sessions
<1>7. (lock # "none" => current = "none")' BY DEF SessionInv, Calls
<1> QED BY <1>4, <1>5, <1>6, <1>7, AnyStep

\* The fallbacks of the initial sync: nio is patched for one try.
LEMMA InvSyncFallbacks ==
    ASSUME SessionInv, NEW c \in Connectors, InviteSafeSync(c) \/ PatchedSync(c)
    PROVE  SessionInv'
<1>1. c \in Callers /\ UNCHANGED <<config, creds, store, srv, made, current, lock, mapping, joined>>
  BY DEF Callers, InviteSafeSync, PatchedSync, disk, server, rooms
<1>2. patched \in BOOLEAN /\ mapping' \in [Rooms -> {"alias", "id"}]
  BY <1>1 DEF SessionInv, Types
<1>3. CASE InviteSafeSync(c)
  <2>1. call[c].pc = "invite_safe_sync" BY <1>3 DEF InviteSafeSync, At
  <2>2. PICK pc \in {"post", "failed", "patched_sync"} :
           /\ Go(c, pc)
           /\ IF pc = "patched_sync" THEN patched' = TRUE ELSE patched' = patched
    BY <1>3 DEF InviteSafeSync
  <2>3. pc \in Pcs /\ call[c] \in CallRecord BY <1>1, <2>1, Running DEF Pcs, Later
  <2>4. call'[c].pc = pc /\ \A x \in Callers \ {c} : call'[x] = call[x]
    BY <1>1, <2>2, <2>3, GoFields, ReachedFields DEF SessionInv
  <2>5. Patching'
    <3>1. CASE pc = "patched_sync" BY <2>4, <3>1 DEF Patching, At
    <3>2. CASE pc # "patched_sync" BY <1>1, <2>1, <2>2, <2>4, <3>2, PatchStays
    <3> QED BY <3>1, <3>2
  <2>6. Holds(call[c]) BY <2>1 DEF Holds
  <2> QED BY <1>1, <1>2, <2>1, <2>2, <2>5, <2>6, SyncStep
<1>4. CASE PatchedSync(c)
  <2>1. call[c].pc = "patched_sync" /\ patched' = FALSE BY <1>4 DEF PatchedSync, At
  <2>2. PICK pc \in {"post", "failed"} : Go(c, pc) BY <1>4 DEF PatchedSync
  <2>3. Patching' BY <2>1 DEF Patching
  <2>4. Holds(call[c]) BY <2>1 DEF Holds
  <2> QED BY <1>1, <1>2, <2>1, <2>2, <2>3, <2>4, SyncStep
<1> QED BY <1>3, <1>4

\* _post_sync_setup(): aliases become ids, never the other way.
LEMMA InvPostSync ==
    ASSUME SessionInv, NEW c \in Callers, PostSync(c)
    PROVE  SessionInv'
<1>1. /\ call[c].pc = "post" /\ UNCHANGED <<config, creds, store, srv, made, current, lock, joined>>
      /\ patched' = patched
  BY DEF PostSync, At, disk, server, process
<1>2. PICK pc \in {"failed", "publish"} : Go(c, pc) BY DEF PostSync
<1>3. mapping' = mapping \/ mapping' \in ResolvedAliases BY DEF PostSync
<1>4. mapping' \in [Rooms -> {"alias", "id"}]
  BY <1>1, <1>3 DEF SessionInv, Types, ResolvedAliases
<1>5. call[c] \in CallRecord /\ pc \in Pcs BY <1>1, Running DEF Pcs, Later
<1>6. \A x \in Callers \ {c} : call'[x] = call[x] BY <1>2, <1>5, GoFields DEF SessionInv
<1>7. Patching' BY <1>1, <1>6, PatchStays
<1>8. Holds(call[c]) /\ patched' \in BOOLEAN BY <1>1 DEF Holds, SessionInv, Types
<1> QED BY <1>1, <1>2, <1>4, <1>7, <1>8, SyncStep

\* The lock is given back, with the client published or closed as well as it went.
LEMMA Released ==
    ASSUME SessionInv, NEW c \in Connectors, call[c].pc \in {"publish", "failed"},
           call' \in [Callers -> CallRecord], \A x \in Callers \ {c} : call'[x] = call[x],
           call'[c].pc \in {"done", "raised"}, call'[c].login = call[c].login, call'[c].auth = Torn,
           lock' = "none", current' \in {"none", c}, call'[c].client = "open" <=> current' = c,
           UNCHANGED <<config, creds, store, srv, made, patched, mapping, joined>>
    PROVE  SessionInv'
<1>1. c \in Callers /\ \A x \in Callers : x # "none" BY DEF Callers, Connectors
<1>2. call[c] \in CallRecord /\ Fits(c, call[c]) /\ current # c BY <1>1, Running DEF Later
<1>3. lock = c /\ current = "none" BY <1>1, <1>2 DEF Fits, Holds, SessionInv, Calls
<1>4. Types' BY DEF SessionInv, Types
<1>5. Beside(c) BY <1>1, <1>3, BesideLocal
<1>6. OneSession(creds)' /\ OneSession(call[c].auth)'
  BY IdleFields DEF SessionInv, Sessions, OneSession
<1>7. Fits(c, call[c])' BY <1>1, <1>2, <1>6 DEF Fits, Holds, LoginOpen, LoginOnly, Later
<1>8. Patching' BY <1>1, PatchStays
<1> QED BY <1>1, <1>4, <1>5, <1>6, <1>7, <1>8, AnyStep

\* The end of connect_matrix(), with a client or without.
LEMMA InvConnectEnds ==
    ASSUME SessionInv, NEW c \in Connectors, Publish(c) \/ CloseFailed(c)
    PROVE  SessionInv'
<1>1. /\ c \in Callers /\ call[c].pc \in {"publish", "failed"} /\ lock' = "none"
      /\ UNCHANGED <<config, creds, store, srv, made, patched, mapping, joined>>
  BY DEF Callers, Publish, CloseFailed, At, disk, server, rooms
<1>2. call[c] \in CallRecord /\ Fits(c, call[c]) /\ current # c BY <1>1, Running DEF Later
<1>3. call[c].client = "open" /\ current = "none" BY <1>1, <1>2 DEF Fits, Holds, SessionInv, Calls, Connectors
<1>5. CASE Publish(c)
  <2> DEFINE d == Reached(call[c], "done")
  <2>1. current' = c /\ call' = [call EXCEPT ![c] = d] BY <1>5 DEF Publish, Go
  <2>2. d \in CallRecord /\ d.pc = "done" /\ d.login = call[c].login /\ d.auth = Torn /\ d.client = "open"
    BY <1>2, <1>3, ReachedFields DEF Pcs, Ends
  <2> HIDE DEF d
  <2>3. call' \in [Callers -> CallRecord] /\ call'[c] = d /\ \A x \in Callers \ {c} : call'[x] = call[x]
    BY <1>1, <2>1, <2>2 DEF SessionInv, Types
  <2> QED BY <1>1, <2>1, <2>2, <2>3, Released
<1>6. CASE CloseFailed(c)
  <2>1. PICK left \in {"none", "broken"} :
           call' = [call EXCEPT ![c] = [Reached(call[c], "raised") EXCEPT !.client = left]]
    BY <1>6 DEF CloseFailed
  <2>2. current' = "none" BY <1>3, <1>6 DEF CloseFailed
  <2> DEFINE d == Reached(call[c], "raised")
             r == [d EXCEPT !.client = left]
  <2>3. d \in CallRecord /\ d.pc = "raised" /\ d.login = call[c].login /\ d.auth = Torn
    BY <1>2, ReachedFields DEF Pcs, Ends
  <2>4. call' = [call EXCEPT ![c] = r] BY <2>1
  <2> HIDE DEF d
  <2>5. r \in CallRecord /\ r.pc = "raised" /\ r.login = call[c].login /\ r.auth = Torn /\ r.client = left
    BY <2>3 DEF CallRecord
  <2> HIDE DEF r
  <2>6. call' \in [Callers -> CallRecord] /\ call'[c] = r /\ \A x \in Callers \ {c} : call'[x] = call[x]
    BY <1>1, <2>4, <2>5 DEF SessionInv, Types
  <2>7. current' # c /\ r.client # "open" BY <2>2, <2>5 DEF Connectors
  <2> QED BY <1>1, <2>2, <2>5, <2>6, <2>7, Released
<1> QED BY <1>5, <1>6

\* A caller is cancelled: what it holds is closed, what it was writing is written.
LEMMA InvCancel ==
    ASSUME SessionInv, NEW c \in Connectors, Cancel(c)
    PROVE  SessionInv'
<1>1. /\ c \in Callers
      /\ call[c].pc \notin {"idle", "done", "raised", "failed", "publish", "login_failed", "login_close"}
      /\ UNCHANGED <<config, store, srv, made, current, lock, mapping, joined>>
      /\ patched' = (patched /\ ~At(c, "patched_sync"))
      /\ creds' \in {call[c].auth, creds}
  BY DEF Cancel, Callers, server, rooms
<1>2. call[c] \in CallRecord /\ call[c].auth \in Auth /\ Fits(c, call[c])
  BY <1>1 DEF SessionInv, Types, Calls, CallRecord
<1>0. PICK left \in LoginLeft(call[c]) :
         call' = [call EXCEPT ![c] = [Reached(@, IF lock = c THEN "failed" ELSE "raised")
                                        EXCEPT !.login = left]]
  BY DEF Cancel
<1> DEFINE pc == IF lock = c THEN "failed" ELSE "raised"
           d == Reached(call[c], pc)
           r == [d EXCEPT !.login = left]
<1>3. left \in {"none", "left", "broken"} BY <1>0, <1>2 DEF LoginLeft, CallRecord
<1>4. call' = [call EXCEPT ![c] = r] BY <1>0
<1>5. pc \in Pcs /\ pc \in Ends BY DEF Pcs, Ends
<1>6. lock = c => pc = "failed" OBVIOUS
<1>7. lock # c => pc = "raised" OBVIOUS
<1> HIDE DEF pc
<1>8. d \in CallRecord /\ d.pc = pc /\ d.client = call[c].client /\ d.in = "connect" /\ d.auth = Torn
  BY <1>2, <1>5, ReachedFields
<1> HIDE DEF d
<1>9. /\ r \in CallRecord /\ r.pc = pc /\ r.client = call[c].client /\ r.in = "connect" /\ r.auth = Torn
      /\ r.login = left
  BY <1>3, <1>8 DEF CallRecord
<1> HIDE DEF r
<1>10. call' \in [Callers -> CallRecord] /\ call'[c] = r /\ \A x \in Callers \ {c} : call'[x] = call[x]
  BY <1>1, <1>4, <1>9 DEF SessionInv, Types
<1>11. Types' BY <1>1, <1>2, <1>10 DEF SessionInv, Types
<1>12. Beside(c) BY <1>1, <1>10, BesideLocal
<1>13. OneSession(creds)' /\ OneSession(call[c].auth)'
  BY <1>1, <1>2, <1>9, <1>10, IdleFields DEF SessionInv, Sessions, Fits, OneSession
<1>14. Fits(c, call[c])'
  <2>1. lock = c <=> Holds(r) BY <1>6, <1>7, <1>9 DEF Holds
  <2>2. Holds(r) => r.client = "open" BY <1>2, <1>9, <2>1 DEF Fits
  <2>3. r.client = "open" => Holds(r) \/ current = c BY <1>2, <1>9, <2>1 DEF Fits
  <2>4. current = c => r.pc \in Later /\ r.client = "open"
    BY <1>2, <1>7, <1>9 DEF Fits, Holds, Later
  <2> QED BY <1>1, <1>3, <1>6, <1>7, <1>9, <1>10, <1>13, <2>1, <2>2, <2>3, <2>4 DEF Fits, LoginOnly
<1>15. Patching'
  <2>1. CASE At(c, "patched_sync") BY <1>1, <2>1 DEF Patching
  <2>2. CASE ~At(c, "patched_sync") BY <1>1, <1>10, <2>2, PatchStays DEF At
  <2> QED BY <2>1, <2>2
<1>17. (lock # "none" => current = "none")' BY <1>1 DEF SessionInv, Calls
<1> QED BY <1>1, <1>11, <1>12, <1>13, <1>14, <1>15, <1>17, AnyStep

\* main() joins its rooms: its call keeps what it holds, which is nothing but the client.
LEMMA InvJoining ==
    ASSUME SessionInv, call["main"].pc \in {"done", "join", "joining"},
           NEW pc \in {"join", "joining", "joined"}, NEW todo \in SUBSET Rooms, NEW room \in SUBSET Rooms,
           call' = [call EXCEPT !["main"].pc = pc, !["main"].todo = todo, !["main"].room = room],
           mapping' \in [Rooms -> {"alias", "id"}], joined' \in SUBSET Rooms,
           UNCHANGED <<config, creds, store, srv, made, current, lock, patched>>
    PROVE  SessionInv'
<1>1. "main" \in Callers BY DEF Callers, Connectors
<1>2. call["main"] \in CallRecord /\ Fits("main", call["main"]) BY <1>1 DEF SessionInv, Types, Calls
<1> DEFINE r == [call["main"] EXCEPT !.pc = pc, !.todo = todo, !.room = room]
<1>3. /\ r \in CallRecord /\ r.pc = pc /\ r.in = call["main"].in /\ r.auth = call["main"].auth
      /\ r.client = call["main"].client /\ r.login = call["main"].login
  BY <1>2 DEF CallRecord, Pcs
<1>4. call' = [call EXCEPT !["main"] = r] BY <1>1, <1>2 DEF SessionInv, Types, CallRecord
<1> HIDE DEF r
<1>5. /\ call' \in [Callers -> CallRecord] /\ call'["main"] = r
      /\ \A x \in Callers \ {"main"} : call'[x] = call[x]
  <2>1. call \in [Callers -> CallRecord] BY DEF SessionInv, Types
  <2>2. \A f \in [Callers -> CallRecord], m \in Callers, k \in CallRecord : LET g == [f EXCEPT ![m] = k] IN
            g \in [Callers -> CallRecord] /\ g[m] = k /\ \A x \in Callers \ {m} : g[x] = f[x]
    BY UpdateFields
  <2>3. r \in CallRecord BY <1>3
  <2>4. LET g == [call EXCEPT !["main"] = r] IN
            g \in [Callers -> CallRecord] /\ g["main"] = r /\ \A x \in Callers \ {"main"} : g[x] = call[x]
    BY <1>1, <2>1, <2>2, <2>3
  <2> QED BY <1>4, <2>4
<1>6. Types' BY <1>5 DEF SessionInv, Types
<1>7. Beside("main") BY <1>1, <1>5, BesideLocal
<1>8. OneSession(creds)' /\ OneSession(call["main"].auth)'
  BY <1>2, <1>3, <1>5 DEF SessionInv, Sessions, Fits, OneSession
<1>9. Fits("main", call["main"])'
  BY <1>1, <1>2, <1>3, <1>5, <1>8 DEF Fits, Holds, LoginOpen, LoginOnly, Later
<1>10. Patching' BY <1>1, <1>5, PatchStays
<1>11. (lock # "none" => current = "none")' BY DEF SessionInv, Calls
<1> QED BY <1>1, <1>6, <1>7, <1>8, <1>9, <1>10, <1>11, AnyStep

\* join_matrix_room() for every room.
LEMMA InvJoinRooms ==
    ASSUME SessionInv, StartJoining \/ \E r \in Rooms : ResolveRoom(r) \/ JoinRoom(r)
    PROVE  SessionInv'
<1>1. "main" \in Callers /\ call["main"] \in CallRecord
  BY DEF Callers, Connectors, SessionInv, Types
<1>2. call \in [Callers -> CallRecord] BY DEF SessionInv, Types
<1>3. CASE StartJoining
  <2> DEFINE pc == IF Rooms = {} THEN "joined" ELSE "join"
  <2>1. pc \in {"join", "joined"} /\ call["main"].room \in SUBSET Rooms BY <1>1 DEF CallRecord
  <2>2. call' = [call EXCEPT !["main"].pc = pc, !["main"].todo = Rooms] BY <1>3 DEF StartJoining
  <2> HIDE DEF pc
  <2>3. call' = [call EXCEPT !["main"].pc = pc, !["main"].todo = Rooms, !["main"].room = call["main"].room]
    BY <1>1, <1>2, <2>2 DEF CallRecord
  <2>4. mapping' = mapping /\ joined' = joined BY <1>3 DEF StartJoining, rooms
  <2>5. mapping' \in [Rooms -> {"alias", "id"}] /\ joined' \in SUBSET Rooms
    BY <2>4 DEF SessionInv, Types
  <2>6. call["main"].pc = "done" /\ UNCHANGED <<config, creds, store, srv, made, current, lock, patched>>
    BY <1>3 DEF StartJoining, At, disk, server, process
  <2> QED BY <2>1, <2>3, <2>5, <2>6, InvJoining
<1>4. ASSUME NEW r \in Rooms, ResolveRoom(r) \/ JoinRoom(r) PROVE SessionInv'
  <2>1. /\ call["main"].pc \in {"join", "joining"}
        /\ UNCHANGED <<config, creds, store, srv, made, current, lock, patched>>
    BY <1>4 DEF ResolveRoom, JoinRoom, At, disk, server, process
  <2>2. /\ mapping' \in [Rooms -> {"alias", "id"}] /\ joined' \in SUBSET Rooms
    BY <1>4 DEF ResolveRoom, JoinRoom, UpdatedMapping, SessionInv, Types
  <2>3. CASE NextRoom(r)
    <3> DEFINE todo == call["main"].todo \ {r}
               pc == IF call["main"].todo = {r} THEN "joined" ELSE "join"
    <3>1. todo \in SUBSET Rooms /\ {} \in SUBSET Rooms /\ pc \in {"join", "joined"} BY <1>1 DEF CallRecord
    <3>2. call' = [call EXCEPT !["main"].pc = pc, !["main"].todo = todo, !["main"].room = {}]
      BY <1>1, <1>2, <2>3 DEF NextRoom, CallRecord
    <3> HIDE DEF todo, pc
    <3> QED BY <2>1, <2>2, <3>1, <3>2, InvJoining
  <2>4. CASE call' = [call EXCEPT !["main"].pc = "joining", !["main"].room = {r}]
    <3>1. call["main"].todo \in SUBSET Rooms /\ {r} \in SUBSET Rooms BY <1>1 DEF CallRecord
    <3>2. call' = [call EXCEPT !["main"].pc = "joining", !["main"].todo = call["main"].todo, !["main"].room = {r}]
      BY <1>1, <1>2, <2>4 DEF CallRecord
    <3> QED BY <2>1, <2>2, <3>1, <3>2, InvJoining
  <2> QED BY <1>4, <2>3, <2>4 DEF ResolveRoom, JoinRoom
<1> QED BY <1>3, <1>4

\* on_invite() joins a room, and another client of the account may set up an identity.
LEMMA InvOthers ==
    ASSUME SessionInv, ForeignIdentity \/ \E r \in Rooms : OnInvite(r)
    PROVE  SessionInv'
<1>1. UNCHANGED <<config, creds, store, call, current, lock, patched, mapping>>
  BY DEF ForeignIdentity, OnInvite, disk, process, rooms
<1>2. /\ srv' \in SrvRecord /\ srv'.session = srv.session /\ made' \in Nat
      /\ joined' \in SUBSET Rooms
  <2>1. CASE ForeignIdentity
    <3>1. srv \in SrvRecord /\ made' \in Nat /\ joined' = joined BY <2>1 DEF SessionInv, Types, ForeignIdentity, rooms
    <3>2. srv' = [srv EXCEPT !.identity = made', !.signed = {}] BY <2>1 DEF ForeignIdentity
    <3>3. srv' \in SrvRecord /\ srv'.session = srv.session BY <3>1, <3>2, SrvFields
    <3> QED BY <1>1, <3>1, <3>3 DEF SessionInv, Types
  <2>2. CASE \E r \in Rooms : OnInvite(r)
    BY <1>1, <2>2 DEF OnInvite, server, SessionInv, Types
  <2> QED BY <2>1, <2>2
<1>3. Len(srv.session) \in Nat BY DEF SessionInv, Types
<1>4. Types' BY <1>1, <1>2 DEF SessionInv, Types
<1>5. "main" \in Callers /\ Beside("main") BY <1>1, <1>2, <1>3 DEF Beside, Callers, Connectors
<1>6. Fits("main", call["main"])' /\ OneSession(creds)'
  BY <1>1, <1>2, <1>5 DEF SessionInv, Calls, Sessions, Fits, OneSession
<1>7. Patching' /\ (lock # "none" => current = "none")' BY <1>1 DEF SessionInv, Patching, Calls, At
<1> QED BY <1>2, <1>4, <1>5, <1>6, <1>7, AnyStep

\* The relay is killed: only another process still has a call.
LEMMA InvRestart ==
    ASSUME SessionInv, Restart
    PROVE  SessionInv'
<1>1. /\ UNCHANGED <<config, creds, store, srv, made>> /\ current' = "none" /\ lock' = "none" /\ patched' = FALSE
      /\ mapping' = [r \in Rooms |-> "alias"] /\ joined' = {}
  BY DEF Restart, disk, server
<1>2. /\ call' \in [Callers -> CallRecord] /\ call'["main"] = Idle /\ call'["relay"] = Idle
      /\ call'["cli"] = call["cli"]
  BY IdleFields DEF Restart, SessionInv, Types, Callers, Connectors
<1>3. Types' BY <1>1, <1>2 DEF SessionInv, Types
<1>4. ASSUME NEW c \in Connectors PROVE Fits(c, call[c])'
  <2>1. call'[c] = Idle /\ c # "none" BY <1>2 DEF Connectors
  <2> QED BY <1>1, <2>1, IdleFields DEF Fits, Holds, LoginOnly, OneSession
<1>5. Fits("cli", call["cli"])'
  <2>1. Fits("cli", call["cli"]) /\ lock # "cli" /\ current # "cli"
    BY DEF SessionInv, Calls, Types, Callers, Connectors
  <2> QED BY <1>1, <1>2, <2>1 DEF Fits, OneSession
<1>6. Calls' BY <1>1, <1>4, <1>5 DEF Calls, Callers
<1>7. Sessions' /\ Patching' BY <1>1 DEF SessionInv, Sessions, OneSession, Patching
<1> QED BY <1>3, <1>6, <1>7 DEF SessionInv

-----------------------------------------------------------------------------
\* At the start nobody calls, and the file names the one session there is, if any.
LEMMA InitSession == Init => SessionInv
<1> SUFFICES ASSUME Init PROVE SessionInv OBVIOUS
<1>1. /\ config \in Configs /\ call = [c \in Callers |-> Idle]
      /\ creds \in {Torn, [token |-> 1, device |-> 1, user |-> TRUE], [token |-> 1, device |-> None, user |-> FALSE]}
      /\ current = "none" /\ lock = "none" /\ patched = FALSE
      /\ mapping = [r \in Rooms |-> "alias"] /\ joined = {}
  BY DEF Init
<1>2. PICK id \in 0..1 : /\ srv = [session |-> <<1>>, identity |-> id, signed |-> {}]
                         /\ store \in {None, id} /\ made = id
  BY DEF Init
<1>3. srv \in SrvRecord /\ srv.session = <<1>> /\ Len(srv.session) = 1 /\ store \in Nat /\ made \in Nat
  BY <1>2 DEF None
<1>4. /\ creds \in Auth
      /\ creds.token # None => creds.token = 1 /\ (creds.device # None => creds.device = 1)
  <2>1. CASE creds = Torn BY <2>1, IdleFields
  <2>2. CASE creds = [token |-> 1, device |-> 1, user |-> TRUE] BY <2>2 DEF Auth
  <2>3. CASE creds = [token |-> 1, device |-> None, user |-> FALSE] BY <2>3 DEF Auth, None
  <2> QED BY <1>1, <2>1, <2>2, <2>3
<1>5. Types BY <1>1, <1>3, <1>4, IdleFields, SessionAssumption DEF Types
<1>6. OneSession(creds) /\ Sessions BY <1>3, <1>4 DEF OneSession, Sessions
<1>7. ASSUME NEW c \in Callers PROVE Fits(c, call[c])
  <2>1. call[c] = Idle /\ c # "none" BY <1>1 DEF Callers, Connectors
  <2> QED BY <1>1, <2>1, IdleFields DEF Fits, Holds, LoginOnly, OneSession
<1>8. Calls /\ Patching BY <1>1, <1>7 DEF Calls, Patching
<1> QED BY <1>5, <1>6, <1>8 DEF SessionInv

\* Every step keeps the invariant.
LEMMA SessionStep == SessionInv /\ [Next]_vars => SessionInv'
<1> SUFFICES ASSUME SessionInv, [Next]_vars PROVE SessionInv' OBVIOUS
<1>1. ASSUME NEW c \in Callers, Login(c) PROVE SessionInv'
  BY <1>1, InvReadDevice, InvSignIn, InvSignInFails, InvWhoamiAfterLogin, InvLoginEnds, InvSave, InvSaveFails,
     InvSigningSteps, InvPolicy, InvPublishesIdentity DEF Login
<1>2. ASSUME NEW c \in Connectors, ConnectMatrix(c) PROVE SessionInv'
  <2>1. c \in Callers BY DEF Callers
  <2> QED BY <1>2, <2>1, InvConnect, InvLoadCredentials, InvReloadCredentials, InvTakeLock, InvWhoami,
             InvInitialSync, InvSyncFallbacks, InvPostSync, InvConnectEnds DEF ConnectMatrix
<1>3. CASE UNCHANGED vars
  <2>1. UNCHANGED <<config, creds, store, srv, made, call, current, lock, patched, mapping, joined>>
    BY <1>3 DEF vars, disk, server, process, rooms
  <2> QED BY <2>1 DEF SessionInv, Types, Calls, Fits, OneSession, Sessions, Patching, At
<1> QED
  BY <1>1, <1>2, <1>3, InvCancel, InvAuthLogin, InvJoinRooms, InvOthers, InvRestart DEF Next

\* The inductive invariant: the lock, the clients and the credentials of every call.
THEOREM SessionsAreSound == Spec => []SessionInv
BY InitSession, SessionStep, PTL DEF Spec

\* sync_bootstrap.py:487-550, 202-231 and 1138-1147: a call that is over, however it ended,
\* holds neither the lock nor a client that it has not published or called close() on, but
\* for a login cancelled before it saved its credentials, and nio is unpatched again.
THEOREM FailuresLeaveNothing == Spec => []FailureLeavesNothing
<1>1. SessionInv => FailureLeavesNothing
  <2> SUFFICES ASSUME SessionInv PROVE FailureLeavesNothing OBVIOUS
  <2>1. ASSUME NEW c \in Callers, call[c].pc \in {"idle", "done", "raised"}
        PROVE  (call[c].client = "open" => current = c) /\ call[c].login # "open" /\ lock # c
    BY <2>1 DEF SessionInv, Calls, Fits, Holds, LoginOpen
  <2>2. current # "none" => call[current].client = "open" BY DEF SessionInv, Types, Calls, Fits, Callers
  <2> QED BY <2>1, <2>2 DEF FailureLeavesNothing, SessionInv, Patching
<1> QED BY <1>1, SessionsAreSound, PTL

\* auth.py:246-289 and sync_bootstrap.py:1020-1040: the credentials file never pairs the
\* token of one session with the device of another, however logins, restores and
\* cancelled callers interleave on it.
THEOREM CredentialsStayTogether == Spec => []CredentialsAreOneSession
<1>1. SessionInv => CredentialsAreOneSession
  BY DEF SessionInv, Sessions, OneSession, CredentialsAreOneSession, Usable
<1> QED BY <1>1, SessionsAreSound, PTL

-----------------------------------------------------------------------------
\* The step of IdentityKept.
KeepsIdentity ==
    \A c \in Callers :
       At(c, "bootstrap") /\ call'[c].pc # "bootstrap" /\ srv.identity # None /\ srv'.identity # srv.identity
       => call[c].reset \/ call[c].seen # srv.identity

\* Only a bootstrap changes the identity of the account and moves the call that does it.
LEMMA IdentityStep == SessionInv /\ [Next]_vars => KeepsIdentity
<1> SUFFICES ASSUME SessionInv, [Next]_vars, NEW c \in Callers, call[c].pc = "bootstrap", call'[c].pc # "bootstrap",
                    srv.identity # None, srv'.identity # srv.identity
             PROVE  call[c].reset \/ call[c].seen # srv.identity
  BY DEF KeepsIdentity, At
<1>1. call[c] \in CallRecord /\ Fits(c, call[c]) BY Running DEF Later
<1>2. ASSUME NEW x \in Callers, Login(x) PROVE SignDevice(x) \/ MakeIdentity(x)
  <2>1. ASSUME SignInFails(x) \/ SignIn(x) PROVE FALSE
    <3>1. srv' = srv \/ srv' = NewSession(x) BY <2>1 DEF SignInFails, SignIn
    <3> QED BY <3>1, NewSessionFields
  <2>2. ASSUME Repair(x) PROVE FALSE
    <3>1. srv \in SrvRecord /\ (srv' = srv \/ srv' = [srv EXCEPT !.signed = @ \union {call[x].auth.device}])
      BY <2>2 DEF Repair, SessionInv, Types
    <3> QED BY <3>1
  <2>3. srv' # srv OBVIOUS
  <2> QED
    BY <1>2, <2>1, <2>2, <2>3 DEF Login, ReadDevice, WhoamiAfterLogin, LoginEnds, OpenFile, WriteFile, SaveFails,
       StartSigning, Policy, SigningFails, Verify, server
<1>3. ASSUME NEW x \in Callers, SignDevice(x) \/ MakeIdentity(x) PROVE x = c
  <2>1. PICK pc \in Pcs : Go(x, pc)
    BY <1>3 DEF SignDevice, MakeIdentity, AfterSigning, Pcs
  <2> QED BY <2>1, GoFields DEF SessionInv
<1>4. CASE SignDevice(c)
  <2>1. srv \in SrvRecord /\ store \in Nat /\ store # None BY <1>4 DEF SessionInv, Types, SignDevice
  <2>2. PICK S : srv' = [srv EXCEPT !.identity = store, !.signed = S] /\ srv.identity = store
    BY <1>4 DEF SignDevice
  <2> QED BY <2>1, <2>2
<1>5. CASE MakeIdentity(c) BY <1>1, <1>5 DEF MakeIdentity, Fits
<1>6. ASSUME NEW x \in Connectors, ConnectMatrix(x) \/ Cancel(x) PROVE FALSE
  BY <1>6 DEF ConnectMatrix, Connect, LoadCredentials, ReloadCredentials, TakeLock, Whoami, InitialSync,
     InviteSafeSync, PatchedSync, PostSync, Publish, CloseFailed, Cancel, server
<1>7. ASSUME AuthLogin \/ ForeignIdentity \/ StartJoining \/ Restart \/ UNCHANGED vars PROVE FALSE
  BY <1>7 DEF AuthLogin, ForeignIdentity, StartJoining, Restart, vars, server
<1>8. ASSUME NEW r \in Rooms, ResolveRoom(r) \/ JoinRoom(r) \/ OnInvite(r) PROVE FALSE
  BY <1>8 DEF ResolveRoom, JoinRoom, OnInvite, server
<1> QED BY <1>2, <1>3, <1>4, <1>5, <1>6, <1>7, <1>8 DEF Next

\* e2ee_identity.py:414-464: no login and no startup replaces a cross-signing identity of
\* the account that its reset policy saw, unless a reset was asked for.
THEOREM IdentitySafe == Spec => IdentityKept
<1>1. SessionInv /\ [Next]_vars => [KeepsIdentity]_vars BY IdentityStep
<1>2. IdentityKept <=> [][KeepsIdentity]_vars BY PTL DEF IdentityKept, KeepsIdentity
<1> QED BY <1>1, <1>2, SessionsAreSound, PTL DEF Spec
=============================================================================
