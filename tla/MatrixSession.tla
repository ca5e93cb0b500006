---------------------------- MODULE MatrixSession ----------------------------
(***************************************************************************)
(* How the relay gets its Matrix client: connect_matrix() with the         *)
(* credentials it loads or creates by logging in, the cross-signing of its *)
(* device, the initial sync with its fallbacks, and the rooms it joins.    *)
(*                                                                         *)
(* main() calls connect_matrix(), and so does everything that has to send  *)
(* a Matrix message while main() is still at it; the calls share one event *)
(* loop, and an action here runs from one await to the next.  A login may  *)
(* also come from "mmrelay auth login", another process with the same      *)
(* credentials file and the same cross-signing sidecar.  The process of    *)
(* the relay may be killed and started again, and a caller cancelled.      *)
(*                                                                         *)
(* A session is named by its access token, a number; the homeserver, nio   *)
(* and the other clients of the account are external.                      *)
(***************************************************************************)
EXTENDS Naturals, Sequences, FiniteSets

CONSTANTS
    Rooms,        \* rooms of matrix_rooms, configured by their alias
    Configs,      \* what config.yaml offers: access token, password, encryption
    MaxTokens,    \* bound: sessions on the homeserver
    MaxForeign,   \* bound: identities made by other clients of the account
    MaxRestarts   \* bound: the relay is killed and started again

ASSUME SessionAssumption ==
    /\ Configs \subseteq [token : BOOLEAN, password : BOOLEAN, e2ee : BOOLEAN]
    /\ MaxTokens \in Nat \ {0} /\ MaxForeign \in Nat /\ MaxRestarts \in Nat

None == 0
Torn == [token |-> None, device |-> None, user |-> FALSE]  \* no file, or not a JSON object
Connectors == {"main", "relay"}
Callers == Connectors \union {"cli"}

VARIABLES
    config,    \* config.yaml
    creds,     \* credentials.json
    store,     \* the cross-signing identity in the sidecar of the E2EE store
    srv,       \* the homeserver: device of each session, identity, signed devices
    made,      \* identities made by the relay and by others
    call,      \* the calls of connect_matrix() and login_matrix_bot()
    current,   \* matrix_client, by the caller that connected it
    lock,      \* _MATRIX_STARTUP_SYNC_LOCK
    patched,   \* nio's SyncResponse._get_invite_state is replaced
    mapping,   \* matrix_rooms: "alias" or "id" for each room
    joined,    \* rooms the bot has joined in this life of the process
    restarts   \* times the relay was killed

disk == <<config, creds, store>>
server == <<srv, made>>
process == <<current, lock, patched>>
rooms == <<mapping, joined>>
vars == <<disk, server, call, process, rooms, restarts>>

\* auth is the MatrixAuthInfo of a call, old the device that its login found on file, seen
\* the identity its reset policy saw.  client and login are its AsyncClients: "open",
\* "broken" when close() was called and raised or was cancelled, "left" when nobody called
\* it, and "none" without one.  A call is "done" with a client or "raised" without: it
\* ended with an exception or with None.
Idle == [pc |-> "idle", in |-> "connect", auth |-> Torn, file |-> FALSE, e2ee |-> FALSE,
         old |-> None, reset |-> FALSE, seen |-> None, client |-> "none", login |-> "none",
         todo |-> {}, room |-> {}]

TypeOK ==
    /\ creds.token \in 0..MaxTokens /\ creds.device \in 0..MaxTokens
    /\ Len(srv.session) \in 1..MaxTokens
    /\ \A c \in Callers : /\ call[c].client \in {"none", "open", "broken"}
                          /\ call[c].login \in {"none", "open", "left", "broken"}
    /\ current \in {"none"} \union Connectors /\ lock \in {"none"} \union Connectors
    /\ patched \in BOOLEAN
    /\ mapping \in [Rooms -> {"alias", "id"}] /\ joined \in SUBSET Rooms

\* The account has one session already, which the configuration or the file may name;
\* a file written by hand may lack the device or the user.  The account may have an
\* identity, the sidecar may have been lost.
Init ==
    /\ config \in Configs
    /\ creds \in {Torn, [token |-> 1, device |-> 1, user |-> TRUE],
                  [token |-> 1, device |-> None, user |-> FALSE]}
    /\ \E id \in 0..1 : /\ srv = [session |-> <<1>>, identity |-> id, signed |-> {}]
                        /\ store \in {None, id} /\ made = id
    /\ call = [c \in Callers |-> Idle]
    /\ current = "none" /\ lock = "none" /\ patched = FALSE
    /\ mapping = [r \in Rooms |-> "alias"] /\ joined = {}
    /\ restarts = 0

At(c, pc) == call[c].pc = pc

\* A call that goes on to pc, without the values it will not use again.
Reached(k, pc) ==
    CASE pc \in {"done", "raised", "sync", "post", "invite_safe_sync", "patched_sync",
                 "publish", "failed"} ->
            [Idle EXCEPT !.pc = pc, !.client = k.client, !.login = k.login]
      [] pc \in {"login_failed", "login_close", "reload"} ->
            [Idle EXCEPT !.pc = pc, !.in = k.in, !.login = k.login]
      [] pc \in {"policy", "verify", "repair"} ->
            [Idle EXCEPT !.pc = pc, !.in = k.in, !.reset = k.reset, !.client = k.client,
                         !.login = k.login, !.auth = [Torn EXCEPT !.device = k.auth.device]]
      [] OTHER -> [k EXCEPT !.pc = pc]

Go(c, pc) == call' = [call EXCEPT ![c] = Reached(@, pc)]

-----------------------------------------------------------------------------
(* Credentials *)

\* load_credentials() and _missing_credentials_keys(): a file without its required
\* keys counts as none.
Usable(file) == file.token # None

\* _configure_e2ee(): encryption is left off when its store cannot be used.
ConfigureE2EE == {config.e2ee, FALSE}

\* What is known of the session goes to the client; connect_matrix() waits for its lock.
Resolved(c, auth, file) ==
    \E on \in ConfigureE2EE :
       call' = [call EXCEPT ![c] = [Idle EXCEPT !.pc = "lock", !.auth = auth, !.file = file,
                                                !.e2ee = on, !.login = call[c].login]]

\* The access token of the configuration; bot_user_id may be missing.
ConfigAuth == [token : {1}, device : {None}, user : BOOLEAN]

\* _resolve_and_load_credentials(): the file, a login with the password of the
\* configuration, its access token, or nothing, in this order.
LoadCredentials(c) ==
    /\ At(c, "load")
    /\ \/ Usable(creds) /\ Resolved(c, creds, TRUE)
       \/ /\ ~Usable(creds) /\ config.password
          /\ call' = [call EXCEPT ![c].pc = "read", ![c].in = "login"]
       \/ /\ ~Usable(creds) /\ ~config.password /\ config.token
          /\ \E auth \in ConfigAuth : Resolved(c, auth, FALSE)
       \/ ~Usable(creds) /\ ~config.password /\ ~config.token /\ Go(c, "raised")
    /\ UNCHANGED <<disk, server, process, rooms, restarts>>

\* The credentials the login has saved, whoever saved them last.
ReloadCredentials(c) ==
    /\ At(c, "reload")
    /\ IF Usable(creds) THEN Resolved(c, creds, TRUE) ELSE Go(c, "raised")
    /\ UNCHANGED <<disk, server, process, rooms, restarts>>

\* A mutant: what was found out is merged into the file as it is now.
OpenFileMerging(c) ==
    /\ At(c, "save")
    /\ creds' = Torn
    /\ call' = [call EXCEPT ![c].pc = "write",
                  ![c].auth.token = IF Usable(creds) THEN creds.token ELSE @]
    /\ UNCHANGED <<config, store, server, process, rooms, restarts>>

\* save_credentials(): open() truncates the file ...
OpenFile(c) ==
    /\ At(c, "save")
    /\ creds' = Torn /\ Go(c, "write")
    /\ UNCHANGED <<config, store, server, process, rooms, restarts>>

\* connect_matrix() ends without a user.
CheckUser(c) == IF call[c].auth.user THEN "signing" ELSE "failed"

\* ... and json.dump() fills it.
WriteFile(c) ==
    /\ At(c, "write")
    /\ creds' = call[c].auth /\ Go(c, "signing")
    /\ UNCHANGED <<config, store, server, process, rooms, restarts>>

\* The file cannot be opened or written.  A login ends with that, connect_matrix()
\* goes on with what it has found out.
SaveFails(c) ==
    /\ call[c].pc \in {"save", "write"}
    /\ Go(c, IF call[c].in = "login" THEN "login_failed" ELSE "signing")
    /\ UNCHANGED <<disk, server, process, rooms, restarts>>

-----------------------------------------------------------------------------
(* login_matrix_bot() *)

\* mmrelay auth login, with or without --reset-cross-signing
AuthLogin ==
    /\ At("cli", "idle")
    /\ \E reset \in BOOLEAN :
          call' = [call EXCEPT !["cli"].pc = "read", !["cli"].in = "login",
                               !["cli"].reset = reset]
    /\ UNCHANGED <<disk, server, process, rooms, restarts>>

\* After the discovery, whose client is closed on every path, the file is read for the
\* device to log in with, if it is of this user; encryption may be off or not possible,
\* and then there is no reset.
ReadDevice(c) ==
    /\ At(c, "read")
    /\ \E on \in {config.e2ee, FALSE} :
          IF call[c].reset /\ ~on THEN Go(c, "raised")
          ELSE call' = [call EXCEPT ![c].pc = "signin", ![c].login = "open", ![c].e2ee = on,
                                    ![c].old = IF creds.user THEN creds.device ELSE None]
    /\ UNCHANGED <<disk, server, process, rooms, restarts>>

\* The homeserver opens a session for the device asked for, or for a new one.
NewSession(c) ==
    LET known == {srv.session[i] : i \in DOMAIN srv.session}
        device == IF call[c].old # None THEN call[c].old ELSE Cardinality(known) + 1
    IN  [srv EXCEPT !.session = Append(@, device)]

SignIn(c) ==
    /\ At(c, "signin") /\ Len(srv.session) < MaxTokens
    /\ srv' = NewSession(c)
    /\ call' = [call EXCEPT ![c].pc = "whoami_login", ![c].old = None,
                  ![c].auth = [token |-> Len(srv'.session), user |-> TRUE,
                               device |-> srv'.session[Len(srv'.session)]]]
    /\ UNCHANGED <<disk, made, process, rooms, restarts>>

\* Refused, an error, or a timeout after which the session may exist all the same.
SignInFails(c) ==
    /\ At(c, "signin") /\ Go(c, "login_failed")
    /\ srv' \in {srv} \union (IF Len(srv.session) < MaxTokens THEN {NewSession(c)} ELSE {})
    /\ UNCHANGED <<disk, made, process, rooms, restarts>>

\* whoami() confirms the user or not; the path of the file may not resolve.
WhoamiAfterLogin(c) ==
    /\ At(c, "whoami_login")
    /\ \/ \E user \in BOOLEAN : call' = [call EXCEPT ![c].pc = "save", ![c].auth.user = user]
       \/ Go(c, "login_failed")
    /\ UNCHANGED <<disk, server, process, rooms, restarts>>

LoginReturns(c, ok, left) ==
    LET next == IF ~ok THEN "raised" ELSE IF c = "cli" THEN "done" ELSE "reload"
    IN  call' = [call EXCEPT ![c] = [Idle EXCEPT !.pc = next, !.login = left]]

\* Every way out of the login awaits client.close().  When that raises, the handler at
\* the end of the login may get the client closed at the second try, but the login has
\* failed; what is not an error it expects, and a cancellation there, go to the caller.
LoginEnds(c) ==
    /\ \/ At(c, "login_close") /\ LoginReturns(c, TRUE, "none")
       \/ /\ call[c].pc \in {"login_failed", "login_close"}
          /\ \E left \in {"none", "broken"} : LoginReturns(c, FALSE, left)
    /\ UNCHANGED <<disk, server, process, rooms, restarts>>

-----------------------------------------------------------------------------
(* Cross-signing: _ensure_own_device_cross_signed() *)

AfterSigning(c) == IF call[c].in = "login" THEN "login_close" ELSE "sync"
HasPassword(c) == call[c].in = "login"

\* _inspect_cross_signing_provider(): nio may not offer it.
Provider(c) == IF call[c].e2ee THEN {"policy", AfterSigning(c)} ELSE {AfterSigning(c)}

\* _maybe_upload_e2ee_keys()
StartSigning(c) ==
    /\ At(c, "signing")
    /\ \E next \in Provider(c) : Go(c, next)
    /\ UNCHANGED <<disk, server, process, rooms, restarts>>

\* _server_has_own_cross_signing_identity()
ServerHasIdentity == srv.identity # None

\* A mutant: without an identity of its own the relay makes one, whatever the account has.
PolicyTrusting(c) ==
    /\ At(c, "policy")
    /\ call' = [call EXCEPT ![c].pc = "bootstrap", ![c].seen = srv.identity]
    /\ UNCHANGED <<disk, server, process, rooms, restarts>>

\* _resolve_cross_signing_reset_policy(): without a local identity the one of the
\* account is left alone unless a reset was asked for; when the homeserver cannot be
\* asked, nothing is done.
Policy(c) ==
    /\ At(c, "policy")
    /\ \/ /\ store # None \/ ~ServerHasIdentity \/ (call[c].reset /\ HasPassword(c))
          /\ call' = [call EXCEPT ![c].pc = "bootstrap", ![c].seen = srv.identity]
       \/ store = None /\ Go(c, AfterSigning(c))
    /\ UNCHANGED <<disk, server, process, rooms, restarts>>

\* ensure_cross_signing() of nio: it signs the device with the local identity, uploading
\* that if the account has none.  A local identity the account does not know is not
\* put in place of another one, and the homeserver may not show the signature: the
\* check afterwards finds both.
SignDevice(c) ==
    /\ At(c, "bootstrap") /\ call[c].auth.device # None /\ store # None
    /\ srv' \in IF srv.identity \in {store, None}
                THEN {[srv EXCEPT !.identity = store, !.signed = S] :
                         S \in {srv.signed, srv.signed \union {call[c].auth.device}}}
                ELSE {srv}
    /\ Go(c, "verify")
    /\ UNCHANGED <<disk, made, process, rooms, restarts>>

\* A new identity: replacing another one takes the password.  The call may be cut off by
\* its timeout between the upload and the sidecar.
MakeIdentity(c) ==
    /\ At(c, "bootstrap") /\ call[c].auth.device # None /\ store = None
    /\ srv.identity # None => HasPassword(c)
    /\ made' = made + 1
    /\ srv' = [srv EXCEPT !.identity = made', !.signed = {call[c].auth.device}]
    /\ \/ store' = made' /\ Go(c, "verify")
       \/ UNCHANGED store /\ Go(c, AfterSigning(c))
    /\ UNCHANGED <<config, creds, process, rooms, restarts>>

\* It raises, or the time for all of this is up.
SigningFails(c) ==
    /\ call[c].pc \in {"bootstrap", "verify", "repair"}
    /\ Go(c, AfterSigning(c))
    /\ UNCHANGED <<disk, server, process, rooms, restarts>>

\* _server_own_device_cross_signing_status(): what the homeserver shows of the identity
\* and of the device; only a missing signature can be repaired.
Repairable(c) == srv.identity = store /\ call[c].auth.device \notin srv.signed

\* _confirm_server_visible_cross_signing()
Verify(c) ==
    /\ At(c, "verify")
    /\ Go(c, IF Repairable(c) THEN "repair" ELSE AfterSigning(c))
    /\ UNCHANGED <<disk, server, process, rooms, restarts>>

\* _republish_own_device_signature()
Repair(c) ==
    /\ At(c, "repair") /\ Go(c, AfterSigning(c))
    /\ srv' = IF srv.identity = store
              THEN [srv EXCEPT !.signed = @ \union {call[c].auth.device}] ELSE srv
    /\ UNCHANGED <<disk, made, process, rooms, restarts>>

\* Another client of the account sets up cross-signing, or resets it.
ForeignIdentity ==
    /\ made < MaxForeign
    /\ made' = made + 1
    /\ srv' = [srv EXCEPT !.identity = made', !.signed = {}]
    /\ UNCHANGED <<disk, call, process, rooms, restarts>>

-----------------------------------------------------------------------------
(* connect_matrix() *)

Connect(c) ==
    /\ At(c, "idle")
    /\ Go(c, IF current # "none" THEN "done" ELSE "load")
    /\ UNCHANGED <<disk, server, process, rooms, restarts>>

\* _perform_matrix_login(): a complete file is used as it is, anything else asks the
\* homeserver who this session is.
RestoreLogin(k) ==
    IF k.auth.user /\ (k.file => k.auth.device # None) THEN "signing" ELSE "whoami"

\* A mutant: a client that came up while the call waited for the lock is not noticed.
TakeLockBlindly(c) ==
    /\ At(c, "lock") /\ lock = "none"
    /\ lock' = c
    /\ call' = [call EXCEPT ![c].pc = RestoreLogin(call[c]), ![c].client = "open"]
    /\ UNCHANGED <<disk, server, current, patched, rooms, restarts>>

\* The startup lock, the second look for a client, and _initialize_matrix_client().
TakeLock(c) ==
    /\ At(c, "lock") /\ lock = "none"
    /\ IF current # "none" THEN Go(c, "done") /\ UNCHANGED lock
       ELSE /\ lock' = c
            /\ call' = [call EXCEPT ![c].pc = RestoreLogin(call[c]), ![c].client = "open"]
    /\ UNCHANGED <<disk, server, current, patched, rooms, restarts>>

\* What whoami() says is taken over and, for a file, saved; an old homeserver does not
\* name the device.
Whoami(c) ==
    /\ At(c, "whoami")
    /\ \/ /\ call[c].file
          /\ \E device \in {call[c].auth.device, srv.session[call[c].auth.token]} :
                call' = [call EXCEPT ![c].auth.user = TRUE, ![c].auth.device = device,
                           ![c].pc = IF call[c].auth.user /\ device = call[c].auth.device
                                     THEN "signing" ELSE "save"]
       \/ ~call[c].file /\ call' = [call EXCEPT ![c].auth.user = TRUE, ![c].pc = "signing"]
       \/ Go(c, CheckUser(c))
    /\ UNCHANGED <<disk, server, process, rooms, restarts>>

\* _perform_initial_sync(): a timeout is tried again for ever, a response that fails
\* its schema is asked for again without invites, other errors end it.
InitialSync(c) ==
    /\ At(c, "sync")
    /\ \E next \in {"post", "invite_safe_sync", "failed"} : Go(c, next)
    /\ UNCHANGED <<disk, server, process, rooms, restarts>>

\* If that fails the same way, nio's parser of invites is replaced for one more try.
InviteSafeSync(c) ==
    /\ At(c, "invite_safe_sync")
    /\ \/ \E next \in {"post", "failed"} : Go(c, next) /\ UNCHANGED patched
       \/ Go(c, "patched_sync") /\ patched' = TRUE
    /\ UNCHANGED <<disk, server, current, lock, rooms, restarts>>

PatchedSync(c) ==
    /\ At(c, "patched_sync") /\ patched' = FALSE
    /\ \E next \in {"post", "failed"} : Go(c, next)
    /\ UNCHANGED <<disk, server, current, lock, rooms, restarts>>

\* _resolve_aliases_in_mapping(): aliases that resolve become ids.
ResolvedAliases ==
    {[r \in Rooms |-> IF r \in R THEN "id" ELSE mapping[r]] : R \in SUBSET Rooms}

\* _post_sync_setup(): a sync error ends the call.
PostSync(c) ==
    /\ At(c, "post")
    /\ \/ Go(c, "failed") /\ UNCHANGED mapping
       \/ Go(c, "publish") /\ mapping' \in ResolvedAliases
    /\ UNCHANGED <<disk, server, process, joined, restarts>>

\* The globals are set and the lock is released.
Publish(c) ==
    /\ At(c, "publish") /\ Go(c, "done")
    /\ current' = c /\ lock' = "none"
    /\ UNCHANGED <<disk, server, patched, rooms, restarts>>

\* _close_matrix_client_after_failure(), and the exception or the None.  The close may
\* raise, which is ignored or goes on, or be cancelled.
CloseFailed(c) ==
    /\ At(c, "failed")
    /\ \E left \in {"none", "broken"} :
          call' = [call EXCEPT ![c] = [Reached(@, "raised") EXCEPT !.client = left]]
    /\ lock' = "none" /\ current' = IF current = c THEN "none" ELSE current
    /\ UNCHANGED <<disk, server, patched, rooms, restarts>>

\* What a cancelled login makes of its client: one that has saved its credentials closes
\* it, which may fail or be cancelled too; one that is cancelled earlier leaves it.
LoginLeft(k) ==
    CASE k.login # "open" -> {k.login}
      [] k.pc \in {"signing", "policy", "bootstrap", "verify", "repair"} -> {"none", "broken"}
      [] OTHER -> {"left"}

\* The task of a caller is cancelled where it waits.  The thread that is writing the file
\* goes on and fills it (here: at once).  Where it waits for close() it ends like a close
\* that raises: LoginEnds, CloseFailed.
Cancel(c) ==
    /\ c \in Connectors
    /\ call[c].pc \notin {"idle", "done", "raised", "joined", "publish", "failed", "login_failed",
                          "login_close"}
    /\ \E left \in LoginLeft(call[c]) :
          call' = [call EXCEPT ![c] = [Reached(@, IF lock = c THEN "failed" ELSE "raised")
                                         EXCEPT !.login = left]]
    /\ patched' = (patched /\ ~At(c, "patched_sync"))
    /\ creds' = IF call[c].pc \in {"save", "write"} THEN call[c].auth ELSE creds
    /\ UNCHANGED <<config, store, server, current, lock, rooms, restarts>>

-----------------------------------------------------------------------------
(* Rooms *)

\* main() has a client, its own or the one another call has connected, and joins.
StartJoining ==
    /\ At("main", "done")
    /\ call' = [call EXCEPT !["main"].pc = IF Rooms = {} THEN "joined" ELSE "join",
                            !["main"].todo = Rooms]
    /\ UNCHANGED <<disk, server, process, rooms, restarts>>

NextRoom(r) ==
    call' = [call EXCEPT !["main"].todo = @ \ {r}, !["main"].room = {},
                         !["main"].pc = IF call["main"].todo = {r} THEN "joined" ELSE "join"]

\* _update_room_id_in_mapping(); an error in it, or a mapping without the alias, is not
\* taken seriously.
UpdatedMapping(r) == {mapping, [mapping EXCEPT ![r] = "id"]}

\* join_matrix_room(): an alias is resolved first, and one that cannot be is given up,
ResolveRoom(r) ==
    /\ At("main", "join") /\ r \in call["main"].todo
    /\ \/ /\ mapping[r] = "alias" /\ NextRoom(r)
          /\ UNCHANGED mapping
       \/ /\ call' = [call EXCEPT !["main"].pc = "joining", !["main"].room = {r}]
          /\ mapping' \in UpdatedMapping(r)
    /\ UNCHANGED <<disk, server, process, joined, restarts>>

\* then the room is joined, or the homeserver refuses.
JoinRoom(r) ==
    /\ At("main", "joining") /\ r \in call["main"].room /\ NextRoom(r)
    /\ joined' \in {joined, joined \union {r}}
    /\ UNCHANGED <<disk, server, process, mapping, restarts>>

\* on_invite(): a room whose id or alias is configured is joined.  (A client that came
\* up without invites gets none; here it may.)
OnInvite(r) ==
    /\ At("main", "joined") /\ current # "none" /\ r \notin joined
    /\ joined' = joined \union {r}
    /\ UNCHANGED <<disk, server, call, process, mapping, restarts>>

-----------------------------------------------------------------------------
\* The relay is killed and started again.
Restart ==
    /\ restarts < MaxRestarts
    /\ restarts' = restarts + 1
    /\ call' = [call EXCEPT !["main"] = Idle, !["relay"] = Idle]
    /\ current' = "none" /\ lock' = "none" /\ patched' = FALSE
    /\ mapping' = [r \in Rooms |-> "alias"] /\ joined' = {}
    /\ UNCHANGED <<disk, server>>

Login(c) ==
    \/ ReadDevice(c) \/ SignIn(c) \/ SignInFails(c) \/ WhoamiAfterLogin(c) \/ LoginEnds(c)
    \/ OpenFile(c) \/ WriteFile(c) \/ SaveFails(c)
    \/ StartSigning(c) \/ Policy(c) \/ SignDevice(c) \/ MakeIdentity(c) \/ SigningFails(c)
    \/ Verify(c) \/ Repair(c)

ConnectMatrix(c) ==
    \/ Connect(c) \/ LoadCredentials(c) \/ ReloadCredentials(c) \/ TakeLock(c)
    \/ Whoami(c) \/ InitialSync(c) \/ InviteSafeSync(c)
    \/ PatchedSync(c) \/ PostSync(c) \/ Publish(c) \/ CloseFailed(c)

Next ==
    \/ \E c \in Callers : Login(c)
    \/ \E c \in Connectors : ConnectMatrix(c) \/ Cancel(c)
    \/ AuthLogin \/ ForeignIdentity \/ StartJoining
    \/ \E r \in Rooms : ResolveRoom(r) \/ JoinRoom(r) \/ OnInvite(r)
    \/ Restart

Spec == Init /\ [][Next]_vars

-----------------------------------------------------------------------------
(* Properties *)

\* sync_bootstrap.py:487-550, 202-231 and 1138-1147: whatever failed or was cancelled,
\* a call that is over has called close() on every client of its own but the one everybody
\* uses, that one is open, the lock is free again and nio is as it was.  Two exceptions:
\* a login cancelled before it has saved its credentials leaves its client, and what a
\* close() that raises or is cancelled itself leaves behind nobody closes again.
FailureLeavesNothing ==
    /\ \A c \in Callers : call[c].pc \in {"idle", "done", "raised"} =>
          /\ call[c].client = "open" => current = c
          /\ call[c].login # "open" /\ lock # c
    /\ current # "none" => call[current].client = "open"
    /\ patched => \E c \in Connectors : At(c, "patched_sync")

\* auth.py:246-289 and sync_bootstrap.py:1020-1040: the device in the credentials file
\* is the one its access token belongs to, although several calls and another process
\* read the file, ask the homeserver and write it at their own time.
CredentialsAreOneSession ==
    Usable(creds) /\ creds.device # None => srv.session[creds.token] = creds.device

\* e2ee_identity.py:414-464: a cross-signing identity of the account is replaced only
\* by a login that was asked to reset it, or when it appeared after the relay looked.
IdentityKept ==
    [][\A c \in Callers :
          At(c, "bootstrap") /\ call'[c].pc # "bootstrap" /\ srv.identity # None
             /\ srv'.identity # srv.identity
          => call[c].reset \/ call[c].seen # srv.identity]_vars
=============================================================================
