------------------------------- MODULE Login --------------------------------
(***************************************************************************)
(* From the start of the library to a client that is logged in, and the    *)
(* session the adapter keeps for the next start: init of lib.rs with the   *)
(* login flows (init/login.rs, init/oauth.rs), the restoration and the     *)
(* background save of tokens (init/session.rs), and the commands with      *)
(* which the user chooses a homeserver (commands.rs). Some of these tasks  *)
(* block a thread of the runtime instead of yielding it. The process may   *)
(* stop at any time and start again.                                       *)
(***************************************************************************)
EXTENDS Integers, Sequences

CONSTANTS
    Client,       \* the clients that are ever built, each with its own store
    Threads,      \* of the tokio runtime
    MaxCalls,     \* bound: commands that wait for a temporary client
    MaxToken,     \* bound: tokens a login is given
    MaxStarts,    \* bound: starts of the process
    None

ASSUME LoginAssumption ==
    /\ None \notin Client
    /\ None \notin [db : Client, user : Client, token : 0 .. MaxToken]
    /\ Threads \in Nat /\ MaxCalls \in Nat /\ MaxToken \in Nat
    /\ MaxStarts \in Nat \ {0}

VARIABLES
    starts,        \* the number of starts
    stored,        \* the session kept by the adapter
    issued,        \* per client, the last token its homeserver has issued
    held,          \* per client, the token its SDK holds, 0 without login
    build,         \* per client, how far the command that builds it is
    calls,         \* commands asleep until there is a temporary client
    ready,         \* LOGIN_STORE_READY
    temp_client,   \* TEMP_CLIENT
    temp_session,  \* TEMP_CLIENT_SESSION: the client it rebuilds
    global,        \* CLIENT
    monitor,       \* where the monitor task of init is
    client,        \* its client
    session,       \* the session it is to persist
    shown,         \* the login state the frontend has been given
    saver,         \* where the task that saves tokens is
    changes,       \* the session changes its receiver holds
    saving,        \* the session it is to persist
    toasts         \* what the user has been told

tempVars == <<build, temp_client, temp_session>>
monitorVars == <<monitor, client, session, shown>>
saverVars == <<saver, changes, saving>>
vars == <<starts, stored, issued, held, tempVars, calls, ready, global,
          monitorVars, saverVars, toasts>>

Token == 0 .. MaxToken

(* A FullMatrixSession: the store of one client, a user session of another *)
(* or the same, and its token. What is persisted for a wrong homeserver is *)
(* an empty string.                                                        *)
Empty == [db |-> None, user |-> None, token |-> 0]
Session == [db : Client, user : Client, token : Token] \cup {Empty}

TypeOK ==
    /\ starts \in 1 .. MaxStarts
    /\ stored \in Session \cup {None}
    /\ issued \in [Client -> Token]
    /\ held \in [Client -> Token]
    /\ build \in [Client -> {"unused", "building", "session", "client", "done"}]
    /\ calls \in 0 .. MaxCalls
    /\ ready \in BOOLEAN
    /\ temp_client \in Client \cup {None}
    /\ temp_session \in Client \cup {None}
    /\ global \in Client \cup {None}
    /\ monitor \in {"init", "storeWait", "clientWait", "asleep", "checking",
                    "oauth", "deeplink", "password", "loggedIn", "setClient",
                    "persisting", "user", "info", "readyWait", "monitoring", "dead"}
    /\ client \in Client \cup {None}
    /\ session \in Session \cup {None}
    /\ shown \in {"initiating", "restored", "awaitingForHomeserver", "loggedIn"}
    /\ saver \in {"spawned", "waiting", "subscribing", "listening", "saving"}
    /\ changes \in Seq({"TokensRefreshed", "UnknownToken"})
    /\ saving \in Session \cup {None}
    /\ toasts \subseteq {"restore", "url", "persist", "save", "token"}

Started ==
    /\ calls = 0
    /\ ready = FALSE
    /\ temp_client = None /\ temp_session = None /\ global = None
    /\ monitor = "init" /\ client = None /\ session = None /\ shown = "initiating"
    /\ saver = "spawned" /\ changes = <<>> /\ saving = None
    /\ toasts = {}

Init ==
    /\ starts = 1
    /\ stored = None
    /\ issued = [c \in Client |-> 0]
    /\ held = [c \in Client |-> 0]
    /\ build = [c \in Client |-> "unused"]
    /\ Started

----------------------------------------------------------------------------
(* The runtime. A OnceLock or a Condvar that is waited for in a task takes *)
(* the thread the task runs on; what yields needs a thread to go on.       *)

MonitorBlocks == monitor \in {"storeWait", "asleep", "readyWait"}

Blocked ==
    calls + (IF saver = "waiting" THEN 1 ELSE 0) + (IF MonitorBlocks THEN 1 ELSE 0)

FreeThread == Blocked < Threads

----------------------------------------------------------------------------
(* Commands of the frontend.                                               *)

(* build_temp_client_from_homeserver_url: build_client, ...                *)
Build(c) ==
    /\ build[c] = "unused"
    /\ FreeThread
    /\ build' = [build EXCEPT ![c] = "building"]
    /\ UNCHANGED <<starts, stored, issued, held, temp_client, temp_session, calls, ready,
                   global, monitorVars, saverVars, toasts>>

(* ... which may fail, ...                                                 *)
BuildFails(c) ==
    /\ build[c] = "building"
    /\ FreeThread
    /\ build' = [build EXCEPT ![c] = "done"]
    /\ UNCHANGED <<starts, stored, issued, held, temp_client, temp_session, calls, ready,
                   global, monitorVars, saverVars, toasts>>

(* Mutant: the session is stored when the client has been announced.       *)
SetTempSessionLast(c) ==
    /\ build[c] = "building"
    /\ FreeThread
    /\ build' = [build EXCEPT ![c] = "session"]
    /\ UNCHANGED <<starts, stored, issued, held, temp_client, temp_session, calls, ready,
                   global, monitorVars, saverVars, toasts>>

(* ... then the session under one lock, ...                                *)
SetTempSession(c) ==
    /\ build[c] = "building"
    /\ FreeThread
    /\ build' = [build EXCEPT ![c] = "session"]
    /\ temp_session' = c
    /\ UNCHANGED <<starts, stored, issued, held, temp_client, calls, ready, global,
                   monitorVars, saverVars, toasts>>

(* ... the client under another, ...                                       *)
SetTempClient(c) ==
    /\ build[c] = "session"
    /\ build' = [build EXCEPT ![c] = "client"]
    /\ temp_client' = c
    /\ UNCHANGED <<starts, stored, issued, held, temp_session, calls, ready, global,
                   monitorVars, saverVars, toasts>>

(* Mutant: only one of the waiters is woken.                               *)
NotifyOne(c) ==
    /\ build[c] = "client"
    /\ build' = [build EXCEPT ![c] = "done"]
    /\ calls' = IF calls > 0 THEN calls - 1 ELSE 0
    /\ monitor' = IF monitor = "asleep" /\ calls = 0 THEN "clientWait" ELSE monitor
    /\ UNCHANGED <<starts, stored, issued, held, temp_client, temp_session, ready, global,
                   client, session, shown, saverVars, toasts>>

(* ... and notify_all.                                                     *)
NotifyAll(c) ==
    /\ build[c] = "client"
    /\ build' = [build EXCEPT ![c] = "done"]
    /\ calls' = 0
    /\ monitor' = IF monitor = "asleep" THEN "clientWait" ELSE monitor
    /\ UNCHANGED <<starts, stored, issued, held, temp_client, temp_session, ready, global,
                   client, session, shown, saverVars, toasts>>

(* check_homeserver_auth_type before there is a client.                    *)
CheckAuthType ==
    /\ temp_client = None
    /\ calls < MaxCalls
    /\ FreeThread
    /\ calls' = calls + 1
    /\ UNCHANGED <<starts, stored, issued, held, tempVars, ready, global, monitorVars,
                   saverVars, toasts>>

(* The adapter sets LOGIN_STORE_READY, from a thread of its own.           *)
StoreIsReady ==
    /\ ~ready
    /\ ready' = TRUE
    /\ UNCHANGED <<starts, stored, issued, held, tempVars, calls, global, monitorVars,
                   saverVars, toasts>>

----------------------------------------------------------------------------
(* The monitor task of init.                                               *)

MonitorGoes(to) ==
    /\ FreeThread
    /\ monitor' = to
    /\ UNCHANGED <<starts, issued, tempVars, calls, ready, changes, saving>>

(* try_restore_session_to_state: without a session there is nothing to do. *)
NothingToRestore ==
    /\ monitor = "init"
    /\ stored = None
    /\ MonitorGoes("storeWait")
    /\ UNCHANGED <<stored, held, global, client, session, shown, saver, toasts>>

(* The client of the session is built and its user session restored; the   *)
(* SDK refuses a user session that is not of that store.                   *)
Restore ==
    /\ monitor = "init"
    /\ stored \notin {None, Empty}
    /\ stored.db = stored.user
    /\ MonitorGoes("user")
    /\ held' = [held EXCEPT ![stored.db] = stored.token]
    /\ client' = stored.db
    /\ global' = stored.db
    /\ shown' = "restored"
    /\ UNCHANGED <<stored, session, saver, toasts>>

(* The session cannot be read, or the client not be built.                 *)
RestoreFails ==
    /\ monitor = "init"
    /\ stored # None
    /\ MonitorGoes("storeWait")
    /\ toasts' = toasts \cup {"restore"}
    /\ UNCHANGED <<stored, held, global, client, session, shown, saver>>

(* LOGIN_STORE_READY.wait() has its thread already.                        *)
AwaitHomeserver ==
    /\ monitor = "storeWait"
    /\ ready
    /\ monitor' = "clientWait"
    /\ shown' = "awaitingForHomeserver"
    /\ UNCHANGED <<starts, stored, issued, held, tempVars, calls, ready, global, client,
                   session, saverVars, toasts>>

(* check_homeserver_auth_type: while there is none, wait for the Condvar.  *)
SleepForClient ==
    /\ monitor = "clientWait"
    /\ temp_client = None
    /\ monitor' = "asleep"
    /\ UNCHANGED <<starts, stored, issued, held, tempVars, calls, ready, global, client,
                   session, shown, saverVars, toasts>>

TakeClient ==
    /\ monitor = "clientWait"
    /\ temp_client # None
    /\ monitor' = "checking"
    /\ client' = temp_client
    /\ UNCHANGED <<starts, stored, issued, held, tempVars, calls, ready, global,
                   session, shown, saverVars, toasts>>

(* server_metadata answers; any other error is a panic.                    *)
AuthType ==
    /\ monitor = "checking"
    /\ \E to \in {"oauth", "password", "dead"} : MonitorGoes(to)
    /\ UNCHANGED <<stored, held, global, client, session, shown, saver, toasts>>

WrongUrl ==
    /\ monitor = "checking"
    /\ MonitorGoes("persisting")
    /\ session' = Empty
    /\ toasts' = toasts \cup {"url"}
    /\ UNCHANGED <<stored, held, global, client, shown, saver>>

(* register_and_login_oauth: the URL is sent to the frontend.              *)
SendOAuthUrl ==
    /\ monitor = "oauth"
    /\ \E to \in {"deeplink", "dead"} : MonitorGoes(to)
    /\ UNCHANGED <<stored, held, global, client, session, shown, saver, toasts>>

(* finish_login fails: the user may try again.                             *)
OAuthFails ==
    /\ monitor = "deeplink"
    /\ MonitorGoes("oauth")
    /\ UNCHANGED <<stored, held, global, client, session, shown, saver, toasts>>

(* login_username fails: the monitor expects it not to.                    *)
PasswordFails ==
    /\ monitor = "password"
    /\ MonitorGoes("dead")
    /\ UNCHANGED <<stored, held, global, client, session, shown, saver, toasts>>

LoginSucceeds ==
    /\ monitor \in {"deeplink", "password"}
    /\ FreeThread
    /\ issued[client] < MaxToken
    /\ monitor' = "loggedIn"
    /\ issued' = [issued EXCEPT ![client] = @ + 1]
    /\ held' = [held EXCEPT ![client] = issued'[client]]
    /\ UNCHANGED <<starts, stored, tempVars, calls, ready, global, client, session, shown,
                   saverVars, toasts>>

(* FullMatrixSession::new with the temporary session there is now, ...     *)
MakeSession ==
    /\ monitor = "loggedIn"
    /\ IF temp_session = None
       THEN monitor' = "dead" /\ UNCHANGED session
       ELSE /\ monitor' = "setClient"
            /\ session' = [db |-> temp_session, user |-> client, token |-> held[client]]
    /\ UNCHANGED <<starts, stored, issued, held, tempVars, calls, ready, global, client,
                   shown, saverVars, toasts>>

(* ... and CLIENT with the temporary client there is now.                  *)
SetClient ==
    /\ monitor = "setClient"
    /\ monitor' = "persisting"
    /\ global' = temp_client
    /\ UNCHANGED <<starts, stored, issued, held, tempVars, calls, ready, client, session,
                   shown, saverVars, toasts>>

(* persist_login_session.                                                  *)
Persist ==
    /\ monitor = "persisting"
    /\ MonitorGoes("user")
    /\ stored' = session
    /\ UNCHANGED <<held, global, client, session, shown, saver, toasts>>

(* Mutant: the user is not told.                                           *)
PersistFailsSilently ==
    /\ monitor = "persisting"
    /\ MonitorGoes("user")
    /\ UNCHANGED <<stored, held, global, client, session, shown, saver, toasts>>

PersistFails ==
    /\ monitor = "persisting"
    /\ MonitorGoes("user")
    /\ toasts' = toasts \cup {"persist"}
    /\ UNCHANGED <<stored, held, global, client, session, shown, saver>>

(* CURRENT_USER_ID: a client without user is a panic.                      *)
SetUser ==
    /\ monitor = "user"
    /\ MonitorGoes(IF held[client] > 0 THEN "info" ELSE "dead")
    /\ UNCHANGED <<stored, held, global, client, session, shown, saver, toasts>>

(* The user's information, LoggedIn, the subscriptions and the other tasks.*)
ShowLoggedIn ==
    /\ monitor = "info"
    /\ MonitorGoes("readyWait")
    /\ shown' = "loggedIn"
    /\ UNCHANGED <<stored, held, global, client, session, saver, toasts>>

Monitoring ==
    /\ monitor = "readyWait"
    /\ ready
    /\ monitor' = "monitoring"
    /\ UNCHANGED <<starts, stored, issued, held, tempVars, calls, ready, global, client,
                   session, shown, saverVars, toasts>>

MonitorNext ==
    \/ NothingToRestore \/ Restore \/ RestoreFails
    \/ AwaitHomeserver \/ SleepForClient \/ TakeClient
    \/ AuthType \/ WrongUrl
    \/ SendOAuthUrl \/ OAuthFails \/ PasswordFails \/ LoginSucceeds
    \/ MakeSession \/ SetClient
    \/ Persist \/ PersistFails
    \/ SetUser \/ ShowLoggedIn \/ Monitoring

----------------------------------------------------------------------------
(* The SDK of the client that is logged in.                                *)

(* A change of the session reaches the receiver there is, if there is one. *)
Changed(c, change) ==
    changes' = IF saver = "listening" /\ c = global THEN Append(changes, change) ELSE changes

(* handle_refresh_tokens: the token has expired and is exchanged.          *)
Refresh(c) ==
    /\ held[c] > 0
    /\ held[c] = issued[c]
    /\ issued[c] < MaxToken
    /\ issued' = [issued EXCEPT ![c] = @ + 1]
    /\ held' = [held EXCEPT ![c] = @ + 1]
    /\ Changed(c, "TokensRefreshed")
    /\ UNCHANGED <<starts, stored, tempVars, calls, ready, global, monitorVars, saver, saving,
                   toasts>>

(* A token that was exchanged before is refused.                           *)
Refused(c) ==
    /\ held[c] # issued[c]
    /\ held[c] > 0
    /\ "UnknownToken" \notin {changes[i] : i \in DOMAIN changes}
    /\ Changed(c, "UnknownToken")
    /\ UNCHANGED <<starts, stored, issued, held, tempVars, calls, ready, global, monitorVars,
                   saver, saving, toasts>>

----------------------------------------------------------------------------
(* setup_token_background_save.                                            *)

SaverGoes(to) ==
    /\ saver' = to
    /\ UNCHANGED <<starts, issued, held, tempVars, calls, ready, global, monitorVars>>

(* CLIENT.wait() blocks.                                                   *)
SaverStarts ==
    /\ saver = "spawned"
    /\ FreeThread
    /\ SaverGoes("waiting")
    /\ UNCHANGED <<stored, changes, saving, toasts>>

SaverHasClient ==
    /\ saver = "waiting"
    /\ global # None
    /\ SaverGoes("subscribing")
    /\ UNCHANGED <<stored, changes, saving, toasts>>

(* Each iteration of the loop subscribes anew.                             *)
SaverSubscribes ==
    /\ saver = "subscribing"
    /\ FreeThread
    /\ SaverGoes("listening")
    /\ changes' = <<>>
    /\ UNCHANGED <<stored, saving, toasts>>

(* update_stored_session reads the session of the client ...               *)
SaverHears ==
    /\ saver = "listening"
    /\ changes # <<>>
    /\ FreeThread
    /\ changes' = <<>>
    /\ IF Head(changes) = "TokensRefreshed"
       THEN /\ SaverGoes("saving")
            /\ saving' = [db |-> global, user |-> global, token |-> held[global]]
            /\ UNCHANGED toasts
       ELSE /\ SaverGoes("subscribing")
            /\ toasts' = toasts \cup {"token"}
            /\ UNCHANGED saving
    /\ UNCHANGED stored

(* ... and hands it to the adapter, which has the rest of the session.     *)
Save ==
    /\ saver = "saving"
    /\ FreeThread
    /\ stored \notin {None, Empty}
    /\ stored' = [stored EXCEPT !.user = saving.user, !.token = saving.token]
    /\ SaverGoes("subscribing")
    /\ saving' = None
    /\ UNCHANGED <<changes, toasts>>

(* Mutant: the error is only logged.                                       *)
SaveFailsSilently ==
    /\ saver = "saving"
    /\ FreeThread
    /\ SaverGoes("subscribing")
    /\ saving' = None
    /\ UNCHANGED <<stored, changes, toasts>>

SaveFails ==
    /\ saver = "saving"
    /\ FreeThread
    /\ toasts' = toasts \cup {"save"}
    /\ SaverGoes("subscribing")
    /\ saving' = None
    /\ UNCHANGED <<stored, changes>>

SaverNext ==
    SaverStarts \/ SaverHasClient \/ SaverSubscribes \/ SaverHears \/ Save \/ SaveFails

----------------------------------------------------------------------------

(* The process stops, and starts again with what the adapter has stored.   *)
Restart ==
    /\ starts < MaxStarts
    /\ starts' = starts + 1
    /\ held' = [c \in Client |-> 0]
    /\ build' = [c \in Client |-> IF build[c] = "unused" THEN "unused" ELSE "done"]
    /\ calls' = 0
    /\ ready' = FALSE
    /\ temp_client' = None /\ temp_session' = None /\ global' = None
    /\ monitor' = "init" /\ client' = None /\ session' = None /\ shown' = "initiating"
    /\ saver' = "spawned" /\ changes' = <<>> /\ saving' = None
    /\ toasts' = {}
    /\ UNCHANGED <<stored, issued>>

BuildNext(c) == SetTempSession(c) \/ SetTempClient(c) \/ NotifyAll(c)

Next ==
    \/ \E c \in Client : Build(c) \/ BuildFails(c) \/ BuildNext(c)
    \/ CheckAuthType \/ StoreIsReady
    \/ MonitorNext
    \/ \E c \in Client : Refresh(c) \/ Refused(c)
    \/ SaverNext
    \/ Restart

Spec == Init /\ [][Next]_vars

(* A task that has a thread goes on, and the adapter's store gets ready.   *)
(* Whether the user ever logs in is not assumed.                           *)
Fairness ==
    /\ \A c \in Client : WF_vars(BuildNext(c))
    /\ WF_vars(StoreIsReady)
    /\ WF_vars(NothingToRestore \/ Restore \/ RestoreFails)
    /\ WF_vars(AwaitHomeserver \/ SleepForClient \/ TakeClient)
    /\ WF_vars(SaverNext)

FairSpec == Spec /\ Fairness

----------------------------------------------------------------------------
(* Properties.                                                             *)

(* A login that succeeds finds the session of a temporary client: the      *)
(* client that woke the monitor was announced after its session.           *)
LoginFindsSession == monitor = "loggedIn" => temp_session # None

(* The frontend is shown a login only when the next start will find one,   *)
(* or the user knows that it will not: a crash after LoggedIn loses none.  *)
LoginIsPersisted ==
    shown = "loggedIn" => stored \notin {None, Empty} \/ "persist" \in toasts

(* Every thread that waits for something leaves one on which it can be     *)
(* done: a temporary client reaches the monitor.                           *)
HomeserverReachesMonitor ==
    (temp_client # None /\ monitor \in {"storeWait", "clientWait", "asleep"}) ~>
        monitor \notin {"storeWait", "clientWait", "asleep"}

(* A refreshed token that the saver has received is stored, or the user is *)
(* told that it is not, unless the process stops.                          *)
RefreshIsSaved ==
    \A c \in Client, k \in Token \ {0} :
        (changes # <<>> /\ Head(changes) = "TokensRefreshed" /\ global = c /\ held[c] = k) ~>
            \/ stored \notin {None, Empty} /\ stored.user = c /\ stored.token >= k
            \/ "save" \in toasts
            \/ monitor = "init"

(* "The logged-in Matrix client" (singletons.rs 59) is logged in, although *)
(* the temporary one "can be mutated because the user can change its       *)
(* homeserver" (48-49).                                                    *)
ClientIsLoggedIn == global # None => held[global] > 0

(* With an existing session, "the matrix client will be restored           *)
(* automatically" (README.md 60): what is stored is what the homeserver    *)
(* accepts, when nothing is being saved and the user was told nothing.     *)
StoredTokenIsCurrent ==
    monitor = "monitoring" /\ saver = "listening" /\ changes = <<>> /\ toasts = {} =>
        stored.token = issued[stored.user]
=============================================================================
