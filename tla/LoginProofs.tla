---------------------------- MODULE LoginProofs -----------------------------
(***************************************************************************)
(* For any number of homeservers, threads, commands, tokens and restarts:  *)
(* a login finds the session of a temporary client, and the frontend is    *)
(* not shown a login that the next start does not find, unless the user    *)
(* was told so.                                                            *)
(***************************************************************************)
EXTENDS Login, TLAPS

(* A session that can be restored.                                         *)
FullSession == [db : Client, user : Client, token : Token]

(* The monitor goes through these before and after a login.                *)
BeforeLogin ==
    {"init", "storeWait", "clientWait", "asleep", "checking", "oauth", "deeplink", "password"}
WithTempClient == {"checking", "oauth", "deeplink", "password", "loggedIn", "setClient"}
WithClient == WithTempClient \cup {"persisting", "user", "info", "readyWait", "monitoring"}

LoggedOut == \A c \in Client : held[c] = 0

(* Whoever sees a temporary client finds its session, since the session is *)
(* stored first and never taken away; what a task has waited for is there. *)
ClientsAreThere ==
    /\ temp_client # None => temp_session # None
    /\ \A c \in Client : build[c] \in {"session", "client"} => temp_session # None
    /\ monitor \in WithTempClient => temp_client # None
    /\ monitor \in WithClient => client # None
    /\ saver \in {"subscribing", "listening", "saving"} => global # None
    /\ saver = "saving" => saving \in FullSession

(* The session on its way to the adapter is a full one, except after a     *)
(* wrong URL, when nobody is logged in and SetUser stops the monitor.      *)
SessionIsThere ==
    /\ monitor \in BeforeLogin => LoggedOut
    /\ monitor = "setClient" => session \in FullSession
    /\ monitor = "persisting" => session \in FullSession \/ LoggedOut
    /\ monitor = "user" => stored \in FullSession \/ "persist" \in toasts \/ LoggedOut
    /\ monitor \in {"info", "readyWait", "monitoring"} =>
            stored \in FullSession \/ "persist" \in toasts
    /\ shown = "loggedIn" => monitor \in {"readyWait", "monitoring"}

IInv == TypeOK /\ ClientsAreThere /\ SessionIsThere

LEMMA FullSessionIsStored ==
    ASSUME NEW s \in FullSession
    PROVE s \in Session /\ s \notin {None, Empty}
BY LoginAssumption DEF FullSession, Session, Empty, Token

LEMMA StoredIsFull ==
    ASSUME TypeOK, stored \notin {None, Empty}
    PROVE stored \in FullSession
BY DEF TypeOK, FullSession, Session

LEMMA InitIInv == Init => IInv
<1> SUFFICES ASSUME Init PROVE IInv
  OBVIOUS
<1> USE LoginAssumption DEF Init, Started
<1>1. ready \in BOOLEAN
  OBVIOUS
<1>2. TypeOK
  BY <1>1 DEF TypeOK, Token
<1>3. ClientsAreThere
  BY DEF ClientsAreThere, WithTempClient, WithClient
<1>4. SessionIsThere
  BY DEF SessionIsThere, LoggedOut
<1> QED BY <1>2, <1>3, <1>4 DEF IInv

----------------------------------------------------------------------------

LEMMA CommandStep ==
    ASSUME IInv,
           \/ \E c \in Client : Build(c) \/ BuildFails(c) \/ BuildNext(c)
           \/ CheckAuthType \/ StoreIsReady
    PROVE IInv'
<1> USE LoginAssumption DEF IInv, monitorVars, saverVars, tempVars
<1>1. ASSUME NEW c \in Client, Build(c) \/ BuildFails(c) PROVE IInv'
  <2> USE DEF Build, BuildFails
  <2>1. TypeOK'
    <3>1. ready' \in BOOLEAN
      BY <1>1 DEF TypeOK
    <3>2. build' \in [Client -> {"unused", "building", "session", "client", "done"}]
      BY <1>1 DEF TypeOK
    <3>3. CASE Build(c)
      BY <3>1, <3>2, <3>3 DEF TypeOK
    <3>4. CASE BuildFails(c)
      BY <3>1, <3>2, <3>4 DEF TypeOK
    <3> QED BY <1>1, <3>3, <3>4
  <2>2. ClientsAreThere'
    BY <1>1 DEF Build, BuildFails, TypeOK, ClientsAreThere
  <2>3. SessionIsThere'
    BY <1>1 DEF Build, BuildFails, SessionIsThere, LoggedOut
  <2> QED BY <2>1, <2>2, <2>3
<1>2. ASSUME NEW c \in Client, BuildNext(c) PROVE IInv'
  <2> USE DEF BuildNext, SetTempSession, SetTempClient, NotifyAll
  <2>1. TypeOK'
    <3>1. ready' \in BOOLEAN
      BY <1>2 DEF TypeOK
    <3>2. build' \in [Client -> {"unused", "building", "session", "client", "done"}]
      BY <1>2 DEF TypeOK
    <3>3. calls' \in 0 .. MaxCalls
      BY <1>2 DEF TypeOK
    <3>4. CASE SetTempSession(c)
      BY <3>1, <3>2, <3>3, <3>4 DEF TypeOK
    <3>5. CASE SetTempClient(c)
      BY <3>1, <3>2, <3>3, <3>5 DEF TypeOK
    <3>6. CASE NotifyAll(c)
      BY <3>1, <3>2, <3>3, <3>6 DEF TypeOK
    <3> QED BY <1>2, <3>4, <3>5, <3>6
  <2>2. ClientsAreThere'
    BY <1>2 DEF TypeOK, ClientsAreThere, WithTempClient, WithClient
  <2>3. SessionIsThere'
    BY <1>2 DEF SessionIsThere, LoggedOut, BeforeLogin
  <2> QED BY <2>1, <2>2, <2>3
<1>3. CASE CheckAuthType \/ StoreIsReady
  <2> USE DEF CheckAuthType, StoreIsReady
  <2>1. ready' \in BOOLEAN
    BY <1>3 DEF TypeOK
  <2>2. TypeOK'
    <3>1. calls' \in 0 .. MaxCalls
      BY <1>3 DEF TypeOK
    <3>2. UNCHANGED <<starts, stored, issued, held, build, temp_client, temp_session, global>>
      BY <1>3
    <3>3. UNCHANGED <<monitor, client, session, shown, saver, changes, saving, toasts>>
      BY <1>3
    <3> QED BY ONLY TypeOK, <2>1, <3>1, <3>2, <3>3 DEF TypeOK
  <2>3. ClientsAreThere'
    BY <1>3 DEF ClientsAreThere
  <2>4. SessionIsThere'
    BY <1>3 DEF SessionIsThere, LoggedOut
  <2> QED BY <2>2, <2>3, <2>4
<1> QED BY <1>1, <1>2, <1>3

----------------------------------------------------------------------------
(* The monitor, action by action.                                          *)

LEMMA MonitorType ==
    ASSUME IInv, MonitorNext
    PROVE TypeOK'
<1> USE LoginAssumption DEF IInv, TypeOK, monitorVars, saverVars, tempVars, MonitorGoes
<1>1. CASE NothingToRestore \/ RestoreFails
  <2>1. CASE NothingToRestore
    BY <2>1 DEF NothingToRestore
  <2>2. CASE RestoreFails
    BY <2>2 DEF RestoreFails
  <2> QED BY <1>1, <2>1, <2>2
<1>2. CASE Restore
  <2>1. stored \in FullSession
    BY <1>2, StoredIsFull DEF Restore
  <2> QED BY <1>2, <2>1 DEF Restore, FullSession
<1>3. CASE AwaitHomeserver \/ SleepForClient \/ TakeClient
  <2>1. CASE AwaitHomeserver
    BY <2>1 DEF AwaitHomeserver
  <2>2. CASE SleepForClient
    BY <2>2 DEF SleepForClient
  <2>3. CASE TakeClient
    BY <2>3 DEF TakeClient
  <2> QED BY <1>3, <2>1, <2>2, <2>3
<1>4. CASE AuthType \/ SendOAuthUrl \/ OAuthFails \/ PasswordFails
  <2>1. CASE AuthType
    BY <2>1 DEF AuthType
  <2>2. CASE SendOAuthUrl
    BY <2>2 DEF SendOAuthUrl
  <2>3. CASE OAuthFails
    BY <2>3 DEF OAuthFails
  <2>4. CASE PasswordFails
    BY <2>4 DEF PasswordFails
  <2> QED BY <1>4, <2>1, <2>2, <2>3, <2>4
<1>5. CASE WrongUrl
  BY <1>5 DEF WrongUrl, Session
<1>6. CASE LoginSucceeds
  <2>1. client \in Client
    BY <1>6 DEF LoginSucceeds, ClientsAreThere, WithClient, WithTempClient
  <2>2. issued'[client] = issued[client] + 1 /\ issued[client] + 1 \in Token
    BY <1>6, <2>1 DEF LoginSucceeds, Token
  <2> QED BY <1>6, <2>1, <2>2 DEF LoginSucceeds
<1>7. CASE MakeSession
  <2>1. client \in Client
    BY <1>7 DEF MakeSession, ClientsAreThere, WithClient, WithTempClient
  <2>2. session' \in Session \cup {None}
    BY <1>7, <2>1 DEF MakeSession, Session
  <2> QED BY <1>7, <2>2 DEF MakeSession
<1>8. CASE SetClient \/ Persist \/ PersistFails
  <2>1. CASE SetClient
    BY <2>1 DEF SetClient
  <2>2. CASE Persist
    BY <2>2 DEF Persist
  <2>3. CASE PersistFails
    BY <2>3 DEF PersistFails
  <2> QED BY <1>8, <2>1, <2>2, <2>3
<1>9. CASE SetUser \/ ShowLoggedIn \/ Monitoring
  <2>1. CASE SetUser
    BY <2>1 DEF SetUser
  <2>2. CASE ShowLoggedIn
    BY <2>2 DEF ShowLoggedIn
  <2>3. CASE Monitoring
    BY <2>3 DEF Monitoring
  <2> QED BY <1>9, <2>1, <2>2, <2>3
<1> QED BY <1>1, <1>2, <1>3, <1>4, <1>5, <1>6, <1>7, <1>8, <1>9 DEF MonitorNext

LEMMA MonitorClients ==
    ASSUME IInv, MonitorNext
    PROVE ClientsAreThere'
<1> USE LoginAssumption DEF IInv, TypeOK, ClientsAreThere, WithTempClient, WithClient,
                            monitorVars, saverVars, tempVars, MonitorGoes
<1>1. CASE NothingToRestore \/ RestoreFails
  BY <1>1 DEF NothingToRestore, RestoreFails
<1>2. CASE Restore
  <2>1. stored \in FullSession
    BY <1>2, StoredIsFull DEF Restore
  <2> QED BY <1>2, <2>1 DEF Restore, FullSession
<1>3. CASE AwaitHomeserver \/ SleepForClient \/ TakeClient
  BY <1>3 DEF AwaitHomeserver, SleepForClient, TakeClient
<1>4. CASE AuthType \/ SendOAuthUrl \/ OAuthFails \/ PasswordFails
  BY <1>4 DEF AuthType, SendOAuthUrl, OAuthFails, PasswordFails
<1>5. CASE WrongUrl \/ LoginSucceeds \/ MakeSession
  BY <1>5 DEF WrongUrl, LoginSucceeds, MakeSession
<1>6. CASE SetClient \/ Persist \/ PersistFails
  BY <1>6 DEF SetClient, Persist, PersistFails
<1>7. CASE SetUser \/ ShowLoggedIn \/ Monitoring
  BY <1>7 DEF SetUser, ShowLoggedIn, Monitoring
<1> QED BY <1>1, <1>2, <1>3, <1>4, <1>5, <1>6, <1>7 DEF MonitorNext

LEMMA MonitorSession ==
    ASSUME IInv, MonitorNext
    PROVE SessionIsThere'
<1> USE LoginAssumption DEF IInv, TypeOK, SessionIsThere, LoggedOut, BeforeLogin,
                            monitorVars, saverVars, tempVars, MonitorGoes
<1>1. CASE NothingToRestore \/ RestoreFails
  BY <1>1 DEF NothingToRestore, RestoreFails
<1>2. CASE Restore
  <2>1. stored \in FullSession
    BY <1>2, StoredIsFull DEF Restore
  <2> QED BY <1>2, <2>1 DEF Restore
<1>3. CASE AwaitHomeserver \/ SleepForClient \/ TakeClient
  BY <1>3 DEF AwaitHomeserver, SleepForClient, TakeClient
<1>4. CASE AuthType \/ SendOAuthUrl \/ OAuthFails \/ PasswordFails
  BY <1>4 DEF AuthType, SendOAuthUrl, OAuthFails, PasswordFails
<1>5. CASE WrongUrl \/ LoginSucceeds
  BY <1>5 DEF WrongUrl, LoginSucceeds
<1>6. CASE MakeSession
  <2>1. client \in Client
    BY <1>6 DEF MakeSession, ClientsAreThere, WithClient, WithTempClient
  <2>2. monitor' = "setClient" => session' \in FullSession
    BY <1>6, <2>1 DEF MakeSession, FullSession
  <2> QED BY <1>6, <2>2 DEF MakeSession
<1>7. CASE SetClient \/ Persist \/ PersistFails
  BY <1>7 DEF SetClient, Persist, PersistFails
<1>8. CASE SetUser
  <2>1. client \in Client
    BY <1>8 DEF SetUser, ClientsAreThere, WithClient
  <2> QED BY <1>8, <2>1 DEF SetUser
<1>9. CASE ShowLoggedIn \/ Monitoring
  BY <1>9 DEF ShowLoggedIn, Monitoring
<1> QED BY <1>1, <1>2, <1>3, <1>4, <1>5, <1>6, <1>7, <1>8, <1>9 DEF MonitorNext

----------------------------------------------------------------------------
(* The SDK, the task that saves tokens, and a restart.                     *)

LEMMA RefreshStep ==
    ASSUME IInv, NEW c \in Client, Refresh(c) \/ Refused(c)
    PROVE IInv'
<1> USE LoginAssumption DEF IInv, Refresh, Refused, monitorVars, saverVars, tempVars
<1>1. changes' \in Seq({"TokensRefreshed", "UnknownToken"})
  <2>1. changes \in Seq({"TokensRefreshed", "UnknownToken"})
    BY DEF TypeOK
  <2>2. ASSUME NEW x \in {"TokensRefreshed", "UnknownToken"}
        PROVE Append(changes, x) \in Seq({"TokensRefreshed", "UnknownToken"})
    BY <2>1
  <2>3. changes' \in {changes, Append(changes, "TokensRefreshed"), Append(changes, "UnknownToken")}
    BY DEF Changed
  <2> QED BY <2>1, <2>2, <2>3
<1>2. issued' \in [Client -> Token] /\ held' \in [Client -> Token]
  <2>1. issued \in [Client -> Token] /\ held \in [Client -> Token]
    BY DEF TypeOK
  <2>2. CASE Refresh(c)
    <3>1. issued[c] + 1 \in Token /\ held[c] + 1 \in Token
      BY <2>1, <2>2 DEF Token
    <3> QED BY <2>1, <2>2, <3>1
  <2>3. CASE Refused(c)
    BY <2>1, <2>3
  <2> QED BY <2>2, <2>3
<1>3. TypeOK'
  <2>1. ready' \in BOOLEAN
    BY DEF TypeOK
  <2>2. CASE Refresh(c)
    BY <1>1, <1>2, <2>1, <2>2 DEF TypeOK
  <2>3. CASE Refused(c)
    BY <1>1, <1>2, <2>1, <2>3 DEF TypeOK
  <2> QED BY <2>2, <2>3
<1>4. ClientsAreThere'
  BY DEF ClientsAreThere
<1>5. LoggedOut => LoggedOut'
  BY DEF LoggedOut, TypeOK
<1>6. SessionIsThere'
  BY <1>5 DEF SessionIsThere
<1> QED BY <1>3, <1>4, <1>6

LEMMA SaverStep ==
    ASSUME IInv, SaverNext
    PROVE IInv'
<1> USE LoginAssumption DEF IInv, SaverGoes, monitorVars, saverVars, tempVars
<1>1. CASE SaverStarts \/ SaverHasClient \/ SaverSubscribes \/ SaveFails
  <2> USE DEF SaverStarts, SaverHasClient, SaverSubscribes, SaveFails
  <2>1. TypeOK'
    <3>1. CASE SaverStarts
      BY <3>1 DEF TypeOK
    <3>2. CASE SaverHasClient
      BY <3>2 DEF TypeOK
    <3>3. CASE SaverSubscribes
      BY <3>3 DEF TypeOK
    <3>4. CASE SaveFails
      BY <3>4 DEF TypeOK
    <3> QED BY <1>1, <3>1, <3>2, <3>3, <3>4
  <2>2. ClientsAreThere'
    BY <1>1 DEF TypeOK, ClientsAreThere
  <2>3. SessionIsThere'
    BY <1>1 DEF SessionIsThere, LoggedOut
  <2> QED BY <2>1, <2>2, <2>3
<1>2. CASE SaverHears
  <2> USE <1>2 DEF SaverHears
  <2>1. global \in Client
    BY DEF TypeOK, ClientsAreThere
  <2>2. saver' = "saving" => saving' \in FullSession
    BY <2>1 DEF TypeOK, FullSession
  <2>3. saving' \in Session \cup {None}
    BY <2>1 DEF TypeOK, Session
  <2>4. changes' \in Seq({"TokensRefreshed", "UnknownToken"})
    OBVIOUS
  <2>5. TypeOK'
    <3>1. saver' \in {"spawned", "waiting", "subscribing", "listening", "saving"}
      BY DEF TypeOK
    <3>2. toasts' \subseteq {"restore", "url", "persist", "save", "token"}
      BY DEF TypeOK
    <3>3. UNCHANGED <<starts, stored, issued, held, build, temp_client, temp_session, calls,
                      ready, global, monitor, client, session, shown>>
      OBVIOUS
    <3> QED BY ONLY TypeOK, <2>3, <2>4, <3>1, <3>2, <3>3 DEF TypeOK
  <2>6. ClientsAreThere'
    BY <2>2 DEF TypeOK, ClientsAreThere
  <2>7. SessionIsThere'
    BY DEF SessionIsThere, LoggedOut
  <2> QED BY <2>5, <2>6, <2>7
<1>3. CASE Save
  <2> USE <1>3 DEF Save
  <2>1. stored' \in FullSession
    BY StoredIsFull DEF ClientsAreThere, FullSession
  <2>2. TypeOK'
    BY <2>1, FullSessionIsStored DEF TypeOK
  <2>3. ClientsAreThere'
    BY DEF ClientsAreThere
  <2>4. SessionIsThere'
    BY <2>1 DEF SessionIsThere, LoggedOut
  <2> QED BY <2>2, <2>3, <2>4
<1> QED BY <1>1, <1>2, <1>3 DEF SaverNext

LEMMA RestartStep ==
    ASSUME IInv, Restart
    PROVE IInv'
<1> USE LoginAssumption DEF IInv, Restart
<1>1. ready' \in BOOLEAN
  OBVIOUS
<1>2. TypeOK'
  BY <1>1 DEF TypeOK, Token
<1>3. ClientsAreThere'
  BY DEF TypeOK, ClientsAreThere, WithTempClient, WithClient
<1>4. SessionIsThere'
  BY DEF SessionIsThere, LoggedOut
<1> QED BY <1>2, <1>3, <1>4

LEMMA IInvStep == IInv /\ [Next]_vars => IInv'
<1> SUFFICES ASSUME IInv, [Next]_vars PROVE IInv'
  OBVIOUS
<1>1. CASE MonitorNext
  BY <1>1, MonitorType, MonitorClients, MonitorSession DEF IInv
<1>2. CASE UNCHANGED vars
  BY <1>2 DEF vars, tempVars, monitorVars, saverVars, IInv, TypeOK, ClientsAreThere,
              SessionIsThere, LoggedOut
<1> QED BY <1>1, <1>2, CommandStep, RefreshStep, SaverStep, RestartStep DEF Next

LEMMA IInvHolds == Spec => []IInv
BY InitIInv, IInvStep, PTL DEF Spec

----------------------------------------------------------------------------

(* Every variable of the login keeps to its type, through restarts.        *)
THEOREM LoginTypeCorrect == Spec => []TypeOK
<1>1. IInv => TypeOK
  BY DEF IInv
<1> QED BY <1>1, IInvHolds, PTL

(* A login that succeeds finds the session of a temporary client, however  *)
(* often the user has changed the homeserver meanwhile.                    *)
THEOREM LoginsFindTheirSession == Spec => []LoginFindsSession
<1>1. IInv => LoginFindsSession
  BY DEF IInv, ClientsAreThere, WithTempClient, LoginFindsSession
<1> QED BY <1>1, IInvHolds, PTL

(* What the frontend is shown as logged in the next start can restore, or  *)
(* the user was told that it cannot.                                       *)
THEOREM LoginsArePersisted == Spec => []LoginIsPersisted
<1>1. IInv => LoginIsPersisted
  BY FullSessionIsStored DEF IInv, SessionIsThere, LoginIsPersisted
<1> QED BY <1>1, IInvHolds, PTL
=============================================================================
