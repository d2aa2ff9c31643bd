---------------------------- MODULE ShellProofs ----------------------------
(***************************************************************************)
(* Proofs about Shell: its pages drive the push channel only as Realtime   *)
(* allows, and no session meets a server that has not been checked.        *)
(***************************************************************************)
EXTENDS Shell, RealtimeProofs, TLAPS

(***************************************************************************)
(* Refinement                                                              *)
(***************************************************************************)

\* Whatever is done on the pages, the push channel takes a step of Realtime or none.
LEMMA StepRefines == [ShellNext]_shellVars => [Next]_vars
<1> USE DEF shell
<1> SUFFICES ASSUME ShellNext PROVE [Next]_vars
  BY DEF shellVars
<1>1. ASSUME NEW text, TypeUrl(text) PROVE [Next]_vars
  BY <1>1 DEF TypeUrl
<1>2. CASE ConnectClicked
  BY <1>2 DEF ConnectClicked
<1>3. CASE HealthFails
  BY <1>3 DEF HealthFails
<1>4. CASE HealthAnswers
  <2>1. StartServices \/ UNCHANGED vars
    BY <1>4 DEF HealthAnswers
  <2>2. StartServices => Enter \/ EnterFails \/ UNCHANGED vars
    BY DEF StartServices, EnterMain
  <2>. QED  BY <2>1, <2>2 DEF Next
<1>5. ASSUME NEW next, MenuShows(next) \/ FormRequested(next) \/ BackRequested
      PROVE  [Next]_vars
  BY <1>5 DEF MenuShows, FormRequested, BackRequested, Show
<1>6. CASE Submit
  BY <1>6 DEF Submit, EnterMain, Next
<1>7. ASSUME NEW revoked \in BOOLEAN, LogoutRequested(revoked) PROVE [Next]_vars
  BY <1>7 DEF LogoutRequested, Next
<1>8. CASE ChannelStep
  BY <1>8 DEF ChannelStep, Next
<1>. QED  BY <1>1, <1>2, <1>3, <1>4, <1>5, <1>6, <1>7, <1>8 DEF ShellNext

\* The push channel that the pages drive is the one Realtime specifies, with
\* its fairness: what holds of Realtime holds of the application.
THEOREM DrivesRealtime == ShellSpec => Spec
<1>1. ShellInit => Init
  BY DEF ShellInit
<1>. QED  BY <1>1, StepRefines, PTL DEF ShellSpec, Spec

\* So the application keeps what Realtime promises: in a session, whatever the
\* user does on the pages, the channel carries the session's token and is never
\* given up.
COROLLARY ApplicationKeepsChannel == ShellSpec => [](SocketIsTheSessions /\ NeverStranded)
BY DrivesRealtime, SessionsToken, ConnectionNotGivenUp, PTL

(***************************************************************************)
(* The inductive invariant                                                 *)
(***************************************************************************)

\* The field is the URL of the check that runs, so that what is taken from it
\* when the check answers is what was checked.
FieldIsChecked == checking # NoUrl => checking \in Url /\ edit = checking

IInv == ShellTypeOK /\ FieldIsChecked /\ OnlyCheckedServers

\* The channel keeps its token, but for the one of a session that begins.
LEMMA BearerKept ==
  ASSUME ChannelStep \/ EnterFails \/ (\E revoked \in BOOLEAN : Logout(revoked))
  PROVE  bearer' = bearer
BY DEF ChannelStep, Connected, ConnectFails, Disconnected, TimerFires,
       ConnectAndAuthenticate, Expire, ServerGoesOrComes, socket, EnterFails, Logout

\* The application starts with nothing checked, offered or in use.
LEMMA InitEstablishes == ShellInit => IInv
BY UrlAssumption DEF ShellInit, Init, IInv, ShellTypeOK, FieldIsChecked, OnlyCheckedServers

\* No step of the user, the pages or the channel breaks the invariant.
LEMMA StepPreserves == IInv /\ [ShellNext]_shellVars => IInv'
<1> SUFFICES ASSUME IInv, [ShellNext]_shellVars PROVE IInv'
  OBVIOUS
<1> USE UrlAssumption DEF IInv, ShellTypeOK, FieldIsChecked, OnlyCheckedServers, shell
<1>0. (UNCHANGED vars) => bearer' = bearer
  BY DEF vars, socket
<1>1. ASSUME NEW text \in Url \cup {BadUrl}, TypeUrl(text) PROVE IInv'
  BY <1>0, <1>1 DEF TypeUrl
<1>2. CASE ConnectClicked
  BY <1>0, <1>2 DEF ConnectClicked
<1>3. CASE HealthFails
  BY <1>0, <1>3 DEF HealthFails
<1>4. CASE HealthAnswers
  <2>1. /\ checking \in Url /\ edit = checking
        /\ checking' = NoUrl /\ offered' = edit /\ edit' = edit
        /\ healthy' = healthy \cup {checking}
    BY <1>4 DEF HealthAnswers
  <2>2. CASE server # NoUrl
    BY <1>0, <1>4, <2>1, <2>2 DEF HealthAnswers
  <2>3. CASE server = NoUrl
    <3>1. StartServices
      BY <1>4, <2>3 DEF HealthAnswers
    <3>2. CASE UNCHANGED <<vars, page, server>>
      BY <1>0, <2>1, <3>2
    <3>3. CASE server' = edit /\ page' \in {"welcome", "main"}
      BY <2>1, <3>3
    <3>. QED  BY <3>1, <3>2, <3>3 DEF StartServices, EnterMain
  <2>. QED  BY <2>2, <2>3
<1>5. ASSUME NEW next, MenuShows(next) \/ FormRequested(next) PROVE IInv'
  BY <1>0, <1>5 DEF MenuShows, FormRequested, Show
<1>6. CASE BackRequested
  BY <1>0, <1>6 DEF BackRequested, Show
<1>7. CASE Submit
  BY <1>7 DEF Submit, EnterMain
<1>8. ASSUME NEW revoked \in BOOLEAN, LogoutRequested(revoked) PROVE IInv'
  BY <1>8, BearerKept DEF LogoutRequested
<1>9. CASE ChannelStep
  BY <1>9, BearerKept DEF ChannelStep
<1>10. CASE UNCHANGED shellVars
  BY <1>0, <1>10 DEF shellVars
<1>. QED  BY <1>1, <1>2, <1>3, <1>4, <1>5, <1>6, <1>7, <1>8, <1>9, <1>10 DEF ShellNext

\* The invariant of the pages holds throughout.
LEMMA Invariant == ShellSpec => []IInv
BY InitEstablishes, StepPreserves, PTL DEF ShellSpec

(***************************************************************************)
(* The properties                                                          *)
(***************************************************************************)

\* The pages and URLs are what they should be.
THEOREM ShellTypeCorrect == ShellSpec => []ShellTypeOK
<1>1. IInv => ShellTypeOK
  BY DEF IInv
<1>. QED  BY <1>1, Invariant, PTL

\* The services, the login that is offered and the session are with servers
\* whose health check has answered.
THEOREM CheckedBeforeUse == ShellSpec => []OnlyCheckedServers
<1>1. IInv => OnlyCheckedServers
  BY DEF IInv
<1>. QED  BY <1>1, Invariant, PTL
=============================================================================
