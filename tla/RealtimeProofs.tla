--------------------------- MODULE RealtimeProofs ---------------------------
(***************************************************************************)
(* What holds of Realtime for any number of sessions: types, whose token   *)
(* the socket carries, and that the connection is never given up.          *)
(***************************************************************************)
EXTENDS Realtime, TLAPS

\* The attempt that decides the delay stays within its cap.
LEMMA CappedTyped == ASSUME NEW n \in Nat PROVE Capped(n) \in 0..MaxAttempt
BY DEF Capped, MaxAttempt

\* Scheduling a reconnection starts the timer and keeps the attempt typed.
LEMMA ScheduleTyped ==
  ASSUME TypeOK, ScheduleReconnect
  PROVE  timer' = TRUE /\ attempt' \in 0..MaxAttempt
<1>1. attempt + 1 \in Nat
  BY DEF TypeOK, MaxAttempt
<1> QED BY <1>1, CappedTyped DEF ScheduleReconnect

\* Every state of every behaviour is well typed.
THEOREM TypeCorrect == Spec => []TypeOK
<1>1. Init => TypeOK
  <2> SUFFICES ASSUME Init PROVE TypeOK
    OBVIOUS
  <2>1. 0 \in 0..MaxSession /\ 0 \in 0..MaxAttempt
    BY MaxSessionAssumption DEF MaxAttempt
  <2>2. up \in BOOLEAN /\ timer \in BOOLEAN /\ poll \in BOOLEAN
    BY Zenon DEF Init
  <2> QED BY <2>1, <2>2 DEF Init, TypeOK
<1>2. TypeOK /\ [Next]_vars => TypeOK'
  <2> SUFFICES ASSUME TypeOK, [Next]_vars PROVE TypeOK'
    OBVIOUS
  <2> USE MaxSessionAssumption
  <2>1. CASE Connected
    BY <2>1 DEF Connected, world, TypeOK, MaxAttempt
  <2>2. CASE ConnectFails
    BY <2>2, ScheduleTyped DEF ConnectFails, SocketError, world, TypeOK
  <2>3. ASSUME NEW error \in BOOLEAN, Disconnected(error)
        PROVE TypeOK'
    BY <2>3, ScheduleTyped DEF Disconnected, SocketError, world, TypeOK
  <2>4. CASE TimerFires
    BY <2>4 DEF TimerFires, ConnectAndAuthenticate, world, TypeOK
  <2>5. CASE Enter
    <3>1. tokens + 1 \in 1..MaxSession
      BY <2>5 DEF Enter, TypeOK
    <3> QED BY <2>5, <3>1 DEF Enter, ConnectAndAuthenticate, TypeOK
  <2>6. CASE EnterFails
    <3>1. tokens + 1 \in 1..MaxSession
      BY <2>6 DEF EnterFails, TypeOK
    <3> QED BY <2>6, <3>1 DEF EnterFails, socket, TypeOK
  <2>7. ASSUME NEW revoked \in BOOLEAN, Logout(revoked)
        PROVE TypeOK'
    <3>1. link' \in {"none", "closing"} /\ timer' \in BOOLEAN /\ attempt' \in 0..MaxAttempt
      BY <2>7, ScheduleTyped DEF Logout, Close, TypeOK
    <3>2. accepted' \subseteq 1..MaxSession
      BY <2>7 DEF Logout, TypeOK
    <3>3. /\ session' = 0 /\ poll' = FALSE
          /\ UNCHANGED <<tokens, up, bearer>>
      BY <2>7 DEF Logout
    <3>4. up' \in BOOLEAN /\ poll' \in BOOLEAN
      BY <3>3, Zenon DEF TypeOK
    <3> QED BY <3>1, <3>2, <3>3, <3>4 DEF TypeOK
  <2>8. ASSUME NEW token \in 1..MaxSession, Expire(token)
        PROVE TypeOK'
    BY <2>8 DEF Expire, socket, TypeOK
  <2>9. CASE ServerGoesOrComes
    BY <2>9 DEF ServerGoesOrComes, socket, TypeOK
  <2>10. CASE UNCHANGED vars
    BY <2>10 DEF vars, world, socket, TypeOK
  <2> QED BY <2>1, <2>2, <2>3, <2>4, <2>5, <2>6, <2>7, <2>8, <2>9, <2>10 DEF Next
<1> QED BY <1>1, <1>2, PTL DEF Spec

\* The socket of a session carries its token: the invariant is inductive, for
\* only entering a session changes the token, and only logout closes.
THEOREM SessionsToken == Spec => []SocketIsTheSessions
<1>1. Init => SocketIsTheSessions
  BY DEF Init, SocketIsTheSessions
<1>2. SocketIsTheSessions /\ [Next]_vars => SocketIsTheSessions'
  <2> SUFFICES ASSUME SocketIsTheSessions, [Next]_vars PROVE SocketIsTheSessions'
    OBVIOUS
  <2> USE DEF SocketIsTheSessions
  <2>1. CASE Connected \/ ConnectFails \/ \E error \in BOOLEAN : Disconnected(error)
    BY <2>1 DEF Connected, ConnectFails, Disconnected
  <2>2. CASE TimerFires \/ Enter
    BY <2>2 DEF TimerFires, Enter, ConnectAndAuthenticate
  <2>3. CASE EnterFails \/ \E revoked \in BOOLEAN : Logout(revoked)
    BY <2>3 DEF EnterFails, Logout
  <2>4. CASE ServerGoesOrComes \/ \E token \in 1..MaxSession : Expire(token)
    BY <2>4 DEF ServerGoesOrComes, Expire, socket
  <2>5. CASE UNCHANGED vars
    BY <2>5 DEF vars, socket
  <2> QED BY <2>1, <2>2, <2>3, <2>4, <2>5 DEF Next
<1> QED BY <1>1, <1>2, PTL DEF Spec

\* In a session the push channel is open, on its way or about to be retried.
THEOREM ConnectionNotGivenUp == Spec => []NeverStranded
<1>1. Init => NeverStranded
  BY DEF Init, NeverStranded
<1>2. NeverStranded /\ [Next]_vars => NeverStranded'
  <2> SUFFICES ASSUME NeverStranded, [Next]_vars PROVE NeverStranded'
    OBVIOUS
  <2>1. CASE Connected
    BY <2>1 DEF Connected, NeverStranded
  <2>2. CASE ConnectFails \/ \E error \in BOOLEAN : Disconnected(error)
    BY <2>2 DEF ConnectFails, Disconnected, ScheduleReconnect, NeverStranded
  <2>3. CASE TimerFires \/ Enter
    BY <2>3 DEF TimerFires, Enter, ConnectAndAuthenticate, NeverStranded
  <2>4. CASE EnterFails \/ \E revoked \in BOOLEAN : Logout(revoked)
    BY <2>4 DEF EnterFails, Logout, NeverStranded
  <2>5. CASE ServerGoesOrComes \/ \E token \in 1..MaxSession : Expire(token)
    BY <2>5 DEF ServerGoesOrComes, Expire, socket, NeverStranded
  <2>6. CASE UNCHANGED vars
    BY <2>6 DEF vars, socket, NeverStranded
  <2> QED BY <2>1, <2>2, <2>3, <2>4, <2>5, <2>6 DEF Next
<1> QED BY <1>1, <1>2, PTL DEF Spec
=============================================================================
