--------------------------- MODULE ChannelProofs ---------------------------
(***************************************************************************)
(* Theorems about a channel's connection and about the frames on it.       *)
(*                                                                         *)
(* Connection, for any number of attempts and read errors: an open channel *)
(* is pinged, no attempt leaks a connection, and a stopped channel is      *)
(* never opened again.                                                     *)
(*                                                                         *)
(* MessageCodec, for numbers, fields and bytes of any size: the frame of a *)
(* message has its fields one after the other, and what damage to a frame  *)
(* does to the message that is read from it and found valid.               *)
(***************************************************************************)
EXTENDS Connection, MessageCodec, SequenceTheorems, WellFoundedInduction, TLAPS

-----------------------------------------------------------------------------
(* Connection: the inductive invariant *)

\* main is inside Open exactly as long as there is no listener.
Opening == {"reconnect", "open", "token", "failed"}

MainStates == Opening \cup {"waiting", "running"}

ListenerStates ==
    {"idle", "reading", "refresh", "reconnect", "open", "token", "handlingNil",
     "shut", "dead", "eof"}

TypeOK ==
    /\ isOpen \in BOOLEAN
    /\ connection \in Nat
    /\ pingers \in Nat
    /\ DOMAIN pc = Goroutines
    /\ pc["main"] \in MainStates
    /\ pc["listener"] \in ListenerStates
    /\ DOMAIN calls = Goroutines

\* Only one of the two goroutines can be opening or closing at a time.
OneOpener == pc["main"] \in Opening <=> pc["listener"] = "idle"

\* Who is about to dial has closed: the attempt before may have got as far as
\* the token.
DialsClosed == \A g \in Goroutines : pc[g] = "open" => ~isOpen

\* A channel is not open because nobody has dialled, or because the last
\* connection was closed; and all earlier ones were.
ClosedBefore ==
    /\ ~isOpen => connection = 0 \/ connection \in closed
    /\ NoLeakedConnection

\* Once stopped the listener can only find out and return.
StopLasts ==
    stopped => ~isOpen /\ pc["listener"] \in {"reading", "shut", "dead", "eof"}

ConnectionInv ==
    /\ TypeOK
    /\ OneOpener
    /\ DialsClosed
    /\ ClosedBefore
    /\ StopLasts
    /\ PingerAlive

-----------------------------------------------------------------------------
(* Connection: the steps that several actions share *)

\* main is not waiting for or running a session while it opens, and then there
\* is no listener; the listener's steps leave main where it is.
LEMMA GoroutineCases == \A g \in Goroutines : g = "main" \/ g = "listener"
  BY DEF Goroutines

\* One more attempt, or the last one has failed, of a goroutine that was opening
\* or, as the listener, refreshing the token.
LEMMA RetryKeeps ==
    ASSUME ConnectionInv, NEW g \in Goroutines, RetryOrGiveUp(g),
           pc[g] \in {"open", "token"} \/ (g = "listener" /\ pc[g] = "refresh"),
           UNCHANGED <<socketVars, stopped>>
    PROVE  ConnectionInv'
<1> USE DEF ConnectionInv, socketVars
<1>1. DOMAIN pc' = Goroutines /\ DOMAIN calls' = Goroutines
  BY DEF RetryOrGiveUp, TypeOK
<1>2. CASE g = "main"
  <2>1. pc["main"] \in Opening /\ pc["listener"] = "idle"
    BY <1>2 DEF Opening, OneOpener
  <2>2. pc'["main"] \in {"reconnect", "failed"} /\ pc'["listener"] = "idle"
    BY <1>2, <2>1 DEF RetryOrGiveUp, FirstStep, GiveUp, TypeOK, Goroutines
  <2> QED
    BY <1>1, <2>1, <2>2 DEF TypeOK, OneOpener, DialsClosed, ClosedBefore, NoLeakedConnection,
         StopLasts, PingerAlive, Opening, MainStates, ListenerStates, Goroutines
<1>3. CASE g = "listener"
  <2>1. pc'["listener"] \in {"refresh", "shut"} /\ pc'["main"] = pc["main"]
    BY <1>3 DEF RetryOrGiveUp, FirstStep, GiveUp, TypeOK, Goroutines
  <2> QED
    BY <1>1, <1>3, <2>1 DEF TypeOK, OneOpener, DialsClosed, ClosedBefore, NoLeakedConnection,
         StopLasts, PingerAlive, ListenerStates, Goroutines
<1> QED
  BY <1>2, <1>3, GoroutineCases

\* The listener goes from one place to another that is not dialling, and nothing
\* else of the invariant changes.
LEMMA ListenerMoves ==
    ASSUME ConnectionInv, NEW to \in ListenerStates \ {"idle", "open"},
           pc["listener"] # "idle",
           pc' = [pc EXCEPT !["listener"] = to],
           stopped => to \in {"reading", "shut", "dead", "eof"},
           DOMAIN calls' = Goroutines,
           UNCHANGED <<socketVars, stopped>>
    PROVE  ConnectionInv'
<1> USE DEF ConnectionInv, socketVars
<1>1. pc'["listener"] = to /\ pc'["main"] = pc["main"] /\ DOMAIN pc' = Goroutines
  BY DEF TypeOK, Goroutines
<1> QED
  BY <1>1 DEF TypeOK, OneOpener, DialsClosed, ClosedBefore, NoLeakedConnection,
       StopLasts, PingerAlive, Goroutines

\* After Close the channel is closed and the current connection too.
LEMMA CloseCloses ==
    ASSUME ConnectionInv, Close
    PROVE  /\ ~isOpen' /\ isOpen' \in BOOLEAN
           /\ connection' \in Nat /\ pingers' \in Nat
           /\ ClosedBefore'
           /\ PingerAlive'
  BY DEF ConnectionInv, Close, TypeOK, ClosedBefore, NoLeakedConnection, PingerAlive

-----------------------------------------------------------------------------
(* Connection: the actions *)

\* Dialling, sending the token and what follows a failure.
LEMMA ChannelKeeps ==
    ASSUME ConnectionInv, NEW g \in Goroutines, Channel(g)
    PROVE  ConnectionInv'
<1>1. CASE Reconnect(g)
  <2>1. /\ ~isOpen' /\ isOpen' \in BOOLEAN /\ connection' \in Nat /\ pingers' \in Nat
        /\ ClosedBefore' /\ PingerAlive'
    BY <1>1, CloseCloses DEF Reconnect
  <2>2. pc[g] = "reconnect" /\ pc' = [pc EXCEPT ![g] = "open"] /\ UNCHANGED <<calls, stopped>>
    BY <1>1 DEF Reconnect
  <2>3. TypeOK' /\ OneOpener'
    BY <2>1, <2>2, GoroutineCases DEF ConnectionInv, TypeOK, OneOpener, Opening, MainStates,
         ListenerStates, Goroutines
  <2>4. DialsClosed' /\ StopLasts'
    BY <2>1, <2>2, GoroutineCases DEF ConnectionInv, TypeOK, OneOpener, DialsClosed, StopLasts,
         Opening, Goroutines
  <2> QED
    BY <2>1, <2>3, <2>4 DEF ConnectionInv
<1>2. CASE Dial(g)
  <2>1. /\ pc[g] = "open" /\ pc' = [pc EXCEPT ![g] = "token"] /\ UNCHANGED <<calls, stopped, closed>>
        /\ isOpen' /\ isOpen' \in BOOLEAN /\ connection' = connection + 1 /\ pingers' = pingers + 1
    BY <1>2 DEF Dial
  <2>2. ~isOpen /\ ~stopped
    BY <2>1, GoroutineCases DEF ConnectionInv, DialsClosed, StopLasts, OneOpener, Opening
  <2>3. TypeOK' /\ OneOpener' /\ PingerAlive'
    BY <2>1, GoroutineCases DEF ConnectionInv, TypeOK, OneOpener, Opening, MainStates,
         ListenerStates, Goroutines, PingerAlive
  <2>4. DialsClosed' /\ StopLasts'
    BY <2>1, <2>2, GoroutineCases DEF ConnectionInv, TypeOK, OneOpener, DialsClosed, StopLasts,
         Opening, Goroutines
  <2>5. ClosedBefore'
    <3>1. ASSUME NEW c \in 1 .. connection PROVE c \in closed
      BY <2>2 DEF ConnectionInv, TypeOK, ClosedBefore, NoLeakedConnection
    <3> QED
      BY <2>1, <3>1 DEF ConnectionInv, TypeOK, ClosedBefore, NoLeakedConnection
  <2> QED
    BY <2>3, <2>4, <2>5 DEF ConnectionInv
<1>3. CASE DialFails(g) \/ SendTokenFails(g)
  BY <1>3, RetryKeeps DEF DialFails, SendTokenFails
<1>4. CASE SendToken(g)
  <2>1. CASE g = "listener"
    <3>1. /\ pc["listener"] = "token" /\ pc' = [pc EXCEPT !["listener"] = "handlingNil"]
          /\ UNCHANGED <<socketVars, calls, stopped>>
      BY <1>4, <2>1 DEF SendToken
    <3>2. ~stopped /\ DOMAIN calls' = Goroutines
      BY <3>1 DEF ConnectionInv, StopLasts, TypeOK
    <3> QED
      BY <3>1, <3>2, ListenerMoves DEF ListenerStates
  <2>2. CASE g = "main"
    <3>1. /\ pc["main"] = "token"
          /\ pc' = [pc EXCEPT !["main"] = "waiting", !["listener"] = "reading"]
          /\ UNCHANGED <<socketVars, calls, stopped>>
      BY <1>4, <2>2 DEF SendToken
    <3>2. pc'["main"] = "waiting" /\ pc'["listener"] = "reading" /\ DOMAIN pc' = Goroutines
      BY <3>1 DEF ConnectionInv, TypeOK, Goroutines
    <3> QED
      BY <3>1, <3>2 DEF ConnectionInv, TypeOK, OneOpener, DialsClosed, ClosedBefore,
           NoLeakedConnection, StopLasts, PingerAlive, Opening, MainStates, ListenerStates,
           Goroutines, socketVars
  <2> QED
    BY <2>1, <2>2, GoroutineCases
<1> QED
  BY <1>1, <1>2, <1>3, <1>4 DEF Channel

\* The listener's own steps.
LEMMA ListenKeeps ==
    ASSUME ConnectionInv, Listen \/ HandlerFails
    PROVE  ConnectionInv'
<1> USE DEF ListenerStates
<1>1. DOMAIN calls = Goroutines
  BY DEF ConnectionInv, TypeOK
<1>2. CASE ReadOnClosed \/ ReadEOF
  <2>1. /\ pc["listener"] = "reading" /\ pc' = [pc EXCEPT !["listener"] = "eof"]
        /\ UNCHANGED <<socketVars, calls, stopped>>
    BY <1>2 DEF ReadOnClosed, ReadEOF
  <2> QED
    BY <1>1, <2>1, ListenerMoves
<1>3. CASE ReadFails
  <2>1. pc["listener"] = "reading" /\ isOpen /\ UNCHANGED <<socketVars, stopped>>
    BY <1>3 DEF ReadFails
  <2>2. ~stopped
    BY <2>1 DEF ConnectionInv, StopLasts
  <2>3. CASE StartReconnect
    <3>1. pc' = [pc EXCEPT !["listener"] = "refresh"] /\ DOMAIN calls' = Goroutines
      BY <1>1, <2>3 DEF StartReconnect
    <3> QED
      BY <2>1, <2>2, <3>1, ListenerMoves
  <2>4. CASE UNCHANGED <<pc, calls>>
    BY <2>1, <2>4 DEF ConnectionInv, TypeOK, OneOpener, DialsClosed, ClosedBefore,
         NoLeakedConnection, StopLasts, PingerAlive, socketVars
  <2> QED
    BY <1>3, <2>3, <2>4 DEF ReadFails
<1>4. CASE RefreshToken
  <2>1. /\ pc["listener"] = "refresh" /\ pc' = [pc EXCEPT !["listener"] = "reconnect"]
        /\ UNCHANGED <<socketVars, calls, stopped>>
    BY <1>4 DEF RefreshToken
  <2>2. ~stopped
    BY <2>1 DEF ConnectionInv, StopLasts
  <2> QED
    BY <1>1, <2>1, <2>2, ListenerMoves
<1>5. CASE RefreshFails
  BY <1>5, RetryKeeps DEF RefreshFails, Goroutines
<1>6. CASE HandleNil \/ HandlerFails
  <2>1. /\ pc["listener"] \in {"reading", "handlingNil"}
        /\ pc' = [pc EXCEPT !["listener"] = "shut"]
        /\ UNCHANGED <<socketVars, calls, stopped>>
    BY <1>6 DEF HandleNil, HandlerFails
  <2> QED
    BY <1>1, <2>1, ListenerMoves
<1>7. CASE Shut
  <2>1. /\ ~isOpen' /\ isOpen' \in BOOLEAN /\ connection' \in Nat /\ pingers' \in Nat
        /\ ClosedBefore' /\ PingerAlive'
    BY <1>7, CloseCloses DEF Shut
  <2>2. /\ pc["listener"] = "shut" /\ UNCHANGED <<calls, stopped>>
        /\ pc'["listener"] = "dead" /\ pc'["main"] = pc["main"] /\ DOMAIN pc' = Goroutines
    BY <1>7 DEF Shut, ConnectionInv, TypeOK, Goroutines
  <2> QED
    BY <2>1, <2>2 DEF ConnectionInv, TypeOK, OneOpener, DialsClosed, StopLasts, Goroutines
<1> QED
  BY <1>2, <1>3, <1>4, <1>5, <1>6, <1>7 DEF Listen

\* The stop handler closes the channel on the listener, while main runs.
LEMMA ChannelClosedKeeps ==
    ASSUME ConnectionInv, NEW ok \in BOOLEAN, ChannelClosed(ok)
    PROVE  ConnectionInv'
<1>1. /\ ~isOpen' /\ isOpen' \in BOOLEAN /\ connection' \in Nat /\ pingers' \in Nat
      /\ ClosedBefore' /\ PingerAlive'
  BY CloseCloses DEF ChannelClosed
<1>2. /\ pc["listener"] = "reading" /\ UNCHANGED calls
      /\ pc'["listener"] \in {"reading", "shut"} /\ pc'["main"] = pc["main"]
      /\ DOMAIN pc' = Goroutines
  BY DEF ChannelClosed, ConnectionInv, TypeOK, Goroutines
<1> QED
  BY <1>1, <1>2 DEF ConnectionInv, TypeOK, OneOpener, DialsClosed, StopLasts, ListenerStates,
       Goroutines

\* What is left: the session starts, a pinger ends, the connection breaks.
LEMMA OthersKeep ==
    ASSUME ConnectionInv, SessionRuns \/ PingerExits \/ ConnectionBreaks \/ UNCHANGED vars
    PROVE  ConnectionInv'
<1> USE DEF ConnectionInv
<1>1. CASE SessionRuns
  <2>1. /\ pc["main"] = "waiting" /\ pc'["main"] = "running" /\ pc'["listener"] = pc["listener"]
        /\ DOMAIN pc' = Goroutines /\ UNCHANGED <<socketVars, calls, stopped>>
    BY <1>1 DEF SessionRuns, TypeOK, Goroutines
  <2> QED
    BY <2>1 DEF TypeOK, OneOpener, DialsClosed, ClosedBefore, NoLeakedConnection, StopLasts,
         PingerAlive, Opening, MainStates, Goroutines, socketVars
<1>2. CASE PingerExits
  BY <1>2 DEF PingerExits, TypeOK, OneOpener, DialsClosed, ClosedBefore, NoLeakedConnection,
       StopLasts, PingerAlive
<1>3. CASE ConnectionBreaks
  BY <1>3 DEF ConnectionBreaks, TypeOK, OneOpener, DialsClosed, ClosedBefore,
       NoLeakedConnection, StopLasts, PingerAlive
<1>4. CASE UNCHANGED vars
  BY <1>4 DEF vars, socketVars, TypeOK, OneOpener, DialsClosed, ClosedBefore,
       NoLeakedConnection, StopLasts, PingerAlive
<1> QED
  BY <1>1, <1>2, <1>3, <1>4

-----------------------------------------------------------------------------
(* Connection: the theorems *)

\* Nothing is open at first.
LEMMA InitConnection == Init => ConnectionInv
<1> SUFFICES ASSUME Init PROVE ConnectionInv
  OBVIOUS
<1>1. /\ pc["main"] = "open" /\ pc["listener"] = "idle"
      /\ DOMAIN pc = Goroutines /\ DOMAIN calls = Goroutines
  BY DEF Init, Goroutines
<1>2. TypeOK
  BY <1>1 DEF Init, TypeOK, Opening, MainStates, ListenerStates
<1>3. OneOpener /\ DialsClosed
  BY <1>1 DEF Init, OneOpener, DialsClosed, Opening
<1>4. ClosedBefore
  BY DEF Init, ClosedBefore, NoLeakedConnection
<1>5. StopLasts /\ PingerAlive
  BY DEF Init, StopLasts, PingerAlive
<1> QED
  BY <1>2, <1>3, <1>4, <1>5 DEF ConnectionInv

\* One step per goroutine.
LEMMA NextConnection == ConnectionInv /\ [Next]_vars => ConnectionInv'
<1> SUFFICES ASSUME ConnectionInv, [Next]_vars PROVE ConnectionInv'
  OBVIOUS
<1>1. ASSUME NEW g \in Goroutines, Channel(g) PROVE ConnectionInv'
  BY <1>1, ChannelKeeps
<1>2. CASE Listen \/ HandlerFails
  BY <1>2, ListenKeeps
<1>3. ASSUME NEW ok \in BOOLEAN, ChannelClosed(ok) PROVE ConnectionInv'
  BY <1>3, ChannelClosedKeeps
<1>4. CASE SessionRuns \/ PingerExits \/ ConnectionBreaks \/ UNCHANGED vars
  BY <1>4, OthersKeep
<1> QED
  BY <1>1, <1>2, <1>3, <1>4 DEF Next

\* The invariant holds in every reachable state.
LEMMA ConnectionCorrect == Spec => []ConnectionInv
  BY InitConnection, NextConnection, PTL DEF Spec

\* However often the connection is lost and whichever attempt to resume it
\* fails, an open channel has a pinger (WebSocketChannel.Open, startPings).
THEOREM PingerAliveCorrect == Spec => []PingerAlive
<1>1. ConnectionInv => PingerAlive
  BY DEF ConnectionInv
<1> QED
  BY <1>1, ConnectionCorrect, PTL

\* Every connection but the current one has been closed, for any number of
\* attempts and of losses (DataChannel.Open, reconnect, Retryer.Call).
THEOREM NoLeakedConnectionCorrect == Spec => []NoLeakedConnection
<1>1. ConnectionInv => NoLeakedConnection
  BY DEF ConnectionInv, ClosedBefore
<1> QED
  BY <1>1, ConnectionCorrect, PTL

\* A channel that the stop handler has closed stays closed (ShellSession.Stop,
\* listen, ReadMessage).
THEOREM StoppedStaysClosedCorrect == Spec => []StoppedStaysClosed
<1>1. ConnectionInv => StoppedStaysClosed
  BY DEF ConnectionInv, StopLasts, StoppedStaysClosed
<1> QED
  BY <1>1, ConnectionCorrect, PTL

-----------------------------------------------------------------------------
(* Induction and recursion over the naturals *)

\* A nonempty set of naturals has a least element.
LEMMA LeastNatural ==
    ASSUME NEW I \in SUBSET Nat, I # {}
    PROVE  \E x \in I : \A i \in I : x <= i
<1> DEFINE R == {ss \in Nat \X Nat : ss[1] < ss[2]}
<1>1. IsWellFoundedOn(R, Nat)
  BY NatLessThanWellFounded DEF OpToRel
<1> HIDE DEF R
<1>2. PICK x \in I : \A y \in I : ~(<<y, x>> \in R)
  BY <1>1, WFMin
<1>3. ASSUME NEW y \in I
      PROVE  x <= y
  <2>1. <<y, x>>[1] = y /\ <<y, x>>[2] = x /\ <<y, x>> \in Nat \X Nat
    OBVIOUS
  <2>2. ~(y < x)
    BY <1>2, <2>1 DEF R
  <2> QED
    BY <2>2
<1> QED
  BY <1>3

\* A set with 0 and with the successor of each of its naturals has them all.
LEMMA AllNaturals ==
    ASSUME NEW S, 0 \in S, \A n \in Nat : n \in S => n + 1 \in S
    PROVE  \A n \in Nat : n \in S
<1> SUFFICES ASSUME Nat \ S # {} PROVE FALSE
  OBVIOUS
<1>1. PICK x \in Nat \ S : \A y \in Nat \ S : x <= y
  BY LeastNatural
<1>2. x # 0 /\ x - 1 \in Nat
  BY <1>1
<1>3. x - 1 \in S
  BY <1>1, <1>2
<1> QED
  BY <1>2, <1>3

\* The function g over the naturals starts with base and goes on with next.
Recursive(g, T, base, next) ==
    g \in [Nat -> T] /\ g[0] = base /\ \A n \in Nat : g[n + 1] = next[<<n, g[n]>>]

\* There is such a function.
LEMMA Recursion ==
    ASSUME NEW T, NEW base \in T, NEW next \in [Nat \X T -> T]
    PROVE  \E g : Recursive(g, T, base, next)
<1> DEFINE Start(h, n) == h[0] = base /\ \A i \in 0 .. (n - 1) : h[i + 1] = next[<<i, h[i]>>]
           Exists == {n \in Nat : \E h \in [0 .. n -> T] : Start(h, n)}
<1>1. \A n \in Nat : n \in Exists
  <2>1. 0 \in Exists
    <3>1. [i \in 0 .. 0 |-> base] \in [0 .. 0 -> T] /\ Start([i \in 0 .. 0 |-> base], 0)
      OBVIOUS
    <3> QED
      BY <3>1
  <2>2. ASSUME NEW n \in Nat, n \in Exists
        PROVE  n + 1 \in Exists
    <3>1. PICK h \in [0 .. n -> T] : Start(h, n)
      BY <2>2
    <3> DEFINE k == [i \in 0 .. (n + 1) |-> IF i = n + 1 THEN next[<<n, h[n]>>] ELSE h[i]]
    <3>2. h[n] \in T /\ next[<<n, h[n]>>] \in T
      BY <3>1
    <3>3. k \in [0 .. (n + 1) -> T]
      BY <3>1, <3>2
    <3>4. k[0] = base
      BY <3>1
    <3>5. ASSUME NEW i \in 0 .. ((n + 1) - 1) PROVE k[i + 1] = next[<<i, k[i]>>]
      <4>1. CASE i = n
        <5>1. k[n + 1] = next[<<n, h[n]>>] /\ k[n] = h[n]
          OBVIOUS
        <5> QED
          BY <4>1, <5>1
      <4>2. CASE i # n
        <5>1. i \in 0 .. (n - 1) /\ k[i + 1] = h[i + 1] /\ k[i] = h[i]
          BY <4>2
        <5> QED
          BY <3>1, <5>1
      <4> QED
        BY <4>1, <4>2
    <3>6. Start(k, n + 1)
      BY <3>4, <3>5
    <3> HIDE DEF Start, k
    <3> QED
      BY <3>3, <3>6
  <2> HIDE DEF Exists
  <2> QED
    BY <2>1, <2>2, AllNaturals
<1>2. ASSUME NEW n \in Nat, NEW m \in Nat, n <= m, NEW h \in [0 .. n -> T], NEW k \in [0 .. m -> T],
             Start(h, n), Start(k, m)
      PROVE  h[n] = k[n]
  <2> DEFINE Same == {i \in Nat : i <= n => h[i] = k[i]}
  <2>1. 0 \in Same
    BY <1>2
  <2>2. ASSUME NEW i \in Nat, i \in Same PROVE i + 1 \in Same
    <3>1. CASE i + 1 <= n
      <4>1. i \in 0 .. (n - 1) /\ i \in 0 .. (m - 1) /\ h[i] = k[i]
        BY <1>2, <2>2, <3>1
      <4>2. h[i + 1] = next[<<i, h[i]>>] /\ k[i + 1] = next[<<i, k[i]>>]
        BY <1>2, <4>1
      <4> QED
        BY <4>1, <4>2
    <3> QED
      BY <3>1
  <2> HIDE DEF Same
  <2>3. n \in Same
    BY <2>1, <2>2, AllNaturals
  <2> QED
    BY <2>3 DEF Same
<1> DEFINE H(n) == CHOOSE h \in [0 .. n -> T] : Start(h, n)
           g == [n \in Nat |-> H(n)[n]]
<1>3. \A n \in Nat : H(n) \in [0 .. n -> T] /\ Start(H(n), n)
  BY <1>1
<1> HIDE DEF H
<1>4. g \in [Nat -> T]
  BY <1>3
<1>5. g[0] = base
  BY <1>3
<1>6. ASSUME NEW n \in Nat PROVE g[n + 1] = next[<<n, g[n]>>]
  <2>1. H(n + 1)[n + 1] = next[<<n, H(n + 1)[n]>>]
    BY <1>3
  <2>2. H(n)[n] = H(n + 1)[n]
    <3>1. H(n) \in [0 .. n -> T] /\ Start(H(n), n)
      BY <1>3
    <3>2. H(n + 1) \in [0 .. (n + 1) -> T] /\ Start(H(n + 1), n + 1)
      BY <1>3
    <3> HIDE DEF Start
    <3> QED
      BY <3>1, <3>2, <1>2
  <2> QED
    BY <2>1, <2>2
<1>7. Recursive(g, T, base, next)
  BY <1>4, <1>5, <1>6 DEF Recursive
<1> QED
  BY <1>7

-----------------------------------------------------------------------------
(* Division *)

\* Multiplication keeps the order.
LEMMA TimesMonotone ==
    ASSUME NEW a \in Int, NEW b \in Int, NEW c \in Nat, a <= b
    PROVE  c * a \in Int /\ c * b \in Int /\ c * a <= c * b
  OBVIOUS

\* A quotient and a remainder are integers, and what they are of.
LEMMA DivMod ==
    ASSUME NEW a \in Int, NEW b \in Nat \ {0}
    PROVE  /\ a \div b \in Int
           /\ a % b \in 0 .. (b - 1)
           /\ a = b * (a \div b) + (a % b)
  OBVIOUS

\* There is only one quotient.
LEMMA DivUnique ==
    ASSUME NEW a \in Int, NEW b \in Nat \ {0}, NEW q \in Int, b * q <= a, a < b * q + b
    PROVE  a \div b = q
<1> DEFINE p == a \div b
<1>1. p \in Int /\ b * p \in Int /\ b * q \in Int
  BY DivMod
<1>2. b * p <= a /\ a < b * p + b
  BY DivMod, <1>1
<1> HIDE DEF p
<1>3. CASE p < q
  <2>1. b * (p + 1) <= b * q
    BY <1>1, <1>3, TimesMonotone
  <2>2. b * (p + 1) = b * p + b
    BY <1>1
  <2> QED
    BY <1>1, <1>2, <2>1, <2>2
<1>4. CASE q < p
  <2>1. b * (q + 1) <= b * p
    BY <1>1, <1>4, TimesMonotone
  <2>2. b * (q + 1) = b * q + b
    BY <1>1
  <2> QED
    BY <1>1, <1>2, <2>1, <2>2
<1> QED
  BY <1>1, <1>3, <1>4 DEF p

\* Dividing by two numbers one after the other is dividing by their product.
LEMMA DivDiv ==
    ASSUME NEW a \in Int, NEW b \in Nat \ {0}, NEW c \in Nat \ {0}
    PROVE  (a \div b) \div c = a \div (b * c)
<1> DEFINE q == a \div b
           r == q \div c
<1>1. q \in Int /\ b * q \in Int /\ b * q <= a /\ a < b * q + b
  BY DivMod
<1> HIDE DEF q
<1>2. r \in Int /\ c * r \in Int /\ c * r <= q /\ q + 1 <= c * r + c
  BY DivMod, <1>1
<1> HIDE DEF r
<1>3. b * (c * r) <= b * q
  BY <1>1, <1>2, TimesMonotone
<1>4. b * (q + 1) <= b * (c * r + c)
  BY <1>1, <1>2, TimesMonotone
<1>5. b * (c * r) = (b * c) * r /\ b * (c * r + c) = (b * c) * r + b * c /\ b * (q + 1) = b * q + b
  BY <1>1, <1>2
<1>6. b * c \in Nat \ {0} /\ (b * c) * r \in Int
  BY <1>2
<1>7. (b * c) * r <= a /\ a < (b * c) * r + b * c
  BY <1>1, <1>3, <1>4, <1>5, <1>6
<1> QED
  BY <1>2, <1>6, <1>7, DivUnique DEF q, r

\* A last digit is the remainder, and what is before it the quotient.
LEMMA LastDigit ==
    ASSUME NEW B \in Nat \ {0}, NEW x \in Nat, NEW d \in 0 .. (B - 1)
    PROVE  x * B + d \in Nat /\ (x * B + d) \div B = x /\ (x * B + d) % B = d
<1> DEFINE y == x * B + d
           m == y % B
<1>1. y \in Nat /\ B * x \in Int /\ y = B * x + d
  OBVIOUS
<1> HIDE DEF y
<1>2. y \div B = x
  BY <1>1, DivUnique
<1>3. m \in Int /\ y = B * x + m
  <2>1. m \in 0 .. (B - 1) /\ y = B * (y \div B) + m
    BY <1>1, DivMod
  <2>2. y = B * x + m
    BY <1>2, <2>1, Zenon
  <2> HIDE DEF m
  <2> QED
    BY <2>1, <2>2
<1> HIDE DEF m
<1>4. m = d
  BY <1>1, <1>3
<1> QED
  BY <1>1, <1>2, <1>4 DEF y, m

\* A digit more, of a number that is q * P too large without it.
LEMMA OneMoreDigit ==
    ASSUME NEW B \in Nat \ {0}, NEW w \in Int, NEW q \in Int, NEW P \in Int
    PROVE  ((w \div B) - q * P) * B + (w % B) = w - q * (B * P)
<1> DEFINE x == w \div B
           d == w % B
<1>1. x \in Int /\ d \in Int /\ w = B * x + d
  BY DivMod
<1> HIDE DEF x, d
<1>2. (x - q * P) * B + d = (B * x + d) - q * (B * P)
  BY <1>1
<1> QED
  BY <1>1, <1>2 DEF x, d

\* Whole multiples of the divisor change the quotient and not the remainder.
LEMMA DivShift ==
    ASSUME NEW v \in Int, NEW d \in Nat \ {0}, NEW c \in Int
    PROVE  /\ (v - c * d) \div d = (v \div d) - c
           /\ (v - c * d) % d = v % d
<1> DEFINE q == v \div d
           m == v % d
           y == v - c * d
<1>1. q \in Int /\ m \in 0 .. (d - 1) /\ v = d * q + m
  BY DivMod
<1> HIDE DEF q, m
<1>2. y \in Int /\ d * (q - c) \in Int /\ y = d * (q - c) + m
  BY <1>1
<1> HIDE DEF y
<1>3. y \div d = q - c
  BY <1>1, <1>2, DivUnique
<1> DEFINE r == y % d
<1>4. r \in Int /\ y = d * (q - c) + r
  <2>1. r \in 0 .. (d - 1) /\ y = d * (y \div d) + r
    BY <1>2, DivMod
  <2>2. y = d * (q - c) + r
    BY <1>3, <2>1, Zenon
  <2> HIDE DEF r
  <2> QED
    BY <2>1, <2>2
<1> HIDE DEF r
<1>5. r = m
  BY <1>1, <1>2, <1>4
<1> QED
  BY <1>3, <1>5 DEF y, q, m, r

-----------------------------------------------------------------------------
(* The value of the digits *)

\* Place is the function that its definition describes.
LEMMA PlaceDef ==
    /\ Place \in [Nat -> Nat \ {0}]
    /\ Place[0] = 1
    /\ \A k \in Nat : Place[k + 1] = Byte * Place[k]
<1> DEFINE T == Nat \ {0}
           next == [x \in Nat \X T |-> Byte * x[2]]
           Def(f) == [k \in Nat |-> IF k = 0 THEN 1 ELSE Byte * f[k - 1]]
<1>1. Byte \in Nat \ {0, 1}
  BY CodecAssumption
<1>2. next \in [Nat \X T -> T]
  <2>1. ASSUME NEW x \in Nat \X T PROVE Byte * x[2] \in T
    BY <1>1
  <2> QED
    BY <2>1
<1>3. PICK g : Recursive(g, T, 1, next)
  <2>1. 1 \in T
    OBVIOUS
  <2> HIDE DEF T, next
  <2> QED
    BY <1>2, <2>1, Recursion
<1> USE <1>3 DEF Recursive
<1>4. ASSUME NEW n \in Nat PROVE g[n + 1] = Byte * g[n]
  <2>1. <<n, g[n]>> \in Nat \X T /\ <<n, g[n]>>[2] = g[n]
    OBVIOUS
  <2> QED
    BY <1>3, <2>1
<1>5. g = Def(g)
  <2>1. ASSUME NEW k \in Nat PROVE g[k] = IF k = 0 THEN 1 ELSE Byte * g[k - 1]
    <3>1. CASE k = 0
      BY <1>3, <3>1
    <3>2. CASE k # 0
      <4>1. k - 1 \in Nat /\ (k - 1) + 1 = k
        BY <3>2
      <4> QED
        BY <1>4, <3>2, <4>1
    <3> QED
      BY <3>1, <3>2
  <2> QED
    BY <2>1
<1>6. Place = Def(Place)
  <2>1. Place = CHOOSE f : f = Def(f)
    BY DEF Place
  <2> HIDE DEF Def
  <2> QED
    BY <1>5, <2>1
<1>7. \A k \in Nat : Place[k] = IF k = 0 THEN 1 ELSE Byte * Place[k - 1]
  BY <1>6
<1>8. Place[0] = 1
  BY <1>7
<1>9. ASSUME NEW k \in Nat PROVE Place[k + 1] = Byte * Place[k]
  BY <1>7
<1>10. \A k \in Nat : Place[k] \in T
  <2> DEFINE S == {k \in Nat : Place[k] \in T}
  <2>1. 0 \in S
    BY <1>8
  <2>2. ASSUME NEW k \in Nat, k \in S PROVE k + 1 \in S
    BY <1>1, <1>9, <2>2
  <2> HIDE DEF S
  <2>3. \A k \in Nat : k \in S
    BY <2>1, <2>2, AllNaturals
  <2> QED
    BY <2>3 DEF S
<1>11. Place = [k \in Nat |-> Place[k]]
  BY <1>6
<1> QED
  BY <1>8, <1>9, <1>10, <1>11

\* Two runs of digits count the product of what each counts.
LEMMA PlaceSum ==
    ASSUME NEW a \in Nat, NEW c \in Nat
    PROVE  Place[a + c] = Place[a] * Place[c]
<1> DEFINE S == {n \in Nat : Place[a + n] = Place[a] * Place[n]}
<1>1. 0 \in S
  BY PlaceDef
<1>2. ASSUME NEW n \in Nat, n \in S PROVE n + 1 \in S
  <2>1. Place[a + (n + 1)] = Byte * Place[a + n] /\ Place[n + 1] = Byte * Place[n]
    <3>1. a + n \in Nat /\ a + (n + 1) = (a + n) + 1
      OBVIOUS
    <3> QED
      BY <3>1, PlaceDef
  <2>2. Byte \in Nat /\ Place[a] \in Nat /\ Place[n] \in Nat
    BY PlaceDef, CodecAssumption
  <2>3. Byte * (Place[a] * Place[n]) = Place[a] * (Byte * Place[n])
    BY <2>2
  <2> QED
    BY <1>2, <2>1, <2>3
<1> HIDE DEF S
<1>3. c \in S
  BY <1>1, <1>2, AllNaturals
<1> QED
  BY <1>3 DEF S

\* Taking one digit off.
LEMMA PlaceDiv ==
    ASSUME NEW v \in Int, NEW k \in Nat
    PROVE  (v \div Place[k]) \div Byte = v \div Place[k + 1]
<1>1. Place[k + 1] = Place[k] * Byte
  BY PlaceDef, CodecAssumption
<1>2. Place[k] \in Nat \ {0} /\ Byte \in Nat \ {0}
  BY PlaceDef, CodecAssumption
<1> QED
  BY <1>1, <1>2, DivDiv

\* u holds the values of the beginnings of b.
Horner(u, b) ==
    /\ u \in [0 .. Len(b) -> Nat]
    /\ u[0] = 0
    /\ \A i \in 1 .. Len(b) : u[i] = u[i - 1] * Byte + b[i]

\* Unsigned computes the last of them.
LEMMA UnsignedDef ==
    ASSUME NEW b \in Seq(Bytes)
    PROVE  \E u : Horner(u, b) /\ Unsigned(b) = u[Len(b)]
<1>0. Byte \in Nat /\ Len(b) \in Nat /\ \A i \in 1 .. Len(b) : b[i] \in Nat
  BY CodecAssumption DEF Bytes
<1> DEFINE next == [x \in Nat \X Nat |-> IF x[1] + 1 <= Len(b) THEN x[2] * Byte + b[x[1] + 1] ELSE 0]
           Def(f) == [i \in 0 .. Len(b) |-> IF i = 0 THEN 0 ELSE f[i - 1] * Byte + b[i]]
<1>1. next \in [Nat \X Nat -> Nat]
  <2>1. ASSUME NEW x \in Nat \X Nat
        PROVE  (IF x[1] + 1 <= Len(b) THEN x[2] * Byte + b[x[1] + 1] ELSE 0) \in Nat
    <3>1. x[1] \in Nat /\ x[2] \in Nat
      OBVIOUS
    <3>2. x[1] + 1 <= Len(b) => b[x[1] + 1] \in Nat
      BY <1>0, <3>1
    <3> QED
      BY <1>0, <3>1, <3>2
  <2> QED
    BY <2>1
<1>2. PICK g : Recursive(g, Nat, 0, next)
  <2>1. 0 \in Nat
    OBVIOUS
  <2> HIDE DEF next
  <2> QED
    BY <1>1, <2>1, Recursion
<1>3. g \in [Nat -> Nat] /\ g[0] = 0 /\ \A n \in Nat : g[n + 1] = next[<<n, g[n]>>]
  BY <1>2 DEF Recursive
<1>4. ASSUME NEW i \in 1 .. Len(b) PROVE g[i] = g[i - 1] * Byte + b[i]
  <2>1. i - 1 \in Nat /\ (i - 1) + 1 = i
    BY <1>0
  <2>2. g[i] = next[<<i - 1, g[i - 1]>>]
    BY <1>3, <2>1
  <2>3. <<i - 1, g[i - 1]>> \in Nat \X Nat /\ <<i - 1, g[i - 1]>>[1] = i - 1
            /\ <<i - 1, g[i - 1]>>[2] = g[i - 1]
    BY <1>3, <2>1
  <2> QED
    BY <1>0, <2>1, <2>2, <2>3
<1> DEFINE f == [i \in 0 .. Len(b) |-> g[i]]
<1>5. f = Def(f)
  <2>1. ASSUME NEW i \in 0 .. Len(b)
        PROVE  f[i] = IF i = 0 THEN 0 ELSE f[i - 1] * Byte + b[i]
    <3>1. CASE i = 0
      BY <1>3, <3>1
    <3>2. CASE i # 0
      <4>1. i \in 1 .. Len(b) /\ i - 1 \in 0 .. Len(b)
        BY <1>0, <3>2
      <4> QED
        BY <1>4, <3>2, <4>1
    <3> QED
      BY <3>1, <3>2
  <2> QED
    BY <2>1
<1> DEFINE u == CHOOSE h : h = Def(h)
<1>6. u = Def(u)
  <2> HIDE DEF Def, f
  <2> QED
    BY <1>5
<1>7. Unsigned(b) = u[Len(b)]
  BY DEF Unsigned
<1> HIDE DEF u
<1>8. \A i \in 0 .. Len(b) : u[i] = IF i = 0 THEN 0 ELSE u[i - 1] * Byte + b[i]
  BY <1>6
<1>9. u[0] = 0 /\ \A i \in 1 .. Len(b) : u[i] = u[i - 1] * Byte + b[i]
  BY <1>0, <1>8
<1>10. u \in [0 .. Len(b) -> Nat]
  <2> DEFINE S == {i \in Nat : i <= Len(b) => u[i] \in Nat}
  <2>1. 0 \in S
    BY <1>9
  <2>2. ASSUME NEW i \in Nat, i \in S PROVE i + 1 \in S
    <3>1. CASE i + 1 <= Len(b)
      <4>1. i + 1 \in 1 .. Len(b) /\ (i + 1) - 1 = i /\ u[i] \in Nat
        BY <1>0, <2>2, <3>1
      <4>2. u[i + 1] = u[i] * Byte + b[i + 1] /\ b[i + 1] \in Nat
        BY <1>0, <1>9, <4>1
      <4>3. u[i] * Byte \in Nat
        BY <1>0, <4>1
      <4> QED
        BY <4>2, <4>3
    <3> QED
      BY <3>1
  <2> HIDE DEF S
  <2>3. \A i \in Nat : i \in S
    BY <2>1, <2>2, AllNaturals
  <2>4. \A i \in 0 .. Len(b) : u[i] \in Nat
    BY <1>0, <2>3 DEF S
  <2>5. u = [i \in 0 .. Len(b) |-> u[i]]
    BY <1>6
  <2> QED
    BY <2>4, <2>5
<1> QED
  BY <1>7, <1>9, <1>10 DEF Horner

\* The writer's result is bytes.
LEMMA ToBytesType ==
    ASSUME NEW v \in Int, NEW n \in Nat
    PROVE  /\ ToBytes(v, n) \in [1 .. n -> Bytes]
           /\ ToBytes(v, n) \in Seq(Bytes)
           /\ Len(ToBytes(v, n)) = n
<1>1. ASSUME NEW i \in 1 .. n PROVE (v \div Place[n - i]) % Byte \in Bytes
  <2>1. n - i \in Nat /\ Byte \in Nat \ {0}
    BY CodecAssumption
  <2>2. Place[n - i] \in Nat \ {0}
    BY <2>1, PlaceDef
  <2>3. v \div Place[n - i] \in Int
    BY <2>2, DivMod
  <2> QED
    BY <2>1, <2>3, DivMod DEF Bytes
<1>2. ToBytes(v, n) \in [1 .. n -> Bytes]
  BY <1>1 DEF ToBytes
<1> QED
  BY <1>2

\* bytesToInteger and bytesToLong (readers.go) return the number that
\* IntegerToBytes and PutLong (writers.go) were given: for every number in
\* the range of a signed integer of n bytes, of whatever size a byte is.
THEOREM ReadWritten ==
    ASSUME NEW n \in Nat, NEW H \in Nat \ {0}, 2 * H = Place[n], NEW v \in (-H) .. (H - 1)
    PROVE  FromBytes(ToBytes(v, n)) = v
<1> DEFINE b == ToBytes(v, n)
           q == v \div Place[n]
<1>1. b \in Seq(Bytes) /\ Len(b) = n /\ v \in Int
  BY ToBytesType
<1>2. PICK u : Horner(u, b) /\ Unsigned(b) = u[n]
  BY <1>1, UnsignedDef
<1>3. q \in Int
  BY PlaceDef, DivMod
<1>4. \A i \in 1 .. n : b[i] = (v \div Place[n - i]) % Byte
  BY DEF ToBytes
<1> HIDE DEF b, q
<1> DEFINE S == {i \in Nat : i <= n => u[i] = (v \div Place[n - i]) - q * Place[i]}
<1>5. 0 \in S
  BY <1>2, <1>3, PlaceDef DEF Horner, q
<1>6. ASSUME NEW i \in Nat, i \in S PROVE i + 1 \in S
  <2> SUFFICES ASSUME i + 1 <= n
               PROVE  u[i + 1] = (v \div Place[n - (i + 1)]) - q * Place[i + 1]
    OBVIOUS
  <2> DEFINE k == n - (i + 1)
             w == v \div Place[k]
  <2>1. k \in Nat /\ n - i = k + 1 /\ i + 1 \in 1 .. n /\ (i + 1) - 1 = i
    OBVIOUS
  <2>2. w \in Int /\ Byte \in Nat \ {0} /\ Place[i] \in Int /\ Place[i + 1] = Byte * Place[i]
    <3>1. Place[k] \in Nat \ {0} /\ Place[i] \in Nat \ {0} /\ Place[i + 1] = Byte * Place[i]
      BY <2>1, PlaceDef
    <3>2. w \in Int
      BY <1>1, <3>1, DivMod
    <3>3. Byte \in Nat \ {0}
      BY CodecAssumption
    <3> HIDE DEF w
    <3> QED
      BY <3>1, <3>2, <3>3
  <2>3. w \div Byte = v \div Place[n - i]
    BY <1>1, <2>1, PlaceDiv
  <2>4. b[i + 1] = w % Byte
    BY <1>4, <2>1
  <2>5. u[i + 1] = u[i] * Byte + b[i + 1]
    BY <1>1, <1>2, <2>1 DEF Horner
  <2>6. u[i] = (w \div Byte) - q * Place[i]
    BY <1>6, <2>3
  <2> HIDE DEF w
  <2>7. ((w \div Byte) - q * Place[i]) * Byte + (w % Byte) = w - q * (Byte * Place[i])
    BY <1>3, <2>2, OneMoreDigit, Zenon
  <2>8. u[i + 1] = w - q * Place[i + 1]
    BY <2>2, <2>4, <2>5, <2>6, <2>7
  <2> QED
    BY <2>8 DEF w
<1> HIDE DEF S
<1>7. n \in S
  BY <1>5, <1>6, AllNaturals
<1>8. u[n] = v - q * Place[n]
  <2>1. Place[n - n] = 1 /\ v \div 1 = v
    BY <1>1, PlaceDef
  <2> QED
    BY <1>7, <2>1 DEF S
<1>9. CASE v >= 0
  <2>1. q = 0
    BY <1>9, DivUnique DEF q
  <2>2. u[n] = v
    BY <1>8, <2>1
  <2> QED
    BY <1>1, <1>2, <1>9, <2>2 DEF FromBytes, b
<1>10. CASE v < 0
  <2>1. q = -1
    BY <1>10, DivUnique DEF q
  <2>2. u[n] = v + 2 * H
    BY <1>8, <2>1
  <2> QED
    BY <1>1, <1>2, <1>10, <2>2 DEF FromBytes, b
<1> QED
  BY <1>9, <1>10

\* And the writers restore the bytes that a reader has made a number of, as
\* PutUUID and GetUUID rely on: for all bytes.
THEOREM WrittenRead ==
    ASSUME NEW n \in Nat, NEW b \in [1 .. n -> Bytes]
    PROVE  FromBytes(b) \in Int /\ ToBytes(FromBytes(b), n) = b
<1>1. b \in Seq(Bytes) /\ Len(b) = n /\ \A i \in 1 .. n : b[i] \in Bytes
  OBVIOUS
<1>2. PICK u : Horner(u, b) /\ Unsigned(b) = u[n]
  BY <1>1, UnsignedDef
<1>3. u \in [0 .. n -> Nat] /\ \A i \in 1 .. n : u[i] = u[i - 1] * Byte + b[i]
  BY <1>1, <1>2 DEF Horner
<1>4. Byte \in Nat \ {0} /\ Place[n] \in Nat
  BY PlaceDef, CodecAssumption
<1>5. ASSUME NEW i \in 1 .. n
      PROVE  u[i] \div Byte = u[i - 1] /\ u[i] % Byte = b[i]
  <2>1. u[i - 1] \in Nat /\ b[i] \in 0 .. (Byte - 1)
    BY <1>1, <1>3 DEF Bytes
  <2>2. (u[i - 1] * Byte + b[i]) \div Byte = u[i - 1] /\ (u[i - 1] * Byte + b[i]) % Byte = b[i]
    <3>1. u[i - 1] \in Int
      BY <2>1
    <3> QED
      BY <1>4, <2>1, <3>1, LastDigit, Zenon
  <2>3. u[i] = u[i - 1] * Byte + b[i]
    BY <1>3
  <2> QED
    BY <2>2, <2>3, Zenon
<1> DEFINE S == {k \in Nat : k <= n => u[n] \div Place[k] = u[n - k]}
<1>6. 0 \in S
  BY <1>3, PlaceDef
<1>7. ASSUME NEW k \in Nat, k \in S PROVE k + 1 \in S
  <2> SUFFICES ASSUME k + 1 <= n PROVE u[n] \div Place[k + 1] = u[n - (k + 1)]
    OBVIOUS
  <2>1. n - k \in 1 .. n /\ (n - k) - 1 = n - (k + 1) /\ u[n] \in Int
    BY <1>3
  <2>2. u[n] \div Place[k + 1] = (u[n] \div Place[k]) \div Byte
    BY <2>1, PlaceDiv
  <2> QED
    BY <1>5, <1>7, <2>1, <2>2
<1> HIDE DEF S
<1>8. \A k \in Nat : k \in S
  BY <1>6, <1>7, AllNaturals
<1>9. \A k \in 0 .. n : u[n] \div Place[k] = u[n - k]
  BY <1>8 DEF S
<1>10. FromBytes(b) = u[n] \/ FromBytes(b) = u[n] - Place[n]
  BY <1>1, <1>2 DEF FromBytes
<1>11. ASSUME NEW v \in Int, v = u[n] \/ v = u[n] - Place[n], NEW i \in 1 .. n
       PROVE  (v \div Place[n - i]) % Byte = b[i]
  <2> DEFINE k == n - i
  <2>1. k \in 0 .. n /\ n - k = i /\ i - 1 \in Nat /\ k \in Nat /\ u[i] \in Nat /\ u[n] \in Nat
    BY <1>3
  <2>2. CASE v = u[n]
    BY <1>5, <1>9, <2>1, <2>2
  <2>3. CASE v = u[n] - Place[n]
    <3> DEFINE p == Place[i - 1]
               d == Place[k]
    <3>1. p \in Nat /\ d \in Nat \ {0}
      BY <2>1, PlaceDef
    <3>2. Place[n] = (Byte * p) * d
      <4>1. Place[i] = Byte * p
        BY <2>1, PlaceDef
      <4>2. Place[n] = Place[i] * d
        <5>1. i \in Nat /\ i + k = n
          BY <2>1
        <5> QED
          BY <2>1, <5>1, PlaceSum
      <4> QED
        BY <4>1, <4>2
    <3>3. u[n] \div d = u[i]
      BY <1>9, <2>1
    <3>4. Byte * p \in Int /\ u[n] \in Int /\ u[i] \in Int
      BY <1>4, <2>1, <3>1
    <3>5. v \div d = u[i] - Byte * p
      <4> DEFINE c == Byte * p
      <4>1. c \in Int
        BY <3>4
      <4> HIDE DEF c, d
      <4>2. (u[n] - c * d) \div d = (u[n] \div d) - c
        BY <3>1, <3>4, <4>1, DivShift
      <4>3. v = u[n] - c * d
        BY <2>3, <3>2, Zenon DEF c
      <4> QED
        BY <3>3, <4>2, <4>3, Zenon DEF c
    <3>6. Byte * p = p * Byte /\ p \in Int
      BY <1>4, <3>1
    <3>7. (u[i] - p * Byte) % Byte = u[i] % Byte
      BY <1>4, <3>4, <3>6, DivShift
    <3> QED
      BY <1>5, <3>5, <3>6, <3>7
  <2> QED
    BY <1>11, <2>2, <2>3
<1>12. FromBytes(b) \in Int
  BY <1>3, <1>4, <1>10
<1>13. \A i \in 1 .. n : (FromBytes(b) \div Place[n - i]) % Byte = b[i]
  BY <1>10, <1>11, <1>12
<1>14. ToBytes(FromBytes(b), n) = [i \in 1 .. n |-> b[i]]
  BY <1>13 DEF ToBytes
<1> QED
  BY <1>12, <1>14

-----------------------------------------------------------------------------
(* Strings *)

\* The greatest element of a set of integers.
LEMMA MaxIs ==
    ASSUME NEW S, NEW k \in S, \A i \in S : i \in Int /\ i <= k
    PROVE  Max(S) = k
<1> DEFINE x == Max(S)
<1>1. \E j \in S : \A y \in S : j >= y
  OBVIOUS
<1>2. x \in S /\ \A y \in S : x >= y
  BY <1>1, Zenon DEF Max
<1> HIDE DEF x
<1>3. x = k
  BY <1>2
<1> QED
  BY <1>3 DEF x

\* The least one.
LEMMA MinIs ==
    ASSUME NEW S, NEW k \in S, \A i \in S : i \in Int /\ k <= i
    PROVE  Min(S) = k
<1> DEFINE x == Min(S)
<1>1. \E j \in S : \A y \in S : j =< y
  OBVIOUS
<1>2. x \in S /\ \A y \in S : x =< y
  BY <1>1, Zenon DEF Min
<1> HIDE DEF x
<1>3. x = k
  BY <1>2
<1> QED
  BY <1>3 DEF x

\* Trim returns the bytes up to the last one outside the set.
LEMMA TrimEnd ==
    ASSUME NEW b \in Seq(Bytes), NEW set, NEW k \in 1 .. Len(b),
           b[1] \notin set, b[k] \notin set, \A i \in (k + 1) .. Len(b) : b[i] \in set
    PROVE  Trim(b, set) = SubSeq(b, 1, k)
<1> DEFINE kept == {i \in DOMAIN b : b[i] \notin set}
<1>1. 1 \in kept /\ k \in kept /\ \A i \in kept : i \in Int /\ 1 <= i /\ i <= k
  OBVIOUS
<1> HIDE DEF kept
<1>2. Min(kept) = 1
  BY <1>1, MinIs
<1>3. Max(kept) = k
  BY <1>1, MaxIs
<1>4. kept # {}
  BY <1>1
<1> QED
  BY <1>2, <1>3, <1>4, Zenon DEF Trim, kept

\* A string in a field of MessageTypeLength bytes.
Padded(s) == [i \in 1 .. MessageTypeLength |-> IF i <= Len(s) THEN s[i] ELSE Space]

\* PutString's bytes are the string and its padding.
LEMMA PaddedIs ==
    ASSUME NEW s \in Seq(Bytes), Len(s) <= MessageTypeLength
    PROVE  /\ Padded(s) \in Seq(Bytes) /\ Len(Padded(s)) = MessageTypeLength
           /\ Padded(s) = s \o [i \in 1 .. (MessageTypeLength - Len(s)) |-> Space]
<1> DEFINE pad == [i \in 1 .. (MessageTypeLength - Len(s)) |-> Space]
<1>1. Byte \in Nat \ {0, 1} /\ MessageTypeLength \in Nat /\ Space \in Bytes /\ Len(s) \in Nat
  BY CodecAssumption DEF Bytes, Space
<1>2. pad \in Seq(Bytes) /\ Len(pad) = MessageTypeLength - Len(s)
  BY <1>1
<1>3. \A i \in 1 .. MessageTypeLength : Padded(s)[i] \in Bytes
  BY <1>1 DEF Padded
<1>4. Padded(s) \in [1 .. MessageTypeLength -> Bytes]
  BY <1>3 DEF Padded
<1>5. Padded(s) \in Seq(Bytes) /\ Len(Padded(s)) = MessageTypeLength
  BY <1>1, <1>4
<1>6. \A i \in 1 .. (MessageTypeLength - Len(s)) : pad[i] = Space
  OBVIOUS
<1> HIDE DEF pad
<1>7. s \o pad \in Seq(Bytes) /\ Len(s \o pad) = MessageTypeLength
  BY <1>1, <1>2
<1>8. ASSUME NEW i \in 1 .. MessageTypeLength PROVE Padded(s)[i] = (s \o pad)[i]
  <2>1. CASE i <= Len(s)
    BY <1>1, <1>2, <2>1 DEF Padded
  <2>2. CASE i > Len(s)
    <3>1. (s \o pad)[i] = pad[i - Len(s)] /\ i - Len(s) \in 1 .. (MessageTypeLength - Len(s))
      BY <1>1, <1>2, <2>2
    <3> QED
      BY <1>1, <1>6, <2>2, <3>1 DEF Padded
  <2>3. i <= Len(s) \/ i > Len(s)
    BY <1>1
  <2> QED
    BY <2>1, <2>2, <2>3, Zenon
<1>9. Padded(s) = s \o pad
  <2> HIDE DEF Padded
  <2> QED
    BY <1>5, <1>7, <1>8, SeqEqual
<1> QED
  BY <1>5, <1>9 DEF pad

\* GetString takes the padding off, and nothing of the string.
LEMMA TrimPadded ==
    ASSUME NEW s \in Seq(Bytes), Len(s) <= MessageTypeLength,
           s # <<>> => {s[1], s[Len(s)]} \cap {Nul, Space} = {}
    PROVE  Trim(Trim(Padded(s), {Nul}), {Space}) = s
<1> DEFINE b == Padded(s)
           L == MessageTypeLength
<1>1. b \in Seq(Bytes) /\ Len(b) = L /\ L \in Nat \ {0} /\ Len(s) \in Nat /\ Space # Nul
  <2>1. b \in Seq(Bytes) /\ Len(b) = L
    BY PaddedIs, Zenon
  <2>2. L \in Nat \ {0} /\ Len(s) \in Nat /\ Space # Nul
    BY CodecAssumption DEF Space, Nul
  <2> QED
    BY <2>1, <2>2
<1>2. \A i \in 1 .. L : b[i] = IF i <= Len(s) THEN s[i] ELSE Space
  BY DEF Padded
<1> HIDE DEF b
<1>3. SubSeq(b, 1, L) = b
  BY <1>1
<1>4. s # <<>> => Len(s) \in 1 .. L /\ s[1] \notin {Nul, Space} /\ s[Len(s)] \notin {Nul, Space}
  <2> SUFFICES ASSUME s # <<>>
               PROVE  Len(s) \in 1 .. L /\ s[1] \notin {Nul, Space} /\ s[Len(s)] \notin {Nul, Space}
    OBVIOUS
  <2>1. Len(s) \in 1 .. L
    BY <1>1
  <2>2. s[1] \notin {Nul, Space} /\ s[Len(s)] \notin {Nul, Space}
    BY Zenon
  <2> QED
    BY <2>1, <2>2
<1>5. b[1] \notin {Nul} /\ b[L] \notin {Nul}
  <2>1. CASE s = <<>>
    BY <1>1, <1>2, <2>1
  <2>2. CASE s # <<>>
    BY <1>1, <1>2, <1>4, <2>2
  <2> QED
    BY <2>1, <2>2
<1>6. Trim(b, {Nul}) = b
  <2>1. L \in 1 .. Len(b) /\ \A i \in (L + 1) .. Len(b) : b[i] \in {Nul}
    BY <1>1
  <2> QED
    BY <1>1, <1>3, <1>5, <2>1, TrimEnd
<1>7. CASE s = <<>>
  <2>1. \A i \in DOMAIN b : b[i] = Space
    BY <1>1, <1>2, <1>7
  <2>2. {i \in DOMAIN b : b[i] \notin {Space}} = {}
    BY <2>1
  <2>3. Trim(b, {Space}) = <<>>
    BY <2>2, Zenon DEF Trim
  <2> QED
    BY <1>6, <1>7, <2>3 DEF b
<1>8. CASE s # <<>>
  <2> DEFINE k == Len(s)
  <2>1. k \in 1 .. Len(b) /\ b[1] \notin {Space} /\ b[k] \notin {Space}
    BY <1>1, <1>2, <1>4, <1>8
  <2>2. \A i \in (k + 1) .. Len(b) : b[i] \in {Space}
    BY <1>1, <1>2
  <2>3. Trim(b, {Space}) = SubSeq(b, 1, k)
    BY <1>1, <2>1, <2>2, TrimEnd
  <2>4. SubSeq(b, 1, k) = s
    <3>1. SubSeq(b, 1, k) \in Seq(Bytes) /\ Len(SubSeq(b, 1, k)) = k
      BY <1>1, <2>1
    <3>2. \A i \in 1 .. k : SubSeq(b, 1, k)[i] = s[i]
      BY <1>1, <1>2, <2>1
    <3> QED
      BY <3>1, <3>2
  <2> QED
    BY <1>6, <2>3, <2>4 DEF b
<1> QED
  BY <1>7, <1>8

-----------------------------------------------------------------------------
(* Where a write stands in the frame *)

\* The bytes q are in b, from the offset at.
Holds(b, at, q) == at + Len(q) <= Len(b) /\ \A i \in 1 .. Len(q) : b[at + i] = q[i]

\* Bytes that are in a frame can be cut out of it.
LEMMA HoldsSub ==
    ASSUME NEW b \in Seq(Bytes), NEW q \in Seq(Bytes), NEW at \in Nat, Holds(b, at, q)
    PROVE  SubSeq(b, at + 1, at + Len(q)) = q
<1> DEFINE r == SubSeq(b, at + 1, at + Len(q))
<1>1. r \in Seq(Bytes) /\ Len(r) = Len(q)
  BY DEF Holds
<1>2. \A i \in 1 .. Len(q) : r[i] = q[i]
  BY DEF Holds
<1> HIDE DEF r
<1>3. r = q
  BY <1>1, <1>2, SeqEqual
<1> QED
  BY <1>3 DEF r

\* The first bytes of a frame are p, the next ones q.
LEMMA Extend ==
    ASSUME NEW b \in Seq(Bytes), NEW p \in Seq(Bytes), NEW q \in Seq(Bytes),
           SubSeq(b, 1, Len(p)) = p, Holds(b, Len(p), q)
    PROVE  /\ p \o q \in Seq(Bytes) /\ Len(p \o q) = Len(p) + Len(q)
           /\ SubSeq(b, 1, Len(p \o q)) = p \o q
<1> DEFINE k == Len(p)
           n == Len(p) + Len(q)
<1>1. k \in Nat /\ Len(q) \in Nat /\ n \in Nat /\ n <= Len(b) /\ Len(b) \in Nat
  BY DEF Holds
<1>2. SubSeq(b, k + 1, n) = q
  BY <1>1, HoldsSub
<1>3. 1 \in 1 .. (Len(b) + 1) /\ k \in (1 - 1) .. Len(b) /\ n \in k .. Len(b)
  BY <1>1
<1>4. SubSeq(b, 1, k) \o SubSeq(b, k + 1, n) = SubSeq(b, 1, n)
  BY <1>3, ConcatAdjacentSubSeq, Zenon
<1>5. p \o q \in Seq(Bytes) /\ Len(p \o q) = n
  BY ConcatProperties
<1> QED
  BY <1>2, <1>4, <1>5, Zenon

\* Of two parts that are in a frame, each is.
LEMMA HoldsHalves ==
    ASSUME NEW b \in Seq(Bytes), NEW p \in Seq(Bytes), NEW q \in Seq(Bytes), NEW at \in Nat,
           Holds(b, at, p \o q)
    PROVE  Holds(b, at, p) /\ Holds(b, at + Len(p), q)
<1>1. /\ Len(p \o q) = Len(p) + Len(q)
      /\ \A i \in 1 .. (Len(p) + Len(q)) : (p \o q)[i] = IF i <= Len(p) THEN p[i] ELSE q[i - Len(p)]
  BY ConcatProperties
<1>2. Len(p) \in Nat /\ Len(q) \in Nat /\ Len(b) \in Nat
  OBVIOUS
<1>3. at + (Len(p) + Len(q)) <= Len(b)
  BY <1>1 DEF Holds
<1>4. \A i \in 1 .. (Len(p) + Len(q)) : b[at + i] = (p \o q)[i]
  BY <1>1 DEF Holds
<1>5. ASSUME NEW i \in 1 .. Len(p) PROVE b[at + i] = p[i]
  BY <1>1, <1>2, <1>4
<1>6. ASSUME NEW i \in 1 .. Len(q) PROVE b[(at + Len(p)) + i] = q[i]
  <2>1. /\ Len(p) + i \in 1 .. (Len(p) + Len(q)) /\ ~(Len(p) + i <= Len(p))
        /\ (Len(p) + i) - Len(p) = i /\ at + (Len(p) + i) = (at + Len(p)) + i
    BY <1>2
  <2>2. (p \o q)[Len(p) + i] = q[(Len(p) + i) - Len(p)]
    BY <1>1, <2>1, Zenon
  <2>3. b[at + (Len(p) + i)] = (p \o q)[Len(p) + i]
    BY <1>4, <2>1, Zenon
  <2> QED
    BY <2>1, <2>2, <2>3, Zenon
<1> QED
  BY <1>2, <1>3, <1>5, <1>6 DEF Holds

\* Writes that follow on each other leave their bytes in the frame.
LEMMA WritesStand ==
    ASSUME NEW K \in Nat, NEW w, DOMAIN w = 1 .. K, NEW n \in Nat,
           \A k \in 1 .. K : /\ w[k].at \in Nat /\ w[k].bytes \in Seq(Bytes)
                             /\ w[k].at + Len(w[k].bytes) <= n,
           \A k \in 1 .. (K - 1) : w[k].at + Len(w[k].bytes) = w[k + 1].at
    PROVE  /\ Written(w, n) \in Seq(Bytes)
           /\ Len(Written(w, n)) = n
           /\ \A k \in 1 .. K : Holds(Written(w, n), w[k].at, w[k].bytes)
<1> DEFINE at == [k \in 1 .. K |-> w[k].at]
           b == [k \in 1 .. K |-> w[k].bytes]
           end == [k \in 1 .. K |-> w[k].at + Len(w[k].bytes)]
           Here(i) == {k \in DOMAIN w : i - w[k].at \in DOMAIN w[k].bytes}
           f == Written(w, n)
<1>1. ASSUME NEW k \in 1 .. K
      PROVE  /\ at[k] = w[k].at /\ b[k] = w[k].bytes
             /\ at[k] \in Nat /\ b[k] \in Seq(Bytes) /\ Len(b[k]) \in Nat
             /\ end[k] = at[k] + Len(b[k]) /\ end[k] <= n
             /\ DOMAIN b[k] = 1 .. Len(b[k])
  <2>1. at[k] = w[k].at /\ b[k] = w[k].bytes /\ end[k] = w[k].at + Len(w[k].bytes)
    OBVIOUS
  <2>2. w[k].at \in Nat /\ w[k].bytes \in Seq(Bytes) /\ w[k].at + Len(w[k].bytes) <= n
    OBVIOUS
  <2>3. Len(w[k].bytes) \in Nat /\ DOMAIN w[k].bytes = 1 .. Len(w[k].bytes)
    BY <2>2, LenProperties
  <2> QED
    BY <2>1, <2>2, <2>3, Zenon
<1>2. \A k \in 1 .. (K - 1) : end[k] = at[k + 1]
  OBVIOUS
<1>3. ASSUME NEW i \in 1 .. n
      PROVE  Here(i) = {k \in 1 .. K : at[k] < i /\ i <= end[k]}
  BY <1>1
<1> HIDE DEF at, end, b
<1>0. \A k \in 1 .. K : at[k] \in Nat /\ end[k] \in Nat /\ at[k] <= end[k]
  <2> TAKE k \in 1 .. K
  <2> DEFINE l == Len(b[k])
  <2>1. at[k] \in Nat /\ l \in Nat /\ end[k] = at[k] + l
    BY <1>1
  <2> HIDE DEF l
  <2> QED
    BY <2>1
<1>4. \A j, k \in 1 .. K : j < k => end[j] <= at[k]
  <2> DEFINE S == {d \in Nat : \A j \in 1 .. K : j + d + 1 <= K => end[j] <= at[j + d + 1]}
  <2>1. 0 \in S
    BY <1>1, <1>2
  <2>2. ASSUME NEW d \in Nat, d \in S PROVE d + 1 \in S
    <3> SUFFICES ASSUME NEW j \in 1 .. K, j + (d + 1) + 1 <= K
                 PROVE  end[j] <= at[j + (d + 1) + 1]
      OBVIOUS
    <3> DEFINE k == j + d + 1
    <3>1. k \in 1 .. (K - 1) /\ k \in 1 .. K /\ k + 1 \in 1 .. K /\ k + 1 = j + (d + 1) + 1
      OBVIOUS
    <3>2. end[j] <= at[k]
      BY <2>2, <3>1
    <3>3. end[k] = at[k + 1]
      BY <1>2, <3>1
    <3> HIDE DEF k
    <3>4. end[j] <= at[k + 1]
      BY <1>0, <3>1, <3>2, <3>3
    <3> QED
      BY <3>1, <3>4
  <2> HIDE DEF S
  <2>3. \A d \in Nat : d \in S
    BY <2>1, <2>2, AllNaturals
  <2> SUFFICES ASSUME NEW j \in 1 .. K, NEW k \in 1 .. K, j < k PROVE end[j] <= at[k]
    OBVIOUS
  <2>4. k - j - 1 \in S /\ j + (k - j - 1) + 1 = k
    BY <2>3
  <2> QED
    BY <2>4 DEF S
<1> HIDE DEF Here
<1>5. ASSUME NEW i \in 1 .. n, NEW k \in Here(i) PROVE Here(i) = {k}
  <2>1. k \in 1 .. K /\ at[k] < i /\ i <= end[k]
    BY <1>3
  <2>2. ASSUME NEW j \in Here(i) PROVE j = k
    <3>1. j \in 1 .. K /\ at[j] < i /\ i <= end[j]
      BY <1>3
    <3>2. ~(j < k) /\ ~(k < j)
      BY <1>0, <1>4, <2>1, <3>1
    <3> QED
      BY <2>1, <3>1, <3>2
  <2> QED
    BY <2>2
<1>6. ASSUME NEW i \in 1 .. n, NEW k \in Here(i) PROVE f[i] = b[k][i - at[k]]
  <2>1. Here(i) = {k} /\ k \in 1 .. K
    BY <1>3, <1>5
  <2>2. Max(Here(i)) = k
    <3>1. \A j \in Here(i) : j \in Int /\ j <= k
      BY <2>1
    <3> QED
      BY <3>1, MaxIs
  <2>3. f[i] = IF Here(i) = {} THEN 0 ELSE w[Max(Here(i))].bytes[i - w[Max(Here(i))].at]
    BY DEF Written, Here
  <2>4. f[i] = w[k].bytes[i - w[k].at]
    BY <2>1, <2>2, <2>3, Zenon
  <2>5. at[k] = w[k].at /\ b[k] = w[k].bytes
    BY <1>1, <2>1
  <2> QED
    BY <2>4, <2>5, Zenon
<1>7. ASSUME NEW i \in 1 .. n PROVE f[i] \in Bytes
  <2>1. CASE Here(i) = {}
    <3>1. f[i] = 0
      BY <2>1 DEF Written, Here
    <3> QED
      BY <3>1, CodecAssumption DEF Bytes
  <2>2. ASSUME NEW k \in Here(i) PROVE f[i] \in Bytes
    <3> DEFINE l == Len(b[k])
    <3>1. k \in 1 .. K /\ at[k] < i /\ i <= end[k]
      BY <1>3
    <3>2. at[k] \in Nat /\ l \in Nat /\ end[k] = at[k] + l /\ b[k] \in Seq(Bytes)
      BY <1>1, <3>1
    <3>3. i - at[k] \in 1 .. l
      <4> HIDE DEF l
      <4> QED
        BY <3>1, <3>2
    <3>4. b[k][i - at[k]] \in Bytes
      BY <3>2, <3>3, ElementOfSeq
    <3> QED
      BY <1>6, <3>4
  <2> QED
    BY <2>1, <2>2
<1>8. f \in [1 .. n -> Bytes]
  <2>1. f = [i \in 1 .. n |-> f[i]]
    BY DEF Written
  <2> HIDE DEF f
  <2> QED
    BY <1>7, <2>1
<1> HIDE DEF f
<1>9. f \in Seq(Bytes) /\ Len(f) = n
  BY <1>8
<1>10. ASSUME NEW k \in 1 .. K PROVE Holds(f, at[k], b[k])
  <2>1. ASSUME NEW i \in 1 .. Len(b[k]) PROVE f[at[k] + i] = b[k][i]
    <3>1. at[k] + i \in 1 .. n /\ (at[k] + i) - at[k] = i /\ at[k] < at[k] + i /\ at[k] + i <= end[k]
      BY <1>1
    <3>2. k \in Here(at[k] + i)
      BY <1>3, <3>1
    <3> QED
      BY <1>6, <3>1, <3>2
  <2> QED
    BY <1>1, <1>9, <2>1 DEF Holds
<1>11. \A k \in 1 .. K : Holds(f, w[k].at, w[k].bytes)
  BY <1>1, <1>10, Zenon
<1> QED
  BY <1>9, <1>11 DEF f

-----------------------------------------------------------------------------
(* The writes of SerializeClientMessage *)

\* The offsets of types.go: each field starts where the one before it ends.
LEMMA Offsets ==
    /\ IntegerLength \in Nat \ {0} /\ LongLength \in Nat \ {0}
    /\ MessageTypeLength \in Nat \ {0} /\ DigestLength \in Nat \ {0}
    /\ HLOffset \in Nat /\ MessageTypeOffset \in Nat /\ SchemaVersionOffset \in Nat
    /\ CreatedDateOffset \in Nat /\ SequenceNumberOffset \in Nat /\ FlagsOffset \in Nat
    /\ MessageIDOffset \in Nat /\ PayloadDigestOffset \in Nat /\ PayloadTypeOffset \in Nat
    /\ PayloadLengthOffset \in Nat /\ PayloadOffset \in Nat
    /\ HLOffset = 0
    /\ MessageTypeOffset = HLOffset + IntegerLength
    /\ SchemaVersionOffset = MessageTypeOffset + MessageTypeLength
    /\ CreatedDateOffset = SchemaVersionOffset + IntegerLength
    /\ SequenceNumberOffset = CreatedDateOffset + LongLength
    /\ FlagsOffset = SequenceNumberOffset + LongLength
    /\ MessageIDOffset = FlagsOffset + LongLength
    /\ PayloadDigestOffset = MessageIDOffset + 2 * LongLength
    /\ PayloadTypeOffset = PayloadDigestOffset + DigestLength
    /\ PayloadLengthOffset = PayloadTypeOffset + IntegerLength
    /\ PayloadOffset = PayloadLengthOffset + IntegerLength
    /\ PayloadOffset <= Int32Limit
    /\ Int32Limit \in Nat /\ Int64Limit \in Nat
<1>1. /\ IntegerLength \in Nat \ {0} /\ LongLength \in Nat \ {0}
      /\ MessageTypeLength \in Nat \ {0} /\ DigestLength \in Nat \ {0}
  BY CodecAssumption
<1>2. PayloadOffset <= Int32Limit /\ Int32Limit \in Nat /\ Int64Limit \in Nat
  BY CodecAssumption, SafeIntAssumption
<1> QED
  BY <1>1, <1>2 DEF HLOffset, MessageTypeOffset, SchemaVersionOffset, CreatedDateOffset,
        SequenceNumberOffset, FlagsOffset, MessageIDOffset, PayloadDigestOffset,
        PayloadTypeOffset, PayloadLengthOffset, PayloadOffset

\* What is below the modulus is its own remainder.
LEMMA ModSmall ==
    ASSUME NEW x \in Nat, NEW M \in Nat \ {0}, x < M
    PROVE  x % M = x
<1>1. x \div M = 0
  BY DivUnique
<1>2. x = M * (x \div M) + (x % M) /\ (x % M) \in Int
  BY DivMod
<1> DEFINE r == x % M
<1> HIDE DEF r
<1>3. x = M * 0 + r /\ r \in Int
  BY <1>1, <1>2 DEF r
<1>4. x = r
  BY <1>3
<1> QED
  BY <1>4 DEF r

\* An unsigned value of the lower half of its range is written as it is.
LEMMA SafeInt32Is ==
    ASSUME NEW v \in Nat, v < Int32Limit
    PROVE  SafeInt32(v) = Converted(v)
<1>1. Int32Limit \in Nat \ {0}
  BY SafeIntAssumption
<1>2. (v + Int32Limit) % (2 * Int32Limit) = v + Int32Limit
  <2>1. v + Int32Limit \in Nat /\ 2 * Int32Limit \in Nat \ {0} /\ v + Int32Limit < 2 * Int32Limit
    BY <1>1
  <2> QED
    BY <2>1, ModSmall
<1>3. Wrap(v, Int32Limit) = v
  BY <1>1, <1>2 DEF Wrap
<1>4. ~(v >= Int32Limit)
  BY <1>1
<1> QED
  BY <1>3, <1>4 DEF SafeInt32

Put(at, bytes) == [ok |-> TRUE, at |-> at, bytes |-> bytes]

\* PutUInteger accepts a value of the lower half of its range.
LEMMA PutUIntegerIs ==
    ASSUME NEW n \in Nat, NEW at \in Nat, at + IntegerLength <= n, NEW v \in Nat, v < Int32Limit
    PROVE  PutUInteger(n, at, v) = Put(at, ToBytes(v, IntegerLength))
<1>1. SafeInt32(v) = [ok |-> TRUE, value |-> v]
  BY SafeInt32Is, Zenon DEF Converted
<1>2. SafeInt32(v).ok = TRUE /\ SafeInt32(v).value = v
  BY <1>1
<1>3. PutUInteger(n, at, v) = [PutInteger(n, at, v) EXCEPT !.ok = @ /\ TRUE]
  BY <1>2, Zenon DEF PutUInteger
<1> QED
  BY <1>3 DEF PutInteger, Put

\* PutULong, likewise.
LEMMA PutULongIs ==
    ASSUME NEW n \in Nat, NEW at \in Nat, at + LongLength <= n, NEW v \in Nat, v < Int64Limit
    PROVE  PutULong(n, at, v) = Put(at, ToBytes(v, LongLength))
<1>1. ~(v >= Int64Limit)
  BY Offsets
<1> QED
  BY <1>1 DEF PutULong, PutLong, SafeInt64, Converted, Put

\* The halves of an ID, the second one first.
Swapped(id) == SubSeq(id, LongLength + 1, 2 * LongLength) \o SubSeq(id, 1, LongLength)

\* An ID is made of its halves.
LEMMA Halves ==
    ASSUME NEW id \in [1 .. 2 * LongLength -> Bytes]
    PROVE  /\ SubSeq(id, LongLength + 1, 2 * LongLength) \in [1 .. LongLength -> Bytes]
           /\ SubSeq(id, 1, LongLength) \in [1 .. LongLength -> Bytes]
           /\ SubSeq(id, 1, LongLength) \o SubSeq(id, LongLength + 1, 2 * LongLength) = id
<1>1. LongLength \in Nat \ {0}
  BY Offsets
<1>2. id \in Seq(Bytes) /\ Len(id) = 2 * LongLength
  BY <1>1
<1> DEFINE p == SubSeq(id, LongLength + 1, 2 * LongLength)
           q == SubSeq(id, 1, LongLength)
<1>3. p \in Seq(Bytes) /\ Len(p) = LongLength /\ q \in Seq(Bytes) /\ Len(q) = LongLength
  BY <1>1, <1>2
<1>4. q \o p = SubSeq(id, 1, 2 * LongLength)
  <2>1. 1 \in 1 .. (Len(id) + 1) /\ LongLength \in (1 - 1) .. Len(id)
        /\ 2 * LongLength \in LongLength .. Len(id)
    BY <1>1, <1>2
  <2> QED
    BY <1>2, <2>1, ConcatAdjacentSubSeq, Zenon
<1>5. SubSeq(id, 1, 2 * LongLength) = id
  BY <1>2, SubSeqFull
<1> HIDE DEF p, q
<1>6. p \in [1 .. LongLength -> Bytes] /\ q \in [1 .. LongLength -> Bytes]
  BY <1>3, LenProperties, Zenon
<1>7. q \o p = id
  BY <1>4, <1>5
<1> QED
  BY <1>6, <1>7 DEF p, q

\* PutUUID, which goes through two numbers, keeps the bytes of both halves.
LEMMA PutUUIDIs ==
    ASSUME NEW n \in Nat, NEW at \in Nat, at + 2 * LongLength <= n,
           NEW id \in [1 .. 2 * LongLength -> Bytes], id # NilUUID
    PROVE  PutUUID(n, at, id) = Put(at, Swapped(id))
<1> DEFINE p == SubSeq(id, LongLength + 1, 2 * LongLength)
           q == SubSeq(id, 1, LongLength)
<1>1. p \in [1 .. LongLength -> Bytes] /\ q \in [1 .. LongLength -> Bytes] /\ LongLength \in Nat
  BY Halves, Offsets
<1>2. ToBytes(FromBytes(p), LongLength) = p /\ ToBytes(FromBytes(q), LongLength) = q
  <2> HIDE DEF p, q
  <2> QED
    BY <1>1, WrittenRead
<1>3. PutUUID(n, at, id) = [ok |-> id # NilUUID /\ at + 2 * LongLength <= n, at |-> at,
                            bytes |-> ToBytes(FromBytes(p), LongLength) \o ToBytes(FromBytes(q), LongLength)]
  BY DEF PutUUID
<1>4. (id # NilUUID /\ at + 2 * LongLength <= n) = TRUE
  OBVIOUS
<1> HIDE DEF p, q
<1>5. PutUUID(n, at, id) = [ok |-> TRUE, at |-> at, bytes |-> p \o q]
  BY <1>2, <1>3, <1>4, Zenon
<1> QED
  BY <1>5 DEF Put, Swapped, p, q

-----------------------------------------------------------------------------
(* The frame of a message that fits *)

\* What is known of the fields of a message that fits.
LEMMA Fitting ==
    ASSUME NEW m \in Messages, Fits(m)
    PROVE  /\ m.messageType \in Seq(Bytes) /\ Len(m.messageType) <= MessageTypeLength
           /\ m.schemaVersion \in Nat /\ m.schemaVersion < Int32Limit
           /\ m.createdDate \in Nat /\ m.createdDate < Int64Limit
           /\ m.sequenceNumber \in (-Int64Limit) .. (Int64Limit - 1)
           /\ m.flags \in Nat /\ m.flags < Int64Limit
           /\ m.messageID \in [1 .. 2 * LongLength -> Bytes] /\ m.messageID # NilUUID
           /\ m.payloadType \in Nat /\ m.payloadType < Int32Limit
           /\ m.payload \in Seq(Bytes) /\ Len(m.payload) \in Nat \ {0} /\ Len(m.payload) < Int32Limit
           /\ Digest(m.payload) \in [1 .. DigestLength -> Bytes]
<1>1. m \in ClientMessage
  BY MessagesAssumption
<1>2. /\ m.messageType \in Seq(Bytes) /\ m.schemaVersion \in Nat
      /\ m.createdDate \in Nat /\ m.sequenceNumber \in (-Int64Limit) .. (Int64Limit - 1)
      /\ m.flags \in Nat /\ m.messageID \in [1 .. 2 * LongLength -> Bytes]
      /\ m.payloadType \in Nat /\ m.payload \in Seq(Bytes)
  BY <1>1, Offsets DEF ClientMessage
<1>3. m.payload # <<>> /\ Len(m.payload) < Int32Limit
  BY DEF Fits
<1>4. Len(m.payload) \in Nat \ {0}
  BY <1>2, <1>3, EmptySeq
<1>5. Digest(m.payload) \in [1 .. DigestLength -> Bytes]
  BY DigestAssumption
<1> QED
  BY <1>2, <1>3, <1>4, <1>5 DEF Fits

\* The ends of a field of l bytes at T.
LEMMA Span ==
    ASSUME NEW n \in Nat, NEW T \in Nat, NEW l \in Nat \ {0}, T + l <= n
    PROVE  (T + l - 1) - T + 1 = l /\ T <= T + l - 1 /\ T + l - 1 < n
  OBVIOUS

\* The length of the frame.
FrameLength(m) == PayloadOffset + Len(m.payload)

\* The bytes of each field, and where they go.
Part(m) ==
    <<ToBytes(PayloadLengthOffset, IntegerLength), Padded(m.messageType),
      ToBytes(m.schemaVersion, IntegerLength), ToBytes(m.createdDate, LongLength),
      ToBytes(m.sequenceNumber, LongLength), ToBytes(m.flags, LongLength),
      Swapped(m.messageID), Digest(m.payload), ToBytes(m.payloadType, IntegerLength),
      ToBytes(Len(m.payload), IntegerLength), m.payload>>

Offset ==
    <<HLOffset, MessageTypeOffset, SchemaVersionOffset, CreatedDateOffset,
      SequenceNumberOffset, FlagsOffset, MessageIDOffset, PayloadDigestOffset,
      PayloadTypeOffset, PayloadLengthOffset, PayloadOffset>>

\* Every part is bytes, and as long as its place in the frame.
LEMMA PartTypes ==
    ASSUME NEW m \in Messages, Fits(m)
    PROVE  LET P == Part(m) IN
           /\ \A k \in 1 .. 11 : P[k] \in Seq(Bytes) /\ Offset[k] \in Nat
           /\ \A k \in 1 .. 11 : Offset[k] + Len(P[k]) <= FrameLength(m)
           /\ \A k \in 1 .. 10 : Offset[k] + Len(P[k]) = Offset[k + 1]
           /\ \A k \in 1 .. 10 : Offset[k + 1] <= PayloadOffset
           /\ Offset[1] = 0
           /\ Offset[1] + Len(P[1]) = Offset[2] /\ Offset[2] + Len(P[2]) = Offset[3]
           /\ Offset[3] + Len(P[3]) = Offset[4] /\ Offset[4] + Len(P[4]) = Offset[5]
           /\ Offset[5] + Len(P[5]) = Offset[6] /\ Offset[6] + Len(P[6]) = Offset[7]
           /\ Offset[7] + Len(P[7]) = Offset[8] /\ Offset[8] + Len(P[8]) = Offset[9]
           /\ Offset[9] + Len(P[9]) = Offset[10] /\ Offset[10] + Len(P[10]) = Offset[11]
           /\ Offset[11] + Len(P[11]) = FrameLength(m)
<1> DEFINE B(q, n) == q \in Seq(Bytes) /\ Len(q) = n
<1>1. /\ IntegerLength \in Nat /\ LongLength \in Nat /\ MessageTypeLength \in Nat /\ DigestLength \in Nat
      /\ PayloadLengthOffset \in Int /\ m.schemaVersion \in Int /\ m.createdDate \in Int
      /\ m.sequenceNumber \in Int /\ m.flags \in Int /\ m.payloadType \in Int /\ Len(m.payload) \in Int
  <2>1. /\ m.schemaVersion \in Nat /\ m.createdDate \in Nat
        /\ m.sequenceNumber \in (-Int64Limit) .. (Int64Limit - 1)
        /\ m.flags \in Nat /\ m.payloadType \in Nat /\ Len(m.payload) \in Nat \ {0}
    BY Fitting, Zenon
  <2> QED
    BY <2>1, Offsets
<1>2. /\ B(ToBytes(PayloadLengthOffset, IntegerLength), IntegerLength)
      /\ B(ToBytes(m.schemaVersion, IntegerLength), IntegerLength)
      /\ B(ToBytes(m.createdDate, LongLength), LongLength)
      /\ B(ToBytes(m.sequenceNumber, LongLength), LongLength)
      /\ B(ToBytes(m.flags, LongLength), LongLength)
      /\ B(ToBytes(m.payloadType, IntegerLength), IntegerLength)
      /\ B(ToBytes(Len(m.payload), IntegerLength), IntegerLength)
  BY <1>1, ToBytesType
<1>3. B(Padded(m.messageType), MessageTypeLength)
  BY Fitting, PaddedIs
<1>4. B(Digest(m.payload), DigestLength)
  <2>1. Digest(m.payload) \in [1 .. DigestLength -> Bytes]
    BY Fitting, Zenon
  <2> QED
    BY <1>1, <2>1
<1>5. B(m.payload, Len(m.payload))
  BY Fitting
<1>6. B(Swapped(m.messageID), 2 * LongLength)
  <2> DEFINE p == SubSeq(m.messageID, LongLength + 1, 2 * LongLength)
             q == SubSeq(m.messageID, 1, LongLength)
  <2>1. p \in [1 .. LongLength -> Bytes] /\ q \in [1 .. LongLength -> Bytes]
    BY Fitting, Halves
  <2> HIDE DEF p, q
  <2>2. p \in Seq(Bytes) /\ Len(p) = LongLength /\ q \in Seq(Bytes) /\ Len(q) = LongLength
    BY <1>1, <2>1
  <2>3. p \o q \in Seq(Bytes) /\ Len(p \o q) = LongLength + LongLength
    BY <2>2, ConcatProperties
  <2>4. p \o q \in Seq(Bytes) /\ Len(p \o q) = 2 * LongLength
    BY <1>1, <2>3
  <2> QED
    BY <2>4 DEF Swapped, p, q
<1>7. /\ B(Part(m)[1], IntegerLength) /\ B(Part(m)[2], MessageTypeLength)
      /\ B(Part(m)[3], IntegerLength) /\ B(Part(m)[4], LongLength)
      /\ B(Part(m)[5], LongLength) /\ B(Part(m)[6], LongLength)
      /\ B(Part(m)[7], 2 * LongLength) /\ B(Part(m)[8], DigestLength)
      /\ B(Part(m)[9], IntegerLength) /\ B(Part(m)[10], IntegerLength)
      /\ B(Part(m)[11], Len(m.payload))
  BY <1>2, <1>3, <1>4, <1>5, <1>6 DEF Part
<1>8. /\ Offset[1] = HLOffset /\ Offset[2] = MessageTypeOffset /\ Offset[3] = SchemaVersionOffset
      /\ Offset[4] = CreatedDateOffset /\ Offset[5] = SequenceNumberOffset /\ Offset[6] = FlagsOffset
      /\ Offset[7] = MessageIDOffset /\ Offset[8] = PayloadDigestOffset /\ Offset[9] = PayloadTypeOffset
      /\ Offset[10] = PayloadLengthOffset /\ Offset[11] = PayloadOffset
  BY DEF Offset
<1>9. \A k \in 1 .. 11 : k \in {1, 2, 3, 4, 5, 6, 7, 8, 9, 10, 11}
  OBVIOUS
<1>10. \A k \in 1 .. 11 : Part(m)[k] \in Seq(Bytes) /\ Offset[k] \in Nat
  BY <1>7, <1>8, <1>9, Offsets
<1>11. /\ Offset[1] + Len(Part(m)[1]) = Offset[2] /\ Offset[2] + Len(Part(m)[2]) = Offset[3]
       /\ Offset[3] + Len(Part(m)[3]) = Offset[4] /\ Offset[4] + Len(Part(m)[4]) = Offset[5]
       /\ Offset[5] + Len(Part(m)[5]) = Offset[6] /\ Offset[6] + Len(Part(m)[6]) = Offset[7]
       /\ Offset[7] + Len(Part(m)[7]) = Offset[8] /\ Offset[8] + Len(Part(m)[8]) = Offset[9]
       /\ Offset[9] + Len(Part(m)[9]) = Offset[10] /\ Offset[10] + Len(Part(m)[10]) = Offset[11]
       /\ Offset[11] + Len(Part(m)[11]) = FrameLength(m)
  BY <1>7, <1>8, Offsets, Zenon DEF FrameLength
<1>12. \A k \in 1 .. 10 : Offset[k] + Len(Part(m)[k]) = Offset[k + 1]
  <2> TAKE k \in 1 .. 10
  <2>1. CASE k = 1
    BY <1>11, <2>1
  <2>2. CASE k = 2
    BY <1>11, <2>2
  <2>3. CASE k = 3
    BY <1>11, <2>3
  <2>4. CASE k = 4
    BY <1>11, <2>4
  <2>5. CASE k = 5
    BY <1>11, <2>5
  <2>6. CASE k = 6
    BY <1>11, <2>6
  <2>7. CASE k = 7
    BY <1>11, <2>7
  <2>8. CASE k = 8
    BY <1>11, <2>8
  <2>9. CASE k = 9
    BY <1>11, <2>9
  <2>10. CASE k = 10
    BY <1>11, <2>10
  <2> QED
    BY <2>1, <2>2, <2>3, <2>4, <2>5, <2>6, <2>7, <2>8, <2>9, <2>10
<1>14. \A k \in 1 .. 10 : Offset[k + 1] <= PayloadOffset
  <2>1. \A k \in 1 .. 10 : k + 1 \in {2, 3, 4, 5, 6, 7, 8, 9, 10, 11}
    OBVIOUS
  <2>2. \A j \in {2, 3, 4, 5, 6, 7, 8, 9, 10, 11} : Offset[j] <= PayloadOffset
    BY <1>8, Offsets
  <2> QED
    BY <2>1, <2>2, Zenon
<1>13. \A k \in 1 .. 11 : Offset[k] + Len(Part(m)[k]) <= FrameLength(m)
  <2> DEFINE L == Len(m.payload)
  <2>1. FrameLength(m) = PayloadOffset + L /\ L \in Nat
    <3>1. Len(m.payload) \in Nat \ {0}
      BY Fitting, Zenon
    <3> QED
      BY <3>1 DEF FrameLength
  <2> HIDE DEF L
  <2>2. /\ MessageTypeOffset <= FrameLength(m) /\ SchemaVersionOffset <= FrameLength(m)
        /\ CreatedDateOffset <= FrameLength(m) /\ SequenceNumberOffset <= FrameLength(m)
        /\ FlagsOffset <= FrameLength(m) /\ MessageIDOffset <= FrameLength(m)
        /\ PayloadDigestOffset <= FrameLength(m) /\ PayloadTypeOffset <= FrameLength(m)
        /\ PayloadLengthOffset <= FrameLength(m) /\ PayloadOffset <= FrameLength(m)
        /\ FrameLength(m) <= FrameLength(m)
    BY <2>1, Offsets
  <2>3. /\ Offset[1] + Len(Part(m)[1]) <= FrameLength(m) /\ Offset[2] + Len(Part(m)[2]) <= FrameLength(m)
        /\ Offset[3] + Len(Part(m)[3]) <= FrameLength(m) /\ Offset[4] + Len(Part(m)[4]) <= FrameLength(m)
        /\ Offset[5] + Len(Part(m)[5]) <= FrameLength(m) /\ Offset[6] + Len(Part(m)[6]) <= FrameLength(m)
        /\ Offset[7] + Len(Part(m)[7]) <= FrameLength(m) /\ Offset[8] + Len(Part(m)[8]) <= FrameLength(m)
        /\ Offset[9] + Len(Part(m)[9]) <= FrameLength(m) /\ Offset[10] + Len(Part(m)[10]) <= FrameLength(m)
        /\ Offset[11] + Len(Part(m)[11]) <= FrameLength(m)
    BY <1>8, <1>11, <2>2, Zenon
  <2> QED
    BY <1>9, <2>3
<1> QED
  BY <1>8, <1>10, <1>11, <1>12, <1>13, <1>14, Offsets, Zenon

\* SerializeClientMessage accepts a message that fits, and these are its writes.
LEMMA WritesAre ==
    ASSUME NEW m \in Messages, Fits(m)
    PROVE  /\ FrameLength(m) \in Nat
           /\ (PayloadLengthOffset + IntegerLength + Len(m.payload)) % (2 * Int32Limit) = FrameLength(m)
           /\ SafeUint32(Len(m.payload)) = Converted(Len(m.payload))
           /\ DOMAIN Writes(m, FrameLength(m)) = 1 .. 11
           /\ \A k \in 1 .. 11 : Writes(m, FrameLength(m))[k] = Put(Offset[k], Part(m)[k])
<1> DEFINE n == FrameLength(m)
           L == Len(m.payload)
           W == Writes(m, n)
<1>1. L \in Nat \ {0} /\ L < Int32Limit /\ Int32Limit \in Nat
  BY Fitting, Offsets
<1>2. n = PayloadLengthOffset + IntegerLength + L /\ n \in Nat /\ n < 2 * Int32Limit
  <2>1. PayloadLengthOffset \in Nat /\ IntegerLength \in Nat
        /\ PayloadOffset = PayloadLengthOffset + IntegerLength
        /\ PayloadOffset <= Int32Limit
    BY Offsets
  <2>2. n = PayloadOffset + L
    BY DEF FrameLength
  <2> HIDE DEF L, n
  <2> QED
    BY <1>1, <2>1, <2>2
<1>3. (PayloadLengthOffset + IntegerLength + L) % (2 * Int32Limit) = n
  <2>1. 2 * Int32Limit \in Nat \ {0}
    BY <1>1
  <2>2. n % (2 * Int32Limit) = n
    BY <1>2, <2>1, ModSmall
  <2> QED
    BY <1>2, <2>2, Zenon
<1>4. SafeUint32(L) = Converted(L) /\ SafeUint32(L).value = L
  <2>1. ~(L < 0 \/ L >= 2 * Int32Limit)
    BY <1>1
  <2> QED
    BY <2>1 DEF SafeUint32, Converted
<1> DEFINE Room(at, l) == at \in Nat /\ l \in Nat /\ at + l <= n
<1>5. /\ Room(HLOffset, IntegerLength) /\ Room(MessageTypeOffset, MessageTypeLength)
      /\ Room(SchemaVersionOffset, IntegerLength) /\ Room(CreatedDateOffset, LongLength)
      /\ Room(SequenceNumberOffset, LongLength) /\ Room(FlagsOffset, LongLength)
      /\ Room(MessageIDOffset, 2 * LongLength) /\ Room(PayloadDigestOffset, DigestLength)
      /\ Room(PayloadTypeOffset, IntegerLength) /\ Room(PayloadLengthOffset, IntegerLength)
      /\ Room(PayloadOffset, L)
  <2> HIDE DEF L, n
  <2> QED
    BY <1>1, <1>2, Offsets
<1> HIDE DEF n
<1>11. W[1] = Put(Offset[1], Part(m)[1])
  <2>1. PayloadLengthOffset \in Nat /\ PayloadLengthOffset < Int32Limit
    BY Offsets
  <2>2. PutUInteger(n, HLOffset, PayloadLengthOffset)
          = Put(HLOffset, ToBytes(PayloadLengthOffset, IntegerLength))
    BY <1>2, <1>5, <2>1, PutUIntegerIs
  <2> QED
    BY <2>2 DEF Writes, Offset, Part
<1>12. W[2] = Put(Offset[2], Part(m)[2])
  <2> DEFINE T == MessageTypeOffset
             E == MessageTypeOffset + MessageTypeLength - 1
  <2>1. MessageTypeLength \in Nat \ {0} /\ T \in Nat
    BY Offsets
  <2>2. E - T + 1 = MessageTypeLength /\ T <= E /\ E < n
    <3>1. n \in Nat /\ T + MessageTypeLength <= n
      BY <1>2, <1>5
    <3> QED
      BY <2>1, <3>1, Span, Zenon
  <2>3. Len(m.messageType) <= E - T + 1
    BY <2>2, Fitting
  <2>4. PutString(n, T, E, m.messageType) = Put(T, Padded(m.messageType))
    BY <2>2, <2>3 DEF PutString, Put, Padded
  <2> QED
    BY <2>4 DEF Writes, Offset, Part
<1>13. W[3] = Put(Offset[3], Part(m)[3])
  <2>2. PutUInteger(n, SchemaVersionOffset, m.schemaVersion)
          = Put(SchemaVersionOffset, ToBytes(m.schemaVersion, IntegerLength))
    BY <1>2, <1>5, Fitting, PutUIntegerIs
  <2> QED
    BY <2>2 DEF Writes, Offset, Part
<1>14. W[4] = Put(Offset[4], Part(m)[4])
  <2>2. PutULong(n, CreatedDateOffset, m.createdDate)
          = Put(CreatedDateOffset, ToBytes(m.createdDate, LongLength))
    BY <1>2, <1>5, Fitting, PutULongIs
  <2> QED
    BY <2>2 DEF Writes, Offset, Part
<1>15. W[5] = Put(Offset[5], Part(m)[5])
  <2>2. PutLong(n, SequenceNumberOffset, m.sequenceNumber)
          = Put(SequenceNumberOffset, ToBytes(m.sequenceNumber, LongLength))
    BY <1>5 DEF PutLong, Put
  <2> QED
    BY <2>2 DEF Writes, Offset, Part
<1>16. W[6] = Put(Offset[6], Part(m)[6])
  <2>2. PutULong(n, FlagsOffset, m.flags) = Put(FlagsOffset, ToBytes(m.flags, LongLength))
    BY <1>2, <1>5, Fitting, PutULongIs
  <2> QED
    BY <2>2 DEF Writes, Offset, Part
<1>17. W[7] = Put(Offset[7], Part(m)[7])
  <2>2. PutUUID(n, MessageIDOffset, m.messageID) = Put(MessageIDOffset, Swapped(m.messageID))
    BY <1>2, <1>5, Fitting, PutUUIDIs
  <2> QED
    BY <2>2 DEF Writes, Offset, Part
<1>18. W[8] = Put(Offset[8], Part(m)[8])
  <2> DEFINE T == PayloadDigestOffset
             E == PayloadDigestOffset + DigestLength - 1
  <2>1. DigestLength \in Nat \ {0} /\ T \in Nat
    BY Offsets
  <2>2. E - T + 1 = DigestLength /\ T <= E /\ E < n
    <3>1. n \in Nat /\ T + DigestLength <= n
      BY <1>2, <1>5
    <3> QED
      BY <2>1, <3>1, Span, Zenon
  <2>3. Len(Digest(m.payload)) = E - T + 1
    BY <2>1, <2>2, Fitting
  <2>4. PutBytes(n, T, E, Digest(m.payload)) = Put(T, Digest(m.payload))
    BY <2>2, <2>3 DEF PutBytes, Put
  <2> QED
    BY <2>4 DEF Writes, Offset, Part
<1>19. W[9] = Put(Offset[9], Part(m)[9])
  <2>2. PutUInteger(n, PayloadTypeOffset, m.payloadType)
          = Put(PayloadTypeOffset, ToBytes(m.payloadType, IntegerLength))
    BY <1>2, <1>5, Fitting, PutUIntegerIs
  <2> QED
    BY <2>2 DEF Writes, Offset, Part
<1>20. W[10] = Put(Offset[10], Part(m)[10])
  <2>2. PutUInteger(n, PayloadLengthOffset, L) = Put(PayloadLengthOffset, ToBytes(L, IntegerLength))
    <3>1. L \in Nat
      BY <1>1
    <3> HIDE DEF L
    <3> QED
      BY <1>1, <1>2, <1>5, <3>1, PutUIntegerIs
  <2>3. W[10] = PutUInteger(n, PayloadLengthOffset, SafeUint32(Len(m.payload)).value)
    BY DEF Writes
  <2>4. W[10] = PutUInteger(n, PayloadLengthOffset, L)
    BY <1>4, <2>3, Zenon
  <2> QED
    BY <2>2, <2>4 DEF Offset, Part
<1>21. W[11] = Put(Offset[11], Part(m)[11])
  <2> DEFINE T == PayloadOffset
             E == PayloadOffset + Len(m.payload) - 1
  <2>2. E - T + 1 = Len(m.payload) /\ T <= E /\ E < n
    <3>1. n \in Nat /\ T \in Nat /\ T + L <= n
      BY <1>2, <1>5
    <3> QED
      BY <1>1, <3>1, Span, Zenon
  <2>4. PutBytes(n, T, E, m.payload) = Put(T, m.payload)
    BY <2>2 DEF PutBytes, Put
  <2> QED
    BY <2>4 DEF Writes, Offset, Part
<1>22. DOMAIN W = 1 .. 11
  BY DEF Writes
<1> HIDE DEF W
<1>23. \A k \in 1 .. 11 : k \in {1, 2, 3, 4, 5, 6, 7, 8, 9, 10, 11}
  OBVIOUS
<1>24. \A k \in 1 .. 11 : W[k] = Put(Offset[k], Part(m)[k])
  BY <1>11, <1>12, <1>13, <1>14, <1>15, <1>16, <1>17, <1>18, <1>19, <1>20, <1>21, <1>23
<1> QED
  BY <1>2, <1>3, <1>4, <1>22, <1>24 DEF n, W

\* The frame starts with the a bytes of p.
Prefix(f, p, a) == p \in Seq(Bytes) /\ Len(p) = a /\ SubSeq(f, 1, a) = p

\* A prefix grows by the bytes that follow it.
LEMMA PrefixExtend ==
    ASSUME NEW f \in Seq(Bytes), NEW p, NEW q \in Seq(Bytes), NEW a, NEW b,
           Prefix(f, p, a), Holds(f, a, q), a + Len(q) = b
    PROVE  Prefix(f, p \o q, b)
<1>1. p \in Seq(Bytes) /\ Len(p) = a /\ SubSeq(f, 1, Len(p)) = p /\ Holds(f, Len(p), q)
  BY Zenon DEF Prefix
<1>2. p \o q \in Seq(Bytes) /\ Len(p \o q) = Len(p) + Len(q) /\ SubSeq(f, 1, Len(p \o q)) = p \o q
  BY <1>1, Extend, Zenon
<1> QED
  BY <1>1, <1>2, Zenon DEF Prefix

\* For a message that fits, SerializeClientMessage returns the layout, which has
\* every field at its offset.
LEMMA FrameOfFitting ==
    ASSUME NEW m \in Messages, Fits(m)
    PROVE  /\ SerializeClientMessage(m) = [ok |-> TRUE, value |-> Layout(m)]
           /\ Layout(m) \in Seq(Bytes) /\ Len(Layout(m)) = FrameLength(m)
           /\ \A k \in 1 .. 11 : Holds(Layout(m), Offset[k], Part(m)[k])
<1> DEFINE n == FrameLength(m)
           W == Writes(m, n)
           f == Written(W, n)
           P == Part(m)
<1>1. /\ n \in Nat
      /\ (PayloadLengthOffset + IntegerLength + Len(m.payload)) % (2 * Int32Limit) = n
      /\ SafeUint32(Len(m.payload)) = Converted(Len(m.payload))
      /\ DOMAIN W = 1 .. 11
      /\ \A k \in 1 .. 11 : W[k] = Put(Offset[k], P[k])
  BY WritesAre, Zenon
<1>2. \A k \in 1 .. 11 : W[k].ok /\ W[k].at = Offset[k] /\ W[k].bytes = P[k]
  <2> HIDE DEF W, P
  <2> QED
    BY <1>1 DEF Put
<1>3. /\ \A k \in 1 .. 11 : P[k] \in Seq(Bytes) /\ Offset[k] \in Nat
      /\ \A k \in 1 .. 10 : Offset[k] + Len(P[k]) = Offset[k + 1]
  BY PartTypes, Zenon
<1>5. /\ Offset[1] = 0 /\ Offset[1] + Len(P[1]) = Offset[2] /\ Offset[2] + Len(P[2]) = Offset[3]
      /\ Offset[3] + Len(P[3]) = Offset[4] /\ Offset[4] + Len(P[4]) = Offset[5]
      /\ Offset[5] + Len(P[5]) = Offset[6] /\ Offset[6] + Len(P[6]) = Offset[7]
      /\ Offset[7] + Len(P[7]) = Offset[8] /\ Offset[8] + Len(P[8]) = Offset[9]
      /\ Offset[9] + Len(P[9]) = Offset[10] /\ Offset[10] + Len(P[10]) = Offset[11]
      /\ Offset[11] + Len(P[11]) = n
  BY PartTypes, Zenon
<1>6. \A k \in 1 .. 11 : Offset[k] + Len(P[k]) <= n
  BY PartTypes, Zenon
<1>4. SerializeClientMessage(m) = [ok |-> TRUE, value |-> f]
  <2>1. SafeUint32(Len(m.payload)).ok
    BY <1>1 DEF Converted
  <2>2. \A i \in DOMAIN W : W[i].ok
    BY <1>1, <1>2, Zenon
  <2> HIDE DEF n
  <2> QED
    BY <1>1, <2>1, <2>2, Zenon DEF SerializeClientMessage
<1> HIDE DEF n, W, P
<1>7. /\ f \in Seq(Bytes) /\ Len(f) = n
      /\ \A k \in 1 .. 11 : Holds(f, Offset[k], P[k])
  <2> DEFINE K == 11
  <2>1. \A k \in 1 .. K : /\ W[k].at \in Nat /\ W[k].bytes \in Seq(Bytes)
                          /\ W[k].at + Len(W[k].bytes) <= n
    BY <1>2, <1>3, <1>6, Zenon
  <2>2. ASSUME NEW k \in 1 .. (K - 1) PROVE W[k].at + Len(W[k].bytes) = W[k + 1].at
    <3>1. k \in 1 .. 10 /\ k \in 1 .. 11 /\ k + 1 \in 1 .. 11
      OBVIOUS
    <3> QED
      BY <1>2, <1>3, <3>1, Zenon
  <2>3. K \in Nat /\ DOMAIN W = 1 .. K
    BY <1>1
  <2> HIDE DEF K
  <2>4. /\ f \in Seq(Bytes) /\ Len(f) = n
        /\ \A k \in 1 .. K : Holds(f, W[k].at, W[k].bytes)
    <3>1. \A k \in 1 .. (K - 1) : W[k].at + Len(W[k].bytes) = W[k + 1].at
      BY <2>2
    <3>2. n \in Nat
      BY <1>1
    <3> HIDE DEF f
    <3> QED
      BY <2>1, <2>3, <3>1, <3>2, WritesStand, Zenon DEF f
  <2> QED
    BY <1>2, <2>4, Zenon DEF K
<1> HIDE DEF f
<1>8. /\ Holds(f, Offset[1], P[1]) /\ Holds(f, Offset[2], P[2]) /\ Holds(f, Offset[3], P[3])
      /\ Holds(f, Offset[4], P[4]) /\ Holds(f, Offset[5], P[5]) /\ Holds(f, Offset[6], P[6])
      /\ Holds(f, Offset[7], P[7]) /\ Holds(f, Offset[8], P[8]) /\ Holds(f, Offset[9], P[9])
      /\ Holds(f, Offset[10], P[10]) /\ Holds(f, Offset[11], P[11])
  BY <1>7
<1>9. /\ P[1] \in Seq(Bytes) /\ P[2] \in Seq(Bytes) /\ P[3] \in Seq(Bytes) /\ P[4] \in Seq(Bytes)
      /\ P[5] \in Seq(Bytes) /\ P[6] \in Seq(Bytes) /\ P[7] \in Seq(Bytes) /\ P[8] \in Seq(Bytes)
      /\ P[9] \in Seq(Bytes) /\ P[10] \in Seq(Bytes) /\ P[11] \in Seq(Bytes)
  BY <1>3
<1> DEFINE c2 == P[1] \o P[2]
           c3 == c2 \o P[3]
           c4 == c3 \o P[4]
           c5 == c4 \o P[5]
           c6 == c5 \o P[6]
           c7 == c6 \o P[7]
           c8 == c7 \o P[8]
           c9 == c8 \o P[9]
           c10 == c9 \o P[10]
           c11 == c10 \o P[11]
<1>10. Prefix(f, P[1], Offset[2])
  <2>1. SubSeq(f, 0 + 1, 0 + Len(P[1])) = P[1]
    BY <1>5, <1>7, <1>8, <1>9, HoldsSub
  <2>2. 0 + 1 = 1 /\ 0 + Len(P[1]) = Offset[2] /\ Len(P[1]) = Offset[2]
    BY <1>5, <1>9
  <2> QED
    BY <1>9, <2>1, <2>2, Zenon DEF Prefix
<1>11. Prefix(f, c2, Offset[3])
  BY <1>5, <1>7, <1>8, <1>9, <1>10, PrefixExtend, Zenon
<1> HIDE DEF c2
<1>12. Prefix(f, c3, Offset[4])
  BY <1>5, <1>7, <1>8, <1>9, <1>11, PrefixExtend, Zenon
<1> HIDE DEF c3
<1>13. Prefix(f, c4, Offset[5])
  BY <1>5, <1>7, <1>8, <1>9, <1>12, PrefixExtend, Zenon
<1> HIDE DEF c4
<1>14. Prefix(f, c5, Offset[6])
  BY <1>5, <1>7, <1>8, <1>9, <1>13, PrefixExtend, Zenon
<1> HIDE DEF c5
<1>15. Prefix(f, c6, Offset[7])
  BY <1>5, <1>7, <1>8, <1>9, <1>14, PrefixExtend, Zenon
<1> HIDE DEF c6
<1>16. Prefix(f, c7, Offset[8])
  BY <1>5, <1>7, <1>8, <1>9, <1>15, PrefixExtend, Zenon
<1> HIDE DEF c7
<1>17. Prefix(f, c8, Offset[9])
  BY <1>5, <1>7, <1>8, <1>9, <1>16, PrefixExtend, Zenon
<1> HIDE DEF c8
<1>18. Prefix(f, c9, Offset[10])
  BY <1>5, <1>7, <1>8, <1>9, <1>17, PrefixExtend, Zenon
<1> HIDE DEF c9
<1>19. Prefix(f, c10, Offset[11])
  BY <1>5, <1>7, <1>8, <1>9, <1>18, PrefixExtend, Zenon
<1> HIDE DEF c10
<1>20. Prefix(f, c11, n)
  BY <1>5, <1>7, <1>8, <1>9, <1>19, PrefixExtend, Zenon
<1>21. f = c11
  <2>1. SubSeq(f, 1, Len(f)) = f
    BY <1>7, SubSeqFull
  <2> QED
    BY <1>7, <1>20, <2>1, Zenon DEF Prefix
<1>22. c11 = Layout(m)
  <2> DEFINE pad == [i \in 1 .. (MessageTypeLength - Len(m.messageType)) |-> Space]
  <2>1. Padded(m.messageType) = m.messageType \o pad
    BY Fitting, PaddedIs, Zenon
  <2>2. /\ P[1] = ToBytes(PayloadLengthOffset, IntegerLength) /\ P[2] = Padded(m.messageType)
        /\ P[3] = ToBytes(m.schemaVersion, IntegerLength) /\ P[4] = ToBytes(m.createdDate, LongLength)
        /\ P[5] = ToBytes(m.sequenceNumber, LongLength) /\ P[6] = ToBytes(m.flags, LongLength)
        /\ P[7] = Swapped(m.messageID) /\ P[8] = Digest(m.payload)
        /\ P[9] = ToBytes(m.payloadType, IntegerLength)
        /\ P[10] = ToBytes(Len(m.payload), IntegerLength) /\ P[11] = m.payload
    BY DEF Part, P
  <2> HIDE DEF pad
  <2>3. Layout(m) = ToBytes(PayloadLengthOffset, IntegerLength) \o (m.messageType \o pad)
            \o ToBytes(m.schemaVersion, IntegerLength) \o ToBytes(m.createdDate, LongLength)
            \o ToBytes(m.sequenceNumber, LongLength) \o ToBytes(m.flags, LongLength)
            \o Swapped(m.messageID) \o Digest(m.payload) \o ToBytes(m.payloadType, IntegerLength)
            \o ToBytes(Len(m.payload), IntegerLength) \o m.payload
    BY Zenon DEF Layout, Swapped, pad
  <2> QED
    BY <2>1, <2>2, <2>3, Zenon DEF c2, c3, c4, c5, c6, c7, c8, c9, c10
<1>23. f = Layout(m)
  BY <1>21, <1>22
<1> QED
  BY <1>4, <1>7, <1>23, Zenon DEF f, P, n, W

\* PutUInteger accepts nothing else.
LEMMA PutUIntegerOk ==
    ASSUME NEW n, NEW at, NEW v \in Nat, PutUInteger(n, at, v).ok
    PROVE  v < Int32Limit
<1>1. PutUInteger(n, at, v).ok = (PutInteger(n, at, SafeInt32(v).value).ok /\ SafeInt32(v).ok)
  BY DEF PutUInteger, PutInteger
<1>2. SafeInt32(v).ok
  BY <1>1, Zenon
<1>3. v >= Int32Limit => SafeInt32(v) = Refused
  BY Zenon DEF SafeInt32
<1>4. ~(v >= Int32Limit)
  BY <1>2, <1>3 DEF Refused
<1> QED
  BY <1>4, Offsets

\* Nor does PutULong.
LEMMA PutULongOk ==
    ASSUME NEW n, NEW at, NEW v \in Nat, PutULong(n, at, v).ok
    PROVE  v < Int64Limit
<1>1. PutULong(n, at, v).ok = (PutLong(n, at, SafeInt64(v).value).ok /\ SafeInt64(v).ok)
  BY DEF PutULong, PutLong
<1>2. SafeInt64(v).ok
  BY <1>1, Zenon
<1>3. v >= Int64Limit => SafeInt64(v) = Refused
  BY Zenon DEF SafeInt64
<1>4. ~(v >= Int64Limit)
  BY <1>2, <1>3 DEF Refused
<1> QED
  BY <1>4, Offsets

\* A message that does not fit is refused.
LEMMA AcceptedFits ==
    ASSUME NEW m \in Messages, SerializeClientMessage(m).ok
    PROVE  Fits(m)
<1> DEFINE n == (PayloadLengthOffset + IntegerLength + Len(m.payload)) % (2 * Int32Limit)
           W == Writes(m, n)
<1>1. SafeUint32(Len(m.payload)).ok /\ \A i \in DOMAIN W : W[i].ok
  <2> HIDE DEF n
  <2>1. SUFFICES ASSUME ~(SafeUint32(Len(m.payload)).ok /\ \A i \in DOMAIN W : W[i].ok)
                 PROVE  FALSE
    OBVIOUS
  <2>2. SerializeClientMessage(m) = [ok |-> FALSE, value |-> <<>>]
    BY <2>1, Zenon DEF SerializeClientMessage, n
  <2> QED
    BY <2>2
<1> HIDE DEF n
<1>2. /\ m.messageType \in Seq(Bytes) /\ m.schemaVersion \in Nat
      /\ m.createdDate \in Nat /\ m.flags \in Nat
      /\ m.payloadType \in Nat /\ m.payload \in Seq(Bytes) /\ Len(m.payload) \in Nat
  <2>1. m \in ClientMessage
    BY MessagesAssumption
  <2> QED
    BY <2>1, Offsets DEF ClientMessage
<1>3. SafeUint32(Len(m.payload)).value = Len(m.payload)
  <2>1. SafeUint32(Len(m.payload)) # Refused
    BY <1>1 DEF Refused
  <2>2. SafeUint32(Len(m.payload)) = Converted(Len(m.payload))
    BY <2>1, Zenon DEF SafeUint32
  <2> QED
    BY <2>2 DEF Converted
<1>4. W[2].ok /\ W[3].ok /\ W[4].ok /\ W[6].ok /\ W[7].ok /\ W[9].ok /\ W[10].ok /\ W[11].ok
  <2>1. DOMAIN W = 1 .. 11
    BY DEF Writes
  <2> HIDE DEF W
  <2> QED
    BY <1>1, <2>1
<1>5. Len(m.messageType) <= MessageTypeLength
  <2> DEFINE T == MessageTypeOffset
             E == MessageTypeOffset + MessageTypeLength - 1
  <2>1. W[2] = PutString(n, T, E, m.messageType)
    BY DEF Writes
  <2>2. PutString(n, T, E, m.messageType).ok = (T <= E /\ E < n /\ Len(m.messageType) <= E - T + 1)
    BY DEF PutString
  <2>3. Len(m.messageType) <= E - T + 1
    BY <1>4, <2>1, <2>2, Zenon
  <2>4. E - T + 1 = MessageTypeLength
    <3>1. MessageTypeOffset \in Nat /\ MessageTypeLength \in Nat
      BY Offsets
    <3> QED
      BY <3>1
  <2> QED
    BY <2>3, <2>4, Zenon
<1>6. m.schemaVersion < Int32Limit
  <2>1. W[3] = PutUInteger(n, SchemaVersionOffset, m.schemaVersion)
    BY DEF Writes
  <2> QED
    BY <1>2, <1>4, <2>1, PutUIntegerOk, Zenon
<1>7. m.createdDate < Int64Limit
  <2>1. W[4] = PutULong(n, CreatedDateOffset, m.createdDate)
    BY DEF Writes
  <2> QED
    BY <1>2, <1>4, <2>1, PutULongOk, Zenon
<1>8. m.flags < Int64Limit
  <2>1. W[6] = PutULong(n, FlagsOffset, m.flags)
    BY DEF Writes
  <2> QED
    BY <1>2, <1>4, <2>1, PutULongOk, Zenon
<1>9. m.messageID # NilUUID
  <2>1. W[7] = PutUUID(n, MessageIDOffset, m.messageID)
    BY DEF Writes
  <2>2. PutUUID(n, MessageIDOffset, m.messageID).ok =
            (m.messageID # NilUUID /\ MessageIDOffset + 2 * LongLength <= n)
    BY DEF PutUUID
  <2> QED
    BY <1>4, <2>1, <2>2, Zenon
<1>10. m.payloadType < Int32Limit
  <2>1. W[9] = PutUInteger(n, PayloadTypeOffset, m.payloadType)
    BY DEF Writes
  <2> QED
    BY <1>2, <1>4, <2>1, PutUIntegerOk, Zenon
<1>11. Len(m.payload) < Int32Limit
  <2>1. W[10] = PutUInteger(n, PayloadLengthOffset, SafeUint32(Len(m.payload)).value)
    BY DEF Writes
  <2> QED
    BY <1>2, <1>3, <1>4, <2>1, PutUIntegerOk, Zenon
<1>12. m.payload # <<>>
  <2> DEFINE T == PayloadOffset
             E == PayloadOffset + Len(m.payload) - 1
  <2>1. W[11] = PutBytes(n, T, E, m.payload)
    BY DEF Writes
  <2>2. PutBytes(n, T, E, m.payload).ok = (T <= E /\ E < n /\ Len(m.payload) = E - T + 1)
    BY DEF PutBytes
  <2>3. T <= E
    BY <1>4, <2>1, <2>2, Zenon
  <2>4. SUFFICES ASSUME m.payload = <<>> PROVE FALSE
    OBVIOUS
  <2>5. Len(m.payload) = 0
    BY <2>4
  <2> QED
    BY <2>3, <2>5, Offsets
<1> QED
  BY <1>5, <1>6, <1>7, <1>8, <1>9, <1>10, <1>11, <1>12, Zenon DEF Fits

-----------------------------------------------------------------------------
(* The reads of DeserializeClientMessage *)

Read(v) == [ok |-> TRUE, value |-> v]

\* The parts of a reader's result.
LEMMA ReadIs ==
    ASSUME NEW v
    PROVE  Read(v).ok = TRUE /\ Read(v).value = v
  BY DEF Read

\* Bytes that are in a frame are read.
LEMMA GotIs ==
    ASSUME NEW b \in Seq(Bytes), NEW q \in Seq(Bytes), NEW at \in Nat, Holds(b, at, q)
    PROVE  Got(b, at, Len(q)) = Read(q)
<1>1. SubSeq(b, at + 1, at + Len(q)) = q
  BY HoldsSub
<1>2. at + Len(q) <= Len(b)
  BY Zenon DEF Holds
<1> QED
  BY <1>1, <1>2, Zenon DEF Got, Read

\* A number in the range of n bytes, where it was written.
LEMMA GetNumberIs ==
    ASSUME NEW b \in Seq(Bytes), NEW at \in Nat, NEW n \in Nat,
           NEW H \in Nat \ {0}, 2 * H = Place[n], NEW v \in (-H) .. (H - 1),
           Holds(b, at, ToBytes(v, n))
    PROVE  GetNumber(b, at, n) = Read(v)
<1> DEFINE q == ToBytes(v, n)
<1>1. v \in Int
  OBVIOUS
<1>2. q \in Seq(Bytes) /\ Len(q) = n
  BY <1>1, ToBytesType
<1>3. Got(b, at, n) = Read(q)
  <2> HIDE DEF q
  <2>1. Holds(b, at, q)
    BY Zenon DEF q
  <2>2. Got(b, at, Len(q)) = Read(q)
    BY <1>2, <2>1, GotIs, Zenon
  <2> QED
    BY <1>2, <2>2, Zenon
<1>4. FromBytes(q) = v
  BY ReadWritten, Zenon
<1> HIDE DEF q
<1> QED
  BY <1>3, <1>4, ReadIs, Zenon DEF GetNumber, Read

\* The unsigned readers accept what the unsigned writers wrote.
LEMMA NotNegativeIs ==
    ASSUME NEW v \in Nat
    PROVE  NotNegative(Read(v)) = Read(v)
<1>1. v >= 0
  OBVIOUS
<1>2. Read(v).ok /\ Read(v).value >= 0
  BY <1>1, ReadIs, Zenon
<1> QED
  BY <1>2, Zenon DEF NotNegative

\* The limits of the signed integers, in bytes.
LEMMA Ranges ==
    /\ Int32Limit \in Nat \ {0} /\ 2 * Int32Limit = Place[IntegerLength]
    /\ Int64Limit \in Nat \ {0} /\ 2 * Int64Limit = Place[LongLength]
  BY CodecAssumption, SafeIntAssumption

\* GetUInteger returns what PutUInteger wrote.
LEMMA GetUIntegerIs ==
    ASSUME NEW b \in Seq(Bytes), NEW at \in Nat, NEW v \in Nat, v < Int32Limit,
           Holds(b, at, ToBytes(v, IntegerLength))
    PROVE  GetUInteger(b, at) = Read(v)
<1>1. v \in (-Int32Limit) .. (Int32Limit - 1)
  BY Ranges
<1>2. GetNumber(b, at, IntegerLength) = Read(v)
  <2>1. IntegerLength \in Nat
    BY Offsets
  <2> QED
    BY <1>1, <2>1, Ranges, GetNumberIs, Zenon
<1> QED
  BY <1>2, NotNegativeIs, Zenon DEF GetUInteger

\* GetLong returns what PutLong wrote.
LEMMA GetLongIs ==
    ASSUME NEW b \in Seq(Bytes), NEW at \in Nat, NEW v \in (-Int64Limit) .. (Int64Limit - 1),
           Holds(b, at, ToBytes(v, LongLength))
    PROVE  GetLong(b, at) = Read(v)
<1>1. LongLength \in Nat
  BY Offsets
<1> QED
  BY <1>1, Ranges, GetNumberIs, Zenon DEF GetLong

\* GetULong returns what PutULong wrote.
LEMMA GetULongIs ==
    ASSUME NEW b \in Seq(Bytes), NEW at \in Nat, NEW v \in Nat, v < Int64Limit,
           Holds(b, at, ToBytes(v, LongLength))
    PROVE  GetULong(b, at) = Read(v)
<1>1. v \in (-Int64Limit) .. (Int64Limit - 1)
  BY Ranges
<1>2. GetLong(b, at) = Read(v)
  BY <1>1, GetLongIs, Zenon
<1> QED
  BY <1>2, NotNegativeIs, Zenon DEF GetULong

\* GetBytes returns what PutBytes wrote.
LEMMA GetBytesIs ==
    ASSUME NEW b \in Seq(Bytes), NEW at \in Nat, NEW n, NEW q \in Seq(Bytes), Len(q) = n,
           Holds(b, at, q)
    PROVE  GetBytes(b, at, n) = Read(q)
  BY GotIs, Zenon DEF GetBytes

\* GetString returns what PutString wrote.
LEMMA GetStringIs ==
    ASSUME NEW b \in Seq(Bytes), NEW at \in Nat, NEW s \in Seq(Bytes), Len(s) <= MessageTypeLength,
           s # <<>> => {s[1], s[Len(s)]} \cap {Nul, Space} = {},
           Holds(b, at, Padded(s))
    PROVE  GetString(b, at, MessageTypeLength) = Read(s)
<1> DEFINE q == Padded(s)
<1>1. q \in Seq(Bytes) /\ Len(q) = MessageTypeLength
  BY PaddedIs, Zenon
<1>2. Got(b, at, Len(q)) = Read(q)
  BY <1>1, GotIs, Zenon
<1>3. Trim(Trim(q, {Nul}), {Space}) = s
  BY TrimPadded, Zenon
<1> HIDE DEF q
<1> QED
  BY <1>1, <1>2, <1>3, ReadIs, Zenon DEF GetString, Read

\* GetUUID swaps the halves back.
LEMMA GetUUIDIs ==
    ASSUME NEW b \in Seq(Bytes), NEW at \in Nat, NEW id \in [1 .. 2 * LongLength -> Bytes],
           Holds(b, at, Swapped(id))
    PROVE  GetUUID(b, at) = Read(id)
<1> DEFINE p == SubSeq(id, LongLength + 1, 2 * LongLength)
           q == SubSeq(id, 1, LongLength)
           Long(r) == Read(FromBytes(r))
<1>1. p \in [1 .. LongLength -> Bytes] /\ q \in [1 .. LongLength -> Bytes] /\ q \o p = id
  BY Halves, Zenon
<1>2. Holds(b, at, p \o q)
  BY Zenon DEF Swapped
<1> HIDE DEF p, q
<1>3. LongLength \in Nat
  BY Offsets
<1>4. p \in Seq(Bytes) /\ q \in Seq(Bytes) /\ Len(p) = LongLength /\ Len(q) = LongLength
  BY <1>1, <1>3
<1>5. Holds(b, at, p) /\ Holds(b, at + LongLength, q) /\ at + LongLength \in Nat
  <2>1. Holds(b, at, p) /\ Holds(b, at + Len(p), q)
    BY <1>2, <1>4, HoldsHalves, Zenon
  <2>2. at + LongLength \in Nat
    BY <1>3
  <2> QED
    BY <1>4, <2>1, <2>2, Zenon
<1>6. Got(b, at, LongLength) = Read(p) /\ Got(b, at + LongLength, LongLength) = Read(q)
  <2>1. Got(b, at, Len(p)) = Read(p) /\ Got(b, at + LongLength, Len(q)) = Read(q)
    BY <1>4, <1>5, GotIs, Zenon
  <2> QED
    BY <1>4, <2>1, Zenon
<1>8. GetLong(b, at) = Long(p) /\ GetLong(b, at + LongLength) = Long(q)
  BY <1>6, ReadIs, Zenon DEF GetLong, GetNumber, Read
<1>9. \A r : Long(r).ok = TRUE /\ Long(r).value = FromBytes(r)
  BY ReadIs, Zenon
<1>10. ToBytes(FromBytes(p), LongLength) = p /\ ToBytes(FromBytes(q), LongLength) = q
  BY <1>1, <1>3, WrittenRead
<1> HIDE DEF Long
<1>11. GetUUID(b, at) = [ok |-> TRUE /\ TRUE,
                         value |-> ToBytes(FromBytes(q), LongLength) \o ToBytes(FromBytes(p), LongLength)]
  BY <1>8, <1>9, Zenon DEF GetUUID
<1>12. GetUUID(b, at) = [ok |-> TRUE /\ TRUE, value |-> id]
  BY <1>1, <1>10, <1>11, Zenon
<1> QED
  BY <1>12, Zenon DEF Read

-----------------------------------------------------------------------------
(* What DeserializeClientMessage makes of a frame *)

\* The fields of the header, in the order of the frame,
Name ==
    <<"headerLength", "messageType", "schemaVersion", "createdDate", "sequenceNumber",
      "flags", "messageID", "payloadDigest", "payloadType", "payloadLength">>

Header ==
    {"headerLength", "messageType", "schemaVersion", "createdDate", "sequenceNumber",
     "flags", "messageID", "payloadDigest", "payloadType", "payloadLength"}

\* and their values in the frame of m.
Original(m) ==
    [headerLength |-> PayloadLengthOffset, messageType |-> m.messageType,
     schemaVersion |-> m.schemaVersion, createdDate |-> m.createdDate,
     sequenceNumber |-> m.sequenceNumber, flags |-> m.flags, messageID |-> m.messageID,
     payloadDigest |-> Digest(m.payload), payloadType |-> m.payloadType,
     payloadLength |-> Len(m.payload)]

\* The fields have ten names.
LEMMA Names ==
    /\ \A k \in 1 .. 10 : Name[k] \in Header
    /\ \A f \in Header : \E k \in 1 .. 10 : f = Name[k]
    /\ \A j, k \in 1 .. 10 : Name[j] = Name[k] => j = k
    /\ Name[1] = "headerLength"
    /\ "payload" \notin Header /\ "no" \notin Header /\ "cut" \notin Header
<1>1. \A k \in 1 .. 10 : Name[k] \in Header
  BY DEF Name, Header
<1>2. ASSUME NEW f \in Header PROVE \E k \in 1 .. 10 : f = Name[k]
  <2>1. /\ Name[1] = "headerLength" /\ Name[2] = "messageType" /\ Name[3] = "schemaVersion"
        /\ Name[4] = "createdDate" /\ Name[5] = "sequenceNumber" /\ Name[6] = "flags"
        /\ Name[7] = "messageID" /\ Name[8] = "payloadDigest" /\ Name[9] = "payloadType"
        /\ Name[10] = "payloadLength"
    BY DEF Name
  <2>2. /\ 1 \in 1 .. 10 /\ 2 \in 1 .. 10 /\ 3 \in 1 .. 10 /\ 4 \in 1 .. 10 /\ 5 \in 1 .. 10
        /\ 6 \in 1 .. 10 /\ 7 \in 1 .. 10 /\ 8 \in 1 .. 10 /\ 9 \in 1 .. 10 /\ 10 \in 1 .. 10
    OBVIOUS
  <2> QED
    BY <2>1, <2>2, Zenon DEF Header
<1>3. \A j, k \in 1 .. 10 : Name[j] = Name[k] => j = k
  BY DEF Name
<1> QED
  BY <1>1, <1>2, <1>3 DEF Name, Header

\* The parts of DeserializeClientMessage's result.
LEMMA Deserialized ==
    ASSUME NEW b
    PROVE  LET F == Fields(b)
               r == DeserializeClientMessage(b)
               start == F["headerLength"].value + IntegerLength
           IN  /\ r.ok <=> \A f \in Header : F[f].ok
               /\ r.inRange <=> start <= Len(b)
               /\ r.value["payload"] = SubSeq(b, start + 1, Len(b))
               /\ \A f \in Header : r.value[f] = F[f].value
<1> DEFINE F == Fields(b)
           r == DeserializeClientMessage(b)
           start == F["headerLength"].value + IntegerLength
           p == SubSeq(b, start + 1, Len(b))
           V == [f \in DOMAIN F \cup {"payload"} |-> IF f = "payload" THEN p ELSE F[f].value]
           A == \A f \in DOMAIN F : F[f].ok
           B == start <= Len(b)
<1>1. DOMAIN F = Header
  BY DEF Fields, Header
<1>2. r = [ok |-> A, inRange |-> B, value |-> V]
  BY Zenon DEF DeserializeClientMessage
<1> HIDE DEF F, p
<1>3. V["payload"] = p /\ \A f \in Header : V[f] = F[f].value
  BY <1>1, Names, Zenon
<1> HIDE DEF V, A, B, r
<1>4. r.ok = A /\ r.inRange = B /\ r.value = V
  BY <1>2
<1>5. /\ r.ok <=> \A f \in Header : F[f].ok
      /\ r.inRange <=> start <= Len(b)
      /\ r.value["payload"] = p
      /\ \A f \in Header : r.value[f] = F[f].value
  BY <1>1, <1>3, <1>4, Zenon DEF A, B
<1> QED
  BY <1>5, Zenon DEF F, r, p

\* A field that stands in a frame as in the frame of m is read as m's.
LEMMA FieldRead ==
    ASSUME NEW m \in Messages, Fits(m), NEW b \in Seq(Bytes), NEW k \in 1 .. 10,
           Holds(b, Offset[k], Part(m)[k])
    PROVE  Fields(b)[Name[k]] = Read(Original(m)[Name[k]])
<1> DEFINE P == Part(m)
           F == Fields(b)
           G == Original(m)
<1>1. /\ P[1] = ToBytes(PayloadLengthOffset, IntegerLength) /\ P[2] = Padded(m.messageType)
      /\ P[3] = ToBytes(m.schemaVersion, IntegerLength) /\ P[4] = ToBytes(m.createdDate, LongLength)
      /\ P[5] = ToBytes(m.sequenceNumber, LongLength) /\ P[6] = ToBytes(m.flags, LongLength)
      /\ P[7] = Swapped(m.messageID) /\ P[8] = Digest(m.payload)
      /\ P[9] = ToBytes(m.payloadType, IntegerLength)
      /\ P[10] = ToBytes(Len(m.payload), IntegerLength)
  BY DEF Part
<1>2. /\ Offset[1] = HLOffset /\ Offset[2] = MessageTypeOffset /\ Offset[3] = SchemaVersionOffset
      /\ Offset[4] = CreatedDateOffset /\ Offset[5] = SequenceNumberOffset /\ Offset[6] = FlagsOffset
      /\ Offset[7] = MessageIDOffset /\ Offset[8] = PayloadDigestOffset /\ Offset[9] = PayloadTypeOffset
      /\ Offset[10] = PayloadLengthOffset
  BY DEF Offset
<1>3. /\ Name[1] = "headerLength" /\ Name[2] = "messageType" /\ Name[3] = "schemaVersion"
      /\ Name[4] = "createdDate" /\ Name[5] = "sequenceNumber" /\ Name[6] = "flags"
      /\ Name[7] = "messageID" /\ Name[8] = "payloadDigest" /\ Name[9] = "payloadType"
      /\ Name[10] = "payloadLength"
  BY DEF Name
<1>4. /\ F["headerLength"] = GetUInteger(b, HLOffset)
      /\ F["messageType"] = GetString(b, MessageTypeOffset, MessageTypeLength)
      /\ F["schemaVersion"] = GetUInteger(b, SchemaVersionOffset)
      /\ F["createdDate"] = GetULong(b, CreatedDateOffset)
      /\ F["sequenceNumber"] = GetLong(b, SequenceNumberOffset)
      /\ F["flags"] = GetULong(b, FlagsOffset)
      /\ F["messageID"] = GetUUID(b, MessageIDOffset)
      /\ F["payloadDigest"] = GetBytes(b, PayloadDigestOffset, DigestLength)
      /\ F["payloadType"] = GetUInteger(b, PayloadTypeOffset)
      /\ F["payloadLength"] = GetUInteger(b, PayloadLengthOffset)
  BY DEF Fields
<1>5. /\ G["headerLength"] = PayloadLengthOffset /\ G["messageType"] = m.messageType
      /\ G["schemaVersion"] = m.schemaVersion /\ G["createdDate"] = m.createdDate
      /\ G["sequenceNumber"] = m.sequenceNumber /\ G["flags"] = m.flags
      /\ G["messageID"] = m.messageID /\ G["payloadDigest"] = Digest(m.payload)
      /\ G["payloadType"] = m.payloadType /\ G["payloadLength"] = Len(m.payload)
  BY DEF Original
<1>6. Holds(b, Offset[k], P[k])
  OBVIOUS
<1> HIDE DEF P, F, G
<1>7. CASE k = 1
  <2>1. HLOffset \in Nat /\ PayloadLengthOffset \in Nat /\ PayloadLengthOffset < Int32Limit
    BY Offsets
  <2>2. Holds(b, HLOffset, ToBytes(PayloadLengthOffset, IntegerLength))
    BY <1>1, <1>2, <1>6, <1>7, Zenon
  <2>3. GetUInteger(b, HLOffset) = Read(PayloadLengthOffset)
    BY <2>1, <2>2, GetUIntegerIs, Zenon
  <2> QED
    BY <1>3, <1>4, <1>5, <1>7, <2>3, Zenon DEF F, G
<1>8. CASE k = 2
  <2>1. m.messageType \in Seq(Bytes) /\ Len(m.messageType) <= MessageTypeLength
    BY Fitting, Zenon
  <2>2. m.messageType # <<>> => {m.messageType[1], m.messageType[Len(m.messageType)]} \cap {Nul, Space} = {}
    BY MessagesAssumption, Zenon
  <2>3. MessageTypeOffset \in Nat
    BY Offsets
  <2>4. Holds(b, MessageTypeOffset, Padded(m.messageType))
    BY <1>1, <1>2, <1>6, <1>8, Zenon
  <2>5. GetString(b, MessageTypeOffset, MessageTypeLength) = Read(m.messageType)
    BY <2>1, <2>2, <2>3, <2>4, GetStringIs, Zenon
  <2> QED
    BY <1>3, <1>4, <1>5, <1>8, <2>5, Zenon DEF F, G
<1>9. CASE k = 3
  <2>1. m.schemaVersion \in Nat /\ m.schemaVersion < Int32Limit /\ SchemaVersionOffset \in Nat
    BY Fitting, Offsets, Zenon
  <2>2. Holds(b, SchemaVersionOffset, ToBytes(m.schemaVersion, IntegerLength))
    BY <1>1, <1>2, <1>6, <1>9, Zenon
  <2>3. GetUInteger(b, SchemaVersionOffset) = Read(m.schemaVersion)
    BY <2>1, <2>2, GetUIntegerIs, Zenon
  <2> QED
    BY <1>3, <1>4, <1>5, <1>9, <2>3, Zenon DEF F, G
<1>10. CASE k = 4
  <2>1. m.createdDate \in Nat /\ m.createdDate < Int64Limit /\ CreatedDateOffset \in Nat
    BY Fitting, Offsets, Zenon
  <2>2. Holds(b, CreatedDateOffset, ToBytes(m.createdDate, LongLength))
    BY <1>1, <1>2, <1>6, <1>10, Zenon
  <2>3. GetULong(b, CreatedDateOffset) = Read(m.createdDate)
    BY <2>1, <2>2, GetULongIs, Zenon
  <2> QED
    BY <1>3, <1>4, <1>5, <1>10, <2>3, Zenon DEF F, G
<1>11. CASE k = 5
  <2>1. m.sequenceNumber \in (-Int64Limit) .. (Int64Limit - 1) /\ SequenceNumberOffset \in Nat
    BY Fitting, Offsets, Zenon
  <2>2. Holds(b, SequenceNumberOffset, ToBytes(m.sequenceNumber, LongLength))
    BY <1>1, <1>2, <1>6, <1>11, Zenon
  <2>3. GetLong(b, SequenceNumberOffset) = Read(m.sequenceNumber)
    BY <2>1, <2>2, GetLongIs, Zenon
  <2> QED
    BY <1>3, <1>4, <1>5, <1>11, <2>3, Zenon DEF F, G
<1>12. CASE k = 6
  <2>1. m.flags \in Nat /\ m.flags < Int64Limit /\ FlagsOffset \in Nat
    BY Fitting, Offsets, Zenon
  <2>2. Holds(b, FlagsOffset, ToBytes(m.flags, LongLength))
    BY <1>1, <1>2, <1>6, <1>12, Zenon
  <2>3. GetULong(b, FlagsOffset) = Read(m.flags)
    BY <2>1, <2>2, GetULongIs, Zenon
  <2> QED
    BY <1>3, <1>4, <1>5, <1>12, <2>3, Zenon DEF F, G
<1>13. CASE k = 7
  <2>1. m.messageID \in [1 .. 2 * LongLength -> Bytes] /\ MessageIDOffset \in Nat
    BY Fitting, Offsets, Zenon
  <2>2. Holds(b, MessageIDOffset, Swapped(m.messageID))
    BY <1>1, <1>2, <1>6, <1>13, Zenon
  <2>3. GetUUID(b, MessageIDOffset) = Read(m.messageID)
    BY <2>1, <2>2, GetUUIDIs, Zenon
  <2> QED
    BY <1>3, <1>4, <1>5, <1>13, <2>3, Zenon DEF F, G
<1>14. CASE k = 8
  <2>1. Digest(m.payload) \in [1 .. DigestLength -> Bytes] /\ PayloadDigestOffset \in Nat
    BY Fitting, Offsets, Zenon
  <2>2. Digest(m.payload) \in Seq(Bytes) /\ Len(Digest(m.payload)) = DigestLength
    BY <2>1, Offsets
  <2>3. Holds(b, PayloadDigestOffset, Digest(m.payload))
    BY <1>1, <1>2, <1>6, <1>14, Zenon
  <2>4. GetBytes(b, PayloadDigestOffset, DigestLength) = Read(Digest(m.payload))
    BY <2>1, <2>2, <2>3, GetBytesIs, Zenon
  <2> QED
    BY <1>3, <1>4, <1>5, <1>14, <2>4, Zenon DEF F, G
<1>15. CASE k = 9
  <2>1. m.payloadType \in Nat /\ m.payloadType < Int32Limit /\ PayloadTypeOffset \in Nat
    BY Fitting, Offsets, Zenon
  <2>2. Holds(b, PayloadTypeOffset, ToBytes(m.payloadType, IntegerLength))
    BY <1>1, <1>2, <1>6, <1>15, Zenon
  <2>3. GetUInteger(b, PayloadTypeOffset) = Read(m.payloadType)
    BY <2>1, <2>2, GetUIntegerIs, Zenon
  <2> QED
    BY <1>3, <1>4, <1>5, <1>15, <2>3, Zenon DEF F, G
<1>16. CASE k = 10
  <2>1. Len(m.payload) \in Nat /\ Len(m.payload) < Int32Limit /\ PayloadLengthOffset \in Nat
    BY Fitting, Offsets, Zenon
  <2>2. Holds(b, PayloadLengthOffset, ToBytes(Len(m.payload), IntegerLength))
    BY <1>1, <1>2, <1>6, <1>16, Zenon
  <2>3. GetUInteger(b, PayloadLengthOffset) = Read(Len(m.payload))
    BY <2>1, <2>2, GetUIntegerIs, Zenon
  <2> QED
    BY <1>3, <1>4, <1>5, <1>16, <2>3, Zenon DEF F, G
<1>17. \/ k = 1 \/ k = 2 \/ k = 3 \/ k = 4 \/ k = 5 \/ k = 6 \/ k = 7 \/ k = 8 \/ k = 9 \/ k = 10
  OBVIOUS
<1> QED
  BY <1>7, <1>8, <1>9, <1>10, <1>11, <1>12, <1>13, <1>14, <1>15, <1>16, <1>17, Zenon

\* The fields of m's header but one stand in b.
HeaderBut(b, m, f) == \A k \in 1 .. 10 : Name[k] # f => Holds(b, Offset[k], Part(m)[k])

\* The fields of m were read but one, and p for its payload.
ReadBut(r, m, f, p) ==
    r.value["payload"] = p /\ \A g \in Header \ {f} : r.value[g] = Original(m)[g]

\* What stands in the frame is read, and if that is so of all fields, there is no
\* error.
LEMMA HeaderRead ==
    ASSUME NEW m \in Messages, Fits(m), NEW b \in Seq(Bytes), NEW f, HeaderBut(b, m, f)
    PROVE  LET r == DeserializeClientMessage(b) IN
           /\ \A g \in Header \ {f} : Fields(b)[g].ok /\ Fields(b)[g].value = Original(m)[g]
           /\ \A g \in Header \ {f} : r.value[g] = Original(m)[g]
           /\ f \notin Header => r.ok
<1> DEFINE F == Fields(b)
           r == DeserializeClientMessage(b)
<1>1. ASSUME NEW g \in Header \ {f} PROVE F[g].ok /\ F[g].value = Original(m)[g]
  <2>1. PICK k \in 1 .. 10 : g = Name[k]
    BY Names, Zenon
  <2>2. Holds(b, Offset[k], Part(m)[k])
    BY <2>1, Zenon DEF HeaderBut
  <2>3. F[g] = Read(Original(m)[g])
    BY <2>1, <2>2, FieldRead, Zenon
  <2> QED
    BY <2>3, ReadIs, Zenon
<1>2. /\ r.ok <=> \A g \in Header : F[g].ok
      /\ \A g \in Header : r.value[g] = F[g].value
  BY Deserialized, Zenon
<1>3. \A g \in Header \ {f} : r.value[g] = Original(m)[g]
  BY <1>1, <1>2, Zenon
<1>4. ASSUME f \notin Header PROVE r.ok
  BY <1>1, <1>2, <1>4, Zenon
<1> QED
  BY <1>1, <1>3, <1>4, Zenon

\* With the header length as sent, the payload is what follows the header.
LEMMA BehindHeader ==
    ASSUME NEW m \in Messages, Fits(m), NEW b \in Seq(Bytes), PayloadOffset <= Len(b),
           NEW f, f # "headerLength", HeaderBut(b, m, f)
    PROVE  LET r == DeserializeClientMessage(b) IN
           /\ r.inRange
           /\ ReadBut(r, m, f, SubSeq(b, PayloadOffset + 1, Len(b)))
           /\ f \notin Header => r.ok
<1> DEFINE F == Fields(b)
           r == DeserializeClientMessage(b)
           H == F["headerLength"].value
           start == H + IntegerLength
<1>1. "headerLength" \in Header \ {f}
  BY DEF Header
<1>2. H = Original(m)["headerLength"]
  BY <1>1, HeaderRead, Zenon
<1>3. Original(m)["headerLength"] = PayloadLengthOffset
  BY DEF Original
<1>4. start = PayloadOffset
  BY <1>2, <1>3, Zenon DEF PayloadOffset
<1>5. r.inRange <=> start <= Len(b)
  BY Deserialized, Zenon
<1>6. r.value["payload"] = SubSeq(b, start + 1, Len(b))
  BY Deserialized, Zenon
<1>7. /\ \A g \in Header \ {f} : r.value[g] = Original(m)[g]
      /\ f \notin Header => r.ok
  BY HeaderRead, Zenon
<1> HIDE DEF start, r
<1>8. r.inRange
  BY <1>4, <1>5, Zenon
<1>9. ReadBut(r, m, f, SubSeq(b, PayloadOffset + 1, Len(b)))
  BY <1>4, <1>6, <1>7, Zenon DEF ReadBut
<1> QED
  BY <1>7, <1>8, <1>9, Zenon DEF r

-----------------------------------------------------------------------------
(* Frames that arrive *)

\* The frame of m ends with its payload.
LEMMA PayloadLast ==
    ASSUME NEW m \in Messages, Fits(m)
    PROVE  /\ Layout(m) \in Seq(Bytes) /\ m.payload \in Seq(Bytes) /\ PayloadOffset \in Nat
           /\ Len(m.payload) \in Nat \ {0} /\ Len(Layout(m)) = PayloadOffset + Len(m.payload)
           /\ \A i \in 1 .. Len(m.payload) : Layout(m)[PayloadOffset + i] = m.payload[i]
           /\ SubSeq(Layout(m), PayloadOffset + 1, Len(Layout(m))) = m.payload
<1>1. /\ Layout(m) \in Seq(Bytes) /\ Len(Layout(m)) = FrameLength(m)
      /\ \A k \in 1 .. 11 : Holds(Layout(m), Offset[k], Part(m)[k])
  BY FrameOfFitting, Zenon
<1>2. Offset[11] = PayloadOffset /\ Part(m)[11] = m.payload /\ 11 \in 1 .. 11
  BY DEF Offset, Part
<1>3. Holds(Layout(m), PayloadOffset, m.payload)
  BY <1>1, <1>2, Zenon
<1>4. m.payload \in Seq(Bytes) /\ PayloadOffset \in Nat /\ Len(m.payload) \in Nat \ {0}
  BY Fitting, Offsets, Zenon
<1>5. SubSeq(Layout(m), PayloadOffset + 1, PayloadOffset + Len(m.payload)) = m.payload
  BY <1>1, <1>3, <1>4, HoldsSub, Zenon
<1> QED
  BY <1>1, <1>3, <1>4, <1>5, Zenon DEF Holds, FrameLength

\* A frame that differs from m's in none of the bytes of a field holds that field.
LEMMA HeldStill ==
    ASSUME NEW m \in Messages, Fits(m), NEW b \in Seq(Bytes), PayloadOffset <= Len(b),
           NEW k \in 1 .. 10,
           \A i \in (Offset[k] + 1) .. Offset[k + 1] : b[i] = Layout(m)[i]
    PROVE  Holds(b, Offset[k], Part(m)[k])
<1> DEFINE o == Offset[k]
           e == Offset[k + 1]
           q == Part(m)[k]
           l == Len(q)
<1>1. k \in 1 .. 11
  OBVIOUS
<1>2. q \in Seq(Bytes) /\ o \in Nat /\ o + l = e /\ e <= PayloadOffset /\ l \in Nat
  <2>1. q \in Seq(Bytes) /\ o \in Nat /\ o + l = e /\ e <= PayloadOffset
    BY <1>1, PartTypes, Zenon
  <2> QED
    BY <2>1, LenProperties, Zenon
<1>3. \A i \in 1 .. l : Layout(m)[o + i] = q[i]
  <2>1. Holds(Layout(m), o, q)
    BY <1>1, FrameOfFitting, Zenon
  <2> QED
    BY <2>1, Zenon DEF Holds
<1>4. \A i \in (o + 1) .. e : b[i] = Layout(m)[i]
  OBVIOUS
<1> HIDE DEF o, q, l, e
<1>5. ASSUME NEW i \in 1 .. l PROVE b[o + i] = q[i]
  <2>1. o + i \in (o + 1) .. e
    BY <1>2
  <2> QED
    BY <1>3, <1>4, <2>1, Zenon
<1>6. o + l <= Len(b)
  <2>1. Len(b) \in Nat /\ PayloadOffset \in Nat
    BY Offsets
  <2> QED
    BY <1>2, <2>1
<1> QED
  BY <1>5, <1>6, Zenon DEF Holds, o, q, l

\* A frame with all of m's header holds every field.
LEMMA WholeHeader ==
    ASSUME NEW m \in Messages, Fits(m), NEW b \in Seq(Bytes), PayloadOffset <= Len(b),
           \A i \in 1 .. PayloadOffset : b[i] = Layout(m)[i], NEW f
    PROVE  HeaderBut(b, m, f)
<1> SUFFICES ASSUME NEW k \in 1 .. 10 PROVE Holds(b, Offset[k], Part(m)[k])
  BY Zenon DEF HeaderBut
<1>1. Offset[k] \in Nat /\ Offset[k + 1] <= PayloadOffset /\ PayloadOffset \in Nat /\ Offset[k + 1] \in Nat
  <2>1. k \in 1 .. 11 /\ k + 1 \in 1 .. 11
    OBVIOUS
  <2> QED
    BY <2>1, PartTypes, Offsets, Zenon
<1>2. \A i \in (Offset[k] + 1) .. Offset[k + 1] : i \in 1 .. PayloadOffset
  BY <1>1
<1>3. \A i \in (Offset[k] + 1) .. Offset[k + 1] : b[i] = Layout(m)[i]
  BY <1>2, Zenon
<1> QED
  BY <1>3, HeldStill, Zenon

\* The frame of m is read as m.
LEMMA OriginalRead ==
    ASSUME NEW m \in Messages, Fits(m)
    PROVE  LET r == DeserializeClientMessage(Layout(m)) IN
           r.ok /\ r.inRange /\ ReadBut(r, m, "no", m.payload)
<1> DEFINE b == Layout(m)
           L == Len(m.payload)
<1>1. /\ b \in Seq(Bytes) /\ PayloadOffset \in Nat /\ L \in Nat \ {0} /\ Len(b) = PayloadOffset + L
      /\ SubSeq(b, PayloadOffset + 1, Len(b)) = m.payload
  BY PayloadLast, Zenon
<1>2. PayloadOffset <= Len(b)
  <2> HIDE DEF b, L
  <2> QED
    BY <1>1
<1>3. HeaderBut(b, m, "no")
  BY <1>1, <1>2, WholeHeader, Zenon
<1>4. "no" # "headerLength" /\ "no" \notin Header
  BY DEF Header
<1>5. LET r == DeserializeClientMessage(b) IN
      r.ok /\ r.inRange /\ ReadBut(r, m, "no", SubSeq(b, PayloadOffset + 1, Len(b)))
  BY <1>1, <1>2, <1>3, <1>4, BehindHeader, Zenon
<1> QED
  BY <1>1, <1>5, Zenon

\* A frame that ends within its header is refused.
LEMMA ShortRefused ==
    ASSUME NEW b \in Seq(Bytes), Len(b) < PayloadOffset
    PROVE  ~DeserializeClientMessage(b).ok
<1> DEFINE F == Fields(b)
<1>1. ~(PayloadLengthOffset + IntegerLength <= Len(b))
  <2>1. PayloadOffset = PayloadLengthOffset + IntegerLength /\ PayloadOffset \in Nat /\ Len(b) \in Nat
    BY Offsets
  <2> QED
    BY <2>1
<1>2. Got(b, PayloadLengthOffset, IntegerLength) = [ok |-> FALSE, value |-> <<>>]
  BY <1>1, Zenon DEF Got
<1>3. Got(b, PayloadLengthOffset, IntegerLength).ok = FALSE
  BY <1>2
<1>4. GetNumber(b, PayloadLengthOffset, IntegerLength).ok = FALSE
  BY <1>3 DEF GetNumber
<1>5. GetUInteger(b, PayloadLengthOffset) = [ok |-> FALSE, value |-> 0]
  BY <1>4, Zenon DEF GetUInteger, NotNegative
<1>6. F["payloadLength"] = GetUInteger(b, PayloadLengthOffset)
  BY DEF Fields
<1>7. ~F["payloadLength"].ok
  BY <1>5, <1>6
<1>8. "payloadLength" \in Header
  BY DEF Header
<1> QED
  BY <1>7, <1>8, Deserialized, Zenon

\* What is left of a frame that was cut behind its header has a shorter payload.
LEMMA CutRead ==
    ASSUME NEW m \in Messages, Fits(m), NEW n \in 0 .. (Len(Layout(m)) - 1), NEW b,
           b = SubSeq(Layout(m), 1, n), DeserializeClientMessage(b).ok
    PROVE  /\ DeserializeClientMessage(b).inRange
           /\ \E p \in Misread(m) :
                  p # m.payload /\ ReadBut(DeserializeClientMessage(b), m, "cut", p)
<1> DEFINE a == Layout(m)
           q == m.payload
           L == Len(q)
           O == PayloadOffset
           p == SubSeq(b, O + 1, Len(b))
<1>1. /\ a \in Seq(Bytes) /\ q \in Seq(Bytes) /\ O \in Nat /\ L \in Nat \ {0} /\ Len(a) = O + L
      /\ \A i \in 1 .. L : a[O + i] = q[i]
  BY PayloadLast, Zenon
<1>2. b = SubSeq(a, 1, n) /\ n \in 0 .. (Len(a) - 1)
  OBVIOUS
<1> HIDE DEF a, q, O
<1>3. n \in Nat /\ n <= Len(a) /\ n < O + L
  BY <1>1, <1>2
<1>4. b \in Seq(Bytes) /\ Len(b) = n /\ \A i \in 1 .. n : b[i] = a[i]
  BY <1>1, <1>2, <1>3
<1>5. ~(n < O)
  BY <1>4, ShortRefused, Zenon DEF O
<1>6. O <= n /\ n - O \in 0 .. (L - 1)
  BY <1>1, <1>3, <1>5
<1>7. \A i \in 1 .. O : b[i] = a[i]
  BY <1>1, <1>3, <1>4, <1>6
<1>8. p = SubSeq(q, 1, n - O) /\ Len(p) = n - O
  <2> DEFINE t == SubSeq(b, O + 1, n)
             u == SubSeq(q, 1, n - O)
  <2>1. t \in Seq(Bytes) /\ Len(t) = n - O /\ \A i \in 1 .. (n - O) : t[i] = b[O + i]
    BY <1>1, <1>3, <1>4, <1>6
  <2>2. u \in Seq(Bytes) /\ Len(u) = n - O /\ \A i \in 1 .. (n - O) : u[i] = q[i]
    BY <1>1, <1>3, <1>6
  <2> HIDE DEF t, u
  <2>3. ASSUME NEW i \in 1 .. (n - O) PROVE t[i] = u[i]
    <3>1. O + i \in 1 .. n /\ i \in 1 .. L
      BY <1>1, <1>3, <1>6
    <3>2. b[O + i] = a[O + i] /\ a[O + i] = q[i]
      BY <1>1, <1>4, <3>1, Zenon
    <3> QED
      BY <2>1, <2>2, <3>2, Zenon
  <2>4. t = u
    BY <2>1, <2>2, <2>3, SeqEqual
  <2>5. p = t
    BY <1>4, Zenon DEF t
  <2> QED
    BY <2>1, <2>4, <2>5, Zenon DEF u
<1>9. p \in Misread(m)
  <2>1. p \in {SubSeq(q, 1, j) : j \in 0 .. (Len(q) - 1)}
    BY <1>6, <1>8, Zenon
  <2> HIDE DEF p
  <2>2. p \in DamagedPayloads(q)
    BY <2>1 DEF DamagedPayloads
  <2> QED
    BY <2>2, Zenon DEF Misread, q
<1>10. p # q
  BY <1>1, <1>6, <1>8
<1>11. HeaderBut(b, m, "cut")
  BY <1>4, <1>6, <1>7, WholeHeader, Zenon DEF O, a
<1>12. "cut" # "headerLength"
  OBVIOUS
<1>13. DeserializeClientMessage(b).inRange /\ ReadBut(DeserializeClientMessage(b), m, "cut", p)
  BY <1>4, <1>6, <1>11, <1>12, BehindHeader, Zenon DEF O
<1> QED
  BY <1>9, <1>10, <1>13, Zenon DEF q

\* The bytes of each field lie between its offset and the next.
LEMMA Extents ==
    ASSUME NEW n
    PROVE  /\ DOMAIN Extent(n) = Header \cup {"payload"}
           /\ \A k \in 1 .. 10 : Extent(n)[Name[k]] = (Offset[k] + 1) .. Offset[k + 1]
           /\ Extent(n)["payload"] = (PayloadOffset + 1) .. n
<1>1. DOMAIN Extent(n) = Header \cup {"payload"}
  BY DEF Extent, Header
<1>2. Extent(n)["payload"] = (PayloadOffset + 1) .. n
  BY DEF Extent
<1>3. ASSUME NEW k \in 1 .. 10 PROVE Extent(n)[Name[k]] = (Offset[k] + 1) .. Offset[k + 1]
  BY DEF Extent, Name, Offset
<1> QED
  BY <1>1, <1>2, <1>3

\* No two fields share a byte.
LEMMA OffsetsGrow == \A j \in 1 .. 10 : \A k \in 1 .. 11 : j < k => Offset[j + 1] <= Offset[k]
  BY Offsets DEF Offset

\* A sequence with one element replaced.
Replaced(s, i, e) == [s EXCEPT ![i] = e]

OneReplaced(t, s, i, e) ==
    /\ t \in Seq(Bytes) /\ Len(t) = Len(s)
    /\ \A j \in 1 .. Len(s) : t[j] = IF j = i THEN e ELSE s[j]

LEMMA ReplacedIs ==
    \A s \in Seq(Bytes), i \in Nat, e \in Bytes :
        i \in 1 .. Len(s) => OneReplaced(Replaced(s, i, e), s, i, e)
  BY DEF Replaced, OneReplaced

\* A frame of m with another byte in the field f.
AlteredAt(b, m, f, i, v) ==
    /\ i \in Extent(Len(Layout(m)))[f]
    /\ v \in Bytes /\ v # Layout(m)[i]
    /\ b = Replaced(Layout(m), i, v)

\* An altered byte of the header leaves the other fields and the payload alone.
LEMMA HeaderAltered ==
    ASSUME NEW m \in Messages, Fits(m), NEW f \in Header, NEW i, NEW v, NEW b,
           AlteredAt(b, m, f, i, v)
    PROVE  /\ i \in 1 .. PayloadOffset
           /\ OneReplaced(b, Layout(m), i, v)
           /\ HeaderBut(b, m, f)
           /\ SubSeq(b, PayloadOffset + 1, Len(b)) = m.payload
<1> DEFINE a == Layout(m)
           q == m.payload
           L == Len(q)
           O == PayloadOffset
<1>1. /\ a \in Seq(Bytes) /\ q \in Seq(Bytes) /\ O \in Nat /\ L \in Nat \ {0} /\ Len(a) = O + L
      /\ \A j \in 1 .. L : a[O + j] = q[j]
  BY PayloadLast, Zenon
<1>2. PICK k \in 1 .. 10 : f = Name[k]
  BY Names, Zenon
<1>3. i \in (Offset[k] + 1) .. Offset[k + 1]
  BY <1>2, Extents, Zenon DEF AlteredAt
<1>4. /\ \A j \in 1 .. 11 : Offset[j] \in Nat
      /\ \A j \in 1 .. 10 : Offset[j + 1] <= O /\ Offset[j + 1] \in Nat
  <2>1. \A j \in 1 .. 10 : j + 1 \in 1 .. 11
    OBVIOUS
  <2> QED
    BY <2>1, PartTypes, Zenon
<1>5. k \in 1 .. 11
  OBVIOUS
<1>6. b = Replaced(a, i, v) /\ v \in Bytes
  BY Zenon DEF AlteredAt
<1> HIDE DEF a, q, O
<1>7. Offset[k] \in Nat /\ Offset[k + 1] \in Nat /\ Offset[k + 1] <= O
  BY <1>4, <1>5, Zenon
<1>8. i \in 1 .. O /\ i \in 1 .. Len(a)
  BY <1>1, <1>3, <1>7
<1>9. b \in Seq(Bytes) /\ Len(b) = Len(a) /\ \A j \in 1 .. Len(a) : b[j] = IF j = i THEN v ELSE a[j]
  <2>1. i \in Nat
    BY <1>1, <1>8
  <2>2. OneReplaced(b, a, i, v)
    BY <1>1, <1>6, <1>8, <2>1, ReplacedIs, Zenon
  <2> QED
    BY <2>2, Zenon DEF OneReplaced
<1>10. O <= Len(b) /\ Len(b) = O + L /\ b \in Seq(Bytes) /\ O \in Nat /\ L \in Nat
  BY <1>1, <1>9
<1>11. ASSUME NEW h \in 1 .. 10, Name[h] # f PROVE Holds(b, Offset[h], Part(m)[h])
  <2>1. h # k
    BY <1>2, <1>11
  <2>2. h < k \/ k < h
    BY <2>1
  <2>3. h \in 1 .. 11 /\ Offset[h] \in Nat /\ Offset[h + 1] \in Nat /\ Offset[h + 1] <= O
    <3>1. h \in 1 .. 11
      OBVIOUS
    <3> QED
      BY <1>4, <3>1, Zenon
  <2>4. (h < k => Offset[h + 1] <= Offset[k]) /\ (k < h => Offset[k + 1] <= Offset[h])
    BY <1>5, <2>3, OffsetsGrow, Zenon
  <2>5. ASSUME NEW j \in (Offset[h] + 1) .. Offset[h + 1] PROVE b[j] = a[j]
    <3>1. j # i
      BY <1>3, <1>7, <2>2, <2>3, <2>4
    <3>2. j \in 1 .. Len(a)
      BY <1>9, <1>10, <2>3
    <3> QED
      BY <1>9, <3>1, <3>2, Zenon
  <2> QED
    BY <1>9, <1>10, <2>5, HeldStill, Zenon DEF a, O
<1>12. SubSeq(b, O + 1, Len(b)) = q
  <2> DEFINE t == SubSeq(b, O + 1, Len(b))
  <2>1. t \in Seq(Bytes) /\ Len(t) = L /\ \A j \in 1 .. L : t[j] = b[O + j]
    BY <1>10
  <2> HIDE DEF t
  <2>2. ASSUME NEW j \in 1 .. L PROVE t[j] = q[j]
    <3>1. O + j \in 1 .. Len(a) /\ O + j # i
      BY <1>1, <1>8
    <3>2. b[O + j] = a[O + j]
      BY <1>9, <3>1, Zenon
    <3> QED
      BY <1>1, <2>1, <3>2, Zenon
  <2>3. t = q
    BY <1>1, <2>1, <2>2, SeqEqual
  <2> QED
    BY <2>3 DEF t
<1> QED
  BY <1>8, <1>9, <1>11, <1>12, Zenon DEF HeaderBut, OneReplaced, a, q, O

\* An altered byte of the payload leaves the header alone.
LEMMA PayloadAltered ==
    ASSUME NEW m \in Messages, Fits(m), NEW i, NEW v, NEW b, AlteredAt(b, m, "payload", i, v)
    PROVE  /\ DeserializeClientMessage(b).inRange
           /\ \E p \in Misread(m) :
                  p # m.payload /\ ReadBut(DeserializeClientMessage(b), m, "payload", p)
<1> DEFINE a == Layout(m)
           q == m.payload
           L == Len(q)
           O == PayloadOffset
           k == i - O
           p == SubSeq(b, O + 1, Len(b))
           u == Replaced(q, k, v)
<1>1. /\ a \in Seq(Bytes) /\ q \in Seq(Bytes) /\ O \in Nat /\ L \in Nat \ {0} /\ Len(a) = O + L
      /\ \A j \in 1 .. L : a[O + j] = q[j]
  BY PayloadLast, Zenon
<1>2. i \in (O + 1) .. Len(a) /\ b = Replaced(a, i, v) /\ v \in Bytes /\ v # a[i]
  BY Extents, Zenon DEF AlteredAt
<1> HIDE DEF a, q, O
<1>3. i \in 1 .. Len(a) /\ k \in 1 .. L /\ O + k = i /\ O <= Len(a) /\ i > O
  BY <1>1, <1>2
<1>4. a[i] = q[k]
  BY <1>1, <1>3, Zenon
<1> HIDE DEF k
<1>5. b \in Seq(Bytes) /\ Len(b) = Len(a) /\ \A j \in 1 .. Len(a) : b[j] = IF j = i THEN v ELSE a[j]
  <2>1. i \in Nat
    BY <1>1, <1>3
  <2>2. a \in Seq(Bytes) /\ v \in Bytes /\ i \in 1 .. Len(a)
    BY <1>1, <1>2, <1>3, Zenon
  <2>3. OneReplaced(Replaced(a, i, v), a, i, v)
    BY <2>1, <2>2, ReplacedIs, Zenon
  <2>4. OneReplaced(b, a, i, v)
    BY <1>2, <2>3, Zenon
  <2> QED
    BY <2>4, Zenon DEF OneReplaced
<1>6. \A j \in 1 .. O : b[j] = a[j]
  BY <1>1, <1>3, <1>5
<1>7. u \in Seq(Bytes) /\ Len(u) = L /\ \A j \in 1 .. L : u[j] = IF j = k THEN v ELSE q[j]
  <2>1. k \in Nat
    BY <1>1, <1>3
  <2>2. OneReplaced(u, q, k, v)
    BY <1>1, <1>2, <1>3, <2>1, ReplacedIs, Zenon
  <2> QED
    BY <2>2, Zenon DEF OneReplaced
<1>8. u \in Misread(m)
  <2>1. k \in DOMAIN q
    BY <1>1, <1>3
  <2>2. u \in DamagedPayloads(q)
    BY <1>2, <2>1 DEF DamagedPayloads, Replaced
  <2> QED
    BY <2>2, Zenon DEF Misread, q
<1> HIDE DEF u
<1>9. p = u
  <2> DEFINE t == p
  <2>1. t \in Seq(Bytes) /\ Len(t) = L /\ \A j \in 1 .. L : t[j] = b[O + j]
    BY <1>1, <1>5
  <2> HIDE DEF t
  <2>2. ASSUME NEW j \in 1 .. L PROVE t[j] = u[j]
    <3>1. O + j \in 1 .. Len(a) /\ (O + j = i <=> j = k)
      BY <1>1, <1>3
    <3>2. b[O + j] = IF j = k THEN v ELSE a[O + j]
      BY <1>5, <3>1, Zenon
    <3>3. a[O + j] = q[j]
      BY <1>1, Zenon
    <3> QED
      BY <1>7, <2>1, <3>2, <3>3, Zenon
  <2>3. t = u
    BY <1>7, <2>1, <2>2, SeqEqual
  <2> QED
    BY <2>3, Zenon DEF t
<1>10. u # q
  <2>1. u[k] = v /\ q[k] # v
    BY <1>2, <1>3, <1>4, <1>7, Zenon
  <2> QED
    BY <2>1
<1>11. HeaderBut(b, m, "payload")
  BY <1>3, <1>5, <1>6, WholeHeader, Zenon DEF O, a
<1>12. "payload" # "headerLength"
  OBVIOUS
<1>13. DeserializeClientMessage(b).inRange /\ ReadBut(DeserializeClientMessage(b), m, "payload", p)
  <2>1. O <= Len(b)
    BY <1>3, <1>5, Zenon
  <2> QED
    BY <1>5, <1>11, <1>12, <2>1, BehindHeader, Zenon DEF O
<1> QED
  BY <1>8, <1>9, <1>10, <1>13, Zenon DEF q

-----------------------------------------------------------------------------
(* What Validate makes of the message *)

\* It lets a message pass that was read as it was sent.
LEMMA OriginalValid ==
    ASSUME NEW m \in Messages, Fits(m), NEW r, ReadBut(r, m, "no", m.payload),
           m.messageType # <<>>, m.createdDate # 0
    PROVE  Validate(r.value)
<1>1. PayloadLengthOffset # 0
  BY Offsets
<1>2. /\ r.value.headerLength = Original(m).headerLength
      /\ r.value.messageType = Original(m).messageType
      /\ r.value.createdDate = Original(m).createdDate
      /\ r.value.payloadDigest = Original(m).payloadDigest
      /\ r.value.payload = m.payload
  BY DEF ReadBut, Header
<1>3. /\ r.value.headerLength = PayloadLengthOffset /\ r.value.messageType = m.messageType
      /\ r.value.createdDate = m.createdDate /\ r.value.payloadDigest = Digest(m.payload)
  BY <1>2 DEF Original
<1> QED
  BY <1>1, <1>2, <1>3, Zenon DEF Validate

\* It refuses what was misread for a payload, unless it is a publication's, as
\* long as type, digest and length of the payload arrived as sent.
LEMMA MisreadRefused ==
    ASSUME NEW m \in Messages, Fits(m), m.messageType \notin Publications, NEW r, NEW f,
           f \notin {"messageType", "payloadDigest", "payloadLength"},
           NEW p \in Misread(m), p # m.payload, ReadBut(r, m, f, p)
    PROVE  ~Validate(r.value)
<1>1. Digest(p) # Digest(m.payload)
  BY DigestAssumption, Zenon
<1>2. Len(m.payload) # 0
  <2>1. Len(m.payload) \in Nat \ {0}
    BY Fitting, Zenon
  <2> QED
    BY <2>1
<1>3. /\ r.value.messageType = Original(m).messageType
      /\ r.value.payloadDigest = Original(m).payloadDigest
      /\ r.value.payloadLength = Original(m).payloadLength
      /\ r.value.payload = p
  BY DEF ReadBut, Header
<1>4. /\ r.value.messageType = m.messageType /\ r.value.payloadDigest = Digest(m.payload)
      /\ r.value.payloadLength = Len(m.payload)
  BY <1>3 DEF Original
<1> QED
  BY <1>1, <1>2, <1>3, <1>4, Zenon DEF Validate

\* It refuses an altered digest.
LEMMA DigestAltered ==
    ASSUME NEW m \in Messages, Fits(m), m.messageType \notin Publications,
           NEW i, NEW v, NEW b, AlteredAt(b, m, "payloadDigest", i, v)
    PROVE  ~Validate(DeserializeClientMessage(b).value)
<1> DEFINE r == DeserializeClientMessage(b)
           a == Layout(m)
           D == Digest(m.payload)
           o == PayloadDigestOffset
           d == SubSeq(b, o + 1, o + DigestLength)
<1>1. "payloadDigest" \in Header /\ "payloadDigest" # "headerLength"
  BY DEF Header
<1>2. /\ b \in Seq(Bytes) /\ Len(b) = Len(a) /\ HeaderBut(b, m, "payloadDigest")
      /\ \A j \in 1 .. Len(b) : b[j] = IF j = i THEN v ELSE a[j]
      /\ SubSeq(b, PayloadOffset + 1, Len(b)) = m.payload
  <2>1. /\ OneReplaced(b, a, i, v) /\ HeaderBut(b, m, "payloadDigest")
        /\ SubSeq(b, PayloadOffset + 1, Len(b)) = m.payload
    BY <1>1, HeaderAltered, Zenon
  <2> QED
    BY <2>1, Zenon DEF OneReplaced
<1>3. a \in Seq(Bytes) /\ Len(m.payload) \in Nat \ {0} /\ Len(a) = PayloadOffset + Len(m.payload)
  BY PayloadLast, Zenon
<1>4. /\ o \in Nat /\ DigestLength \in Nat /\ o + DigestLength <= PayloadOffset
      /\ o + DigestLength = PayloadTypeOffset /\ PayloadOffset \in Nat
  BY Offsets
<1>5. PayloadOffset <= Len(b) /\ o + DigestLength <= Len(b)
  <2> HIDE DEF a, o
  <2> QED
    BY <1>2, <1>3, <1>4
<1>6. ReadBut(r, m, "payloadDigest", m.payload)
  BY <1>1, <1>2, <1>5, BehindHeader, Zenon
<1>7. r.value["payloadDigest"] = d
  <2>1. GetBytes(b, o, DigestLength) = Read(d)
    BY <1>5, Zenon DEF GetBytes, Got, Read
  <2>2. Fields(b)["payloadDigest"] = GetBytes(b, o, DigestLength)
    BY DEF Fields
  <2>3. Fields(b)["payloadDigest"].value = d
    BY <2>1, <2>2, ReadIs, Zenon
  <2> QED
    BY <1>1, <2>3, Deserialized, Zenon
<1>8. i \in (o + 1) .. (o + DigestLength)
  <2>1. Extent(Len(a))["payloadDigest"] = (o + 1) .. PayloadTypeOffset
    BY DEF Extent
  <2> QED
    BY <1>4, <2>1, Zenon DEF AlteredAt
<1>9. D[i - o] = a[i]
  <2>1. Offset[8] = o /\ Part(m)[8] = D /\ 8 \in 1 .. 11
    BY DEF Offset, Part
  <2>2. Holds(a, o, D)
    BY <2>1, FrameOfFitting, Zenon
  <2>3. D \in [1 .. DigestLength -> Bytes]
    BY Fitting, Zenon
  <2>4. Len(D) = DigestLength
    BY <1>4, <2>3
  <2>5. \A j \in 1 .. DigestLength : a[o + j] = D[j]
    BY <2>2, <2>4, Zenon DEF Holds
  <2> HIDE DEF a, D, o
  <2>6. i - o \in 1 .. DigestLength /\ o + (i - o) = i
    BY <1>4, <1>8
  <2> QED
    BY <2>5, <2>6, Zenon
<1>10. d[i - o] = v
  <2> HIDE DEF a, o
  <2>1. i \in 1 .. Len(b)
    BY <1>2, <1>4, <1>5, <1>8
  <2>2. b[i] = v
    BY <1>2, <2>1, Zenon
  <2>3. i - o \in 1 .. DigestLength /\ o + (i - o) = i /\ o \in Nat /\ Len(b) \in Nat
    BY <1>2, <1>4, <1>8
  <2>4. \A j \in 1 .. DigestLength : d[j] = b[o + j]
    BY <1>2, <1>4, <1>5
  <2> QED
    BY <2>2, <2>3, <2>4, Zenon
<1>11. v # a[i]
  BY Zenon DEF AlteredAt
<1>12. d # D
  BY <1>9, <1>10, <1>11, Zenon
<1>13. Len(m.payload) # 0
  BY <1>3
<1> HIDE DEF r, d
<1>14. /\ r.value.messageType = Original(m).messageType
       /\ r.value.payloadLength = Original(m).payloadLength
       /\ r.value.payload = m.payload
  BY <1>6 DEF ReadBut, Header
<1>15. r.value.messageType = m.messageType /\ r.value.payloadLength = Len(m.payload)
  BY <1>14 DEF Original
<1>16. r.value.payloadDigest = d
  BY <1>7
<1>17. ~Validate(r.value)
  BY <1>12, <1>13, <1>14, <1>15, <1>16, Zenon DEF Validate
<1> QED
  BY <1>17, Zenon DEF r

\* It refuses what was read with an altered header length: the tail that is taken
\* for the payload has another length.
LEMMA LengthAltered ==
    ASSUME NEW m \in Messages, Fits(m), m.messageType \notin Publications,
           NEW i, NEW v, NEW b, AlteredAt(b, m, "headerLength", i, v),
           DeserializeClientMessage(b).ok, DeserializeClientMessage(b).inRange
    PROVE  ~Validate(DeserializeClientMessage(b).value)
<1> DEFINE r == DeserializeClientMessage(b)
           a == Layout(m)
           F == Fields(b)
           H == F["headerLength"].value
           n == IntegerLength
           c == SubSeq(b, 1, n)
           w == ToBytes(PayloadLengthOffset, n)
           start == H + n
           p == SubSeq(b, start + 1, Len(b))
<1>1. "headerLength" \in Header
  BY DEF Header
<1>2. /\ b \in Seq(Bytes) /\ Len(b) = Len(a) /\ HeaderBut(b, m, "headerLength")
      /\ \A j \in 1 .. Len(b) : b[j] = IF j = i THEN v ELSE a[j]
  <2>1. OneReplaced(b, a, i, v) /\ HeaderBut(b, m, "headerLength")
    BY <1>1, HeaderAltered, Zenon
  <2> QED
    BY <2>1, Zenon DEF OneReplaced
<1>3. a \in Seq(Bytes) /\ Len(m.payload) \in Nat \ {0} /\ Len(a) = PayloadOffset + Len(m.payload)
  BY PayloadLast, Zenon
<1>4. n \in Nat \ {0} /\ PayloadOffset \in Nat /\ n <= PayloadOffset /\ HLOffset = 0
      /\ PayloadOffset = PayloadLengthOffset + n /\ PayloadLengthOffset \in Nat
  BY Offsets
<1>5. n <= Len(b) /\ Len(b) \in Nat
  <2> HIDE DEF a, n
  <2> QED
    BY <1>2, <1>3, <1>4
<1>6. i \in 1 .. n
  <2>1. Extent(Len(a))["headerLength"] = (HLOffset + 1) .. MessageTypeOffset
    BY DEF Extent
  <2>2. MessageTypeOffset = n /\ HLOffset + 1 = 1
    BY Offsets
  <2> QED
    BY <2>1, <2>2, Zenon DEF AlteredAt
<1>7. c \in [1 .. n -> Bytes] /\ Len(c) = n /\ \A j \in 1 .. n : c[j] = b[j]
  <2> DEFINE k == n
  <2>1. b \in Seq(Bytes) /\ k \in Nat /\ k <= Len(b)
    BY <1>2, <1>4, <1>5, Zenon
  <2> HIDE DEF k
  <2> DEFINE d == SubSeq(b, 1, k)
  <2>2. d \in Seq(Bytes) /\ Len(d) = k /\ \A j \in 1 .. k : d[j] = b[j]
    BY <2>1
  <2> HIDE DEF d
  <2>3. d \in [1 .. k -> Bytes]
    BY <2>1, <2>2
  <2> QED
    BY <2>2, <2>3, Zenon DEF k, d
<1>8. H = FromBytes(c) /\ H \in Nat
  <2>1. F["headerLength"].ok
    BY <1>1, Deserialized, Zenon
  <2>2. F["headerLength"] = NotNegative(GetNumber(b, HLOffset, n))
    BY DEF Fields, GetUInteger
  <2>3. Got(b, HLOffset, n) = Read(c)
    <3>1. HLOffset + n = n /\ HLOffset + 1 = 1
      BY <1>4
    <3> QED
      BY <1>5, <3>1, Zenon DEF Got, Read
  <2>4. GetNumber(b, HLOffset, n) = Read(FromBytes(c))
    BY <2>3, ReadIs, Zenon DEF GetNumber, Read
  <2> DEFINE g == GetNumber(b, HLOffset, n)
             none == [ok |-> FALSE, value |-> 0]
  <2> HIDE DEF F, c
  <2>5. ~none.ok
    OBVIOUS
  <2>6. NotNegative(g) = IF g.ok /\ g.value >= 0 THEN g ELSE none
    BY Zenon DEF NotNegative
  <2> HIDE DEF g, none
  <2>7. F["headerLength"] = g /\ g.value >= 0
    BY <2>1, <2>2, <2>5, <2>6, Zenon DEF g
  <2>8. g.value = FromBytes(c)
    BY <2>4, ReadIs, Zenon DEF g
  <2>9. FromBytes(c) \in Int
    BY <1>4, <1>7, WrittenRead
  <2>10. FromBytes(c) >= 0
    BY <2>7, <2>8, Zenon
  <2>11. FromBytes(c) \in Nat
    BY <2>9, <2>10
  <2> QED
    BY <2>7, <2>8, <2>11, Zenon
<1>9. H # PayloadLengthOffset
  <2>1. ToBytes(H, n) = c
    BY <1>4, <1>7, <1>8, WrittenRead
  <2>2. c[i] = v
    <3>1. i \in 1 .. Len(b)
      <4> HIDE DEF n
      <4> QED
        BY <1>4, <1>5, <1>6
    <3> QED
      BY <1>2, <1>6, <1>7, <3>1, Zenon
  <2>3. w[i] = a[i]
    <3>1. Offset[1] = 0 /\ Part(m)[1] = w /\ 1 \in 1 .. 11
      BY <1>4 DEF Offset, Part
    <3>2. Holds(a, 0, w)
      BY <3>1, FrameOfFitting, Zenon
    <3>3. Len(w) = n
      <4>1. PayloadLengthOffset \in Int /\ n \in Nat
        BY <1>4
      <4> QED
        BY <4>1, ToBytesType, Zenon
    <3>4. a[0 + i] = w[i]
      BY <1>6, <3>2, <3>3, Zenon DEF Holds
    <3>5. 0 + i = i
      BY <1>4, <1>6
    <3> QED
      BY <3>4, <3>5, Zenon
  <2>4. v # a[i]
    BY Zenon DEF AlteredAt
  <2> QED
    BY <2>1, <2>2, <2>3, <2>4, Zenon
<1>10. start <= Len(b)
  BY Deserialized, Zenon
<1>11. ReadBut(r, m, "headerLength", p)
  <2>1. r.value["payload"] = p
    BY Deserialized, Zenon
  <2>2. \A g \in Header \ {"headerLength"} : r.value[g] = Original(m)[g]
    <3>1. HeaderBut(b, m, "headerLength") /\ b \in Seq(Bytes)
      BY <1>2, Zenon
    <3> QED
      BY <3>1, HeaderRead
  <2> QED
    BY <2>1, <2>2, Zenon DEF ReadBut
<1> HIDE DEF H, n, a
<1>12. start \in Nat /\ start # PayloadOffset /\ n <= start
  BY <1>4, <1>8, <1>9
<1> HIDE DEF start
<1>13. p \in Seq(Bytes) /\ Len(p) = Len(b) - start /\ \A j \in 1 .. (Len(b) - start) : p[j] = b[start + j]
  BY <1>2, <1>5, <1>10, <1>12
<1>14. p # m.payload
  <2> DEFINE L == Len(m.payload)
  <2>1. L \in Nat /\ Len(b) = PayloadOffset + L
    BY <1>2, <1>3
  <2> HIDE DEF L, p
  <2>2. Len(p) # L
    BY <1>4, <1>12, <1>13, <2>1
  <2> QED
    BY <2>2, Zenon DEF L
<1>15. p \in Misread(m)
  <2> DEFINE t == SubSeq(a, start + 1, Len(a))
  <2>1. t \in Seq(Bytes) /\ Len(t) = Len(b) - start /\ \A j \in 1 .. (Len(b) - start) : t[j] = a[start + j]
    BY <1>2, <1>3, <1>5, <1>10, <1>12
  <2>2. start + 1 \in 1 .. (Len(a) + 1)
    BY <1>2, <1>5, <1>10, <1>12
  <2>3. t \in Misread(m)
    BY <2>2, Zenon DEF Misread, a
  <2> HIDE DEF t, p
  <2>4. ASSUME NEW j \in 1 .. (Len(b) - start) PROVE p[j] = t[j]
    <3>1. start + j \in 1 .. Len(b) /\ start + j # i
      BY <1>4, <1>5, <1>6, <1>10, <1>12
    <3>2. b[start + j] = a[start + j]
      BY <1>2, <3>1, Zenon
    <3> QED
      BY <1>13, <2>1, <3>2, Zenon
  <2>5. p = t
    BY <1>13, <2>1, <2>4, SeqEqual
  <2> QED
    BY <2>3, <2>5, Zenon
<1>16. "headerLength" \notin {"messageType", "payloadDigest", "payloadLength"}
  OBVIOUS
<1> HIDE DEF p, r
<1>17. ~Validate(r.value)
  BY <1>11, <1>14, <1>15, <1>16, MisreadRefused, Zenon
<1> QED
  BY <1>17, Zenon DEF r

\* d has the fields of m but one.
OriginalBut(d, m, f) == \A g \in DOMAIN m \ {f} : d[g] = m[g]

\* The fields of a message are among those that were read.
LEMMA OriginalFields ==
    ASSUME NEW m \in Messages, NEW r, NEW f, ReadBut(r, m, f, m.payload)
    PROVE  OriginalBut(r.value, m, f)
<1>1. DOMAIN m = {"messageType", "schemaVersion", "createdDate", "sequenceNumber", "flags",
                  "messageID", "payloadType", "payload"}
  <2>1. m \in ClientMessage
    BY MessagesAssumption
  <2> QED
    BY <2>1 DEF ClientMessage
<1>2. /\ Original(m)["messageType"] = m["messageType"]
      /\ Original(m)["schemaVersion"] = m["schemaVersion"]
      /\ Original(m)["createdDate"] = m["createdDate"]
      /\ Original(m)["sequenceNumber"] = m["sequenceNumber"]
      /\ Original(m)["flags"] = m["flags"] /\ Original(m)["messageID"] = m["messageID"]
      /\ Original(m)["payloadType"] = m["payloadType"]
  BY DEF Original
<1>3. \A g \in DOMAIN m : g # "payload" => g \in Header /\ Original(m)[g] = m[g]
  BY <1>1, <1>2, Zenon DEF Header
<1>4. r.value["payload"] = m["payload"] /\ \A g \in Header \ {f} : r.value[g] = Original(m)[g]
  BY Zenon DEF ReadBut
<1> QED
  BY <1>3, <1>4, Zenon DEF OriginalBut

-----------------------------------------------------------------------------
(* The way of a message from the sender to the receiver *)

\* A frame of m that was damaged in f.
DamagedFrame(b, m, f) ==
    \/ f = "cut" /\ \E n \in 0 .. (Len(Layout(m)) - 1) : b = SubSeq(Layout(m), 1, n)
    \/ f \in Header \cup {"payload"} /\ \E i, v : AlteredAt(b, m, f, i, v)

\* The frame is the one that was sent, or a damaged one.
Underway ==
    \/ damaged = "no" /\ frame = Layout(message)
    \/ DamagedFrame(frame, message, damaged)

Travelled == {"sent", "unreadable", "panicked", "decoded", "valid", "invalid"}

\* The inductive invariant: which frame is under way, and what was made of it.
CodecInv ==
    /\ message \in Messages
    /\ step = "new" => damaged = "no"
    /\ step = "refused" => ~Fits(message)
    /\ step \in Travelled => Fits(message) /\ Underway
    /\ step = "unreadable" => ~DeserializeClientMessage(frame).ok
    /\ step = "panicked" =>
           DeserializeClientMessage(frame).ok /\ ~DeserializeClientMessage(frame).inRange
    /\ step \in {"decoded", "valid", "invalid"} =>
           /\ DeserializeClientMessage(frame).ok
           /\ DeserializeClientMessage(frame).inRange
           /\ decoded = DeserializeClientMessage(frame).value
    /\ step = "valid" => Validate(decoded)
    /\ step = "invalid" => ~Validate(decoded)

\* The invariant holds before the message is serialised,
LEMMA CodecInit == FrameInit => CodecInv
  BY DEF FrameInit, CodecInv, Travelled

\* and every step keeps it,
LEMMA CodecStep == CodecInv /\ [FrameNext]_frameVars => CodecInv'
<1> SUFFICES ASSUME CodecInv, [FrameNext]_frameVars PROVE CodecInv'
  OBVIOUS
<1>1. CASE Serialize
  <2> DEFINE r == SerializeClientMessage(message)
  <2>1. /\ step = "new" /\ frame' = r.value /\ step' = (IF r.ok THEN "sent" ELSE "refused")
        /\ message' = message /\ damaged' = damaged /\ decoded' = decoded
    BY <1>1, Zenon DEF Serialize
  <2>2. message \in Messages /\ damaged = "no"
    BY <2>1, Zenon DEF CodecInv
  <2>3. CASE r.ok
    <3>1. Fits(message) /\ r = [ok |-> TRUE, value |-> Layout(message)]
      BY <2>2, <2>3, AcceptedFits, FrameOfFitting, Zenon
    <3>2. step' = "sent" /\ frame' = Layout(message)
      BY <2>1, <2>3, <3>1
    <3>3. Fits(message)' /\ (damaged = "no" /\ frame = Layout(message))'
      BY <2>1, <2>2, <3>1, <3>2, Zenon
    <3> QED
      BY <2>1, <2>2, <3>2, <3>3 DEF CodecInv, Underway, Travelled
  <2>4. CASE ~r.ok
    <3>1. ~Fits(message)
      <4>1. ASSUME Fits(message) PROVE FALSE
        <5>1. r = [ok |-> TRUE, value |-> Layout(message)]
          BY <2>2, <4>1, FrameOfFitting, Zenon
        <5> QED
          BY <2>4, <5>1
      <4> QED
        BY <4>1
    <3>2. step' = "refused" /\ ~Fits(message)'
      BY <2>1, <2>4, <3>1, Zenon
    <3> QED
      BY <2>1, <2>2, <3>2 DEF CodecInv, Travelled
  <2> QED
    BY <2>3, <2>4
<1>2. CASE Damage
  <2>1. /\ step = "sent" /\ damaged = "no"
        /\ message' = message /\ decoded' = decoded /\ step' = step
    BY <1>2, Zenon DEF Damage
  <2>2. message \in Messages /\ Fits(message) /\ frame = Layout(message)
    <3>1. ~DamagedFrame(frame, message, "no")
      BY Names, Zenon DEF DamagedFrame
    <3> QED
      BY <2>1, <3>1 DEF CodecInv, Underway, Travelled
  <2>3. DamagedFrame(frame', message, damaged')
    <3>1. CASE Cut
      BY <2>2, <3>1, Zenon DEF Cut, DamagedFrame
    <3>2. ASSUME NEW f \in DOMAIN Extent(Len(frame)), Alter(f)
          PROVE  DamagedFrame(frame', message, damaged')
      <4>1. PICK i \in Extent(Len(frame))[f] :
                \E v \in Bytes \ {frame[i]} : frame' = Replaced(frame, i, v)
        BY <3>2, Zenon DEF Alter, Replaced
      <4>2. PICK v \in Bytes \ {frame[i]} : frame' = Replaced(frame, i, v)
        BY <4>1, Zenon
      <4>3. AlteredAt(frame', message, f, i, v)
        BY <2>2, <4>1, <4>2, Zenon DEF AlteredAt
      <4>4. f \in Header \cup {"payload"} /\ damaged' = f
        BY <3>2, Extents, Zenon DEF Alter
      <4> QED
        BY <4>3, <4>4, Zenon DEF DamagedFrame
    <3> QED
      BY <1>2, <3>1, <3>2, Zenon DEF Damage
  <2>4. DamagedFrame(frame, message, damaged)' /\ Fits(message)'
    BY <2>1, <2>2, <2>3, Zenon
  <2> QED
    BY <2>1, <2>2, <2>4 DEF CodecInv, Underway, Travelled
<1>3. CASE Deserialize
  <2> DEFINE r == DeserializeClientMessage(frame)
  <2>1. /\ step = "sent" /\ message' = message /\ frame' = frame /\ damaged' = damaged
        /\ \/ ~r.ok /\ step' = "unreadable"
           \/ r.ok /\ ~r.inRange /\ step' = "panicked"
           \/ r.ok /\ r.inRange /\ step' = "decoded" /\ decoded' = r.value
    BY <1>3, Zenon DEF Deserialize
  <2>2. message \in Messages /\ Fits(message) /\ Underway
    BY <2>1 DEF CodecInv, Travelled
  <2>3. message' \in Messages /\ Fits(message)' /\ Underway'
    BY <2>1, <2>2, Zenon DEF Underway
  <2>4. CASE ~r.ok /\ step' = "unreadable"
    <3>1. ~DeserializeClientMessage(frame)'.ok
      BY <2>1, <2>4, Zenon
    <3> QED
      BY <2>3, <2>4, <3>1 DEF CodecInv, Travelled
  <2>5. CASE r.ok /\ ~r.inRange /\ step' = "panicked"
    <3>1. DeserializeClientMessage(frame)'.ok /\ ~DeserializeClientMessage(frame)'.inRange
      BY <2>1, <2>5, Zenon
    <3> QED
      BY <2>3, <2>5, <3>1 DEF CodecInv, Travelled
  <2>6. CASE r.ok /\ r.inRange /\ step' = "decoded" /\ decoded' = r.value
    <3>1. /\ DeserializeClientMessage(frame)'.ok /\ DeserializeClientMessage(frame)'.inRange
          /\ decoded' = DeserializeClientMessage(frame)'.value
      BY <2>1, <2>6, Zenon
    <3> QED
      BY <2>3, <2>6, <3>1 DEF CodecInv, Travelled
  <2> QED
    BY <2>1, <2>4, <2>5, <2>6, Zenon
<1>4. CASE ValidateDecoded
  <2>1. /\ step = "decoded" /\ step' = (IF Validate(decoded) THEN "valid" ELSE "invalid")
        /\ message' = message /\ frame' = frame /\ damaged' = damaged /\ decoded' = decoded
    BY <1>4, Zenon DEF ValidateDecoded
  <2>2. /\ message \in Messages /\ Fits(message) /\ Underway
        /\ DeserializeClientMessage(frame).ok /\ DeserializeClientMessage(frame).inRange
        /\ decoded = DeserializeClientMessage(frame).value
    BY <2>1 DEF CodecInv, Travelled
  <2>3. /\ message' \in Messages /\ Fits(message)' /\ Underway'
        /\ DeserializeClientMessage(frame)'.ok /\ DeserializeClientMessage(frame)'.inRange
        /\ decoded' = DeserializeClientMessage(frame)'.value
    BY <2>1, <2>2, Zenon DEF Underway
  <2>4. CASE Validate(decoded)
    <3>1. step' = "valid" /\ Validate(decoded)'
      BY <2>1, <2>4, Zenon
    <3> QED
      BY <2>3, <3>1 DEF CodecInv, Travelled
  <2>5. CASE ~Validate(decoded)
    <3>1. step' = "invalid" /\ ~Validate(decoded)'
      BY <2>1, <2>5, Zenon
    <3> QED
      BY <2>3, <3>1 DEF CodecInv, Travelled
  <2> QED
    BY <2>4, <2>5
<1>5. CASE UNCHANGED frameVars
  BY <1>5, Zenon DEF CodecInv, Underway, frameVars
<1> QED
  BY <1>1, <1>2, <1>3, <1>4, <1>5 DEF FrameNext

\* and so it always holds.
LEMMA CodecInvariant == FrameSpec => []CodecInv
  BY CodecInit, CodecStep, PTL DEF FrameSpec

\* SerializeClientMessage writes the fields one after the other, without a gap
\* or an overlap, for every message that fits, and refuses every other.
THEOREM FrameIsLayoutCorrect == FrameSpec => []FrameIsLayout
<1>1. CodecInv => FrameIsLayout
  <2>1. ~DamagedFrame(frame, message, "no")
    BY Names, Zenon DEF DamagedFrame
  <2> QED
    BY <2>1 DEF CodecInv, FrameIsLayout, Underway, Travelled
<1> QED
  BY <1>1, CodecInvariant, PTL

\* A damaged frame that Validate lets pass differs from the one that was sent in
\* a single field of its header that the digest does not cover.
LEMMA DamagedPasses ==
    ASSUME NEW m \in Messages, Fits(m), m.messageType \notin Publications,
           NEW b, NEW f, DamagedFrame(b, m, f),
           DeserializeClientMessage(b).ok, DeserializeClientMessage(b).inRange,
           Validate(DeserializeClientMessage(b).value)
    PROVE  /\ f \in Header \ {"headerLength", "payloadDigest"}
           /\ ReadBut(DeserializeClientMessage(b), m, f, m.payload)
<1> DEFINE r == DeserializeClientMessage(b)
<1>1. ASSUME f = "cut" PROVE FALSE
  <2>1. PICK n \in 0 .. (Len(Layout(m)) - 1) : b = SubSeq(Layout(m), 1, n)
    BY <1>1, Names, Zenon DEF DamagedFrame
  <2>2. PICK p \in Misread(m) : p # m.payload /\ ReadBut(r, m, "cut", p)
    BY <2>1, CutRead, Zenon
  <2>3. "cut" \notin {"messageType", "payloadDigest", "payloadLength"}
    OBVIOUS
  <2> QED
    BY <2>2, <2>3, MisreadRefused, Zenon
<1>2. f \in Header \cup {"payload"}
  BY <1>1, Zenon DEF DamagedFrame
<1>3. PICK i, v : AlteredAt(b, m, f, i, v)
  BY <1>1, Zenon DEF DamagedFrame
<1>4. ASSUME f = "payload" PROVE FALSE
  <2>1. PICK p \in Misread(m) : p # m.payload /\ ReadBut(r, m, "payload", p)
    BY <1>3, <1>4, PayloadAltered, Zenon
  <2>2. "payload" \notin {"messageType", "payloadDigest", "payloadLength"}
    OBVIOUS
  <2> QED
    BY <2>1, <2>2, MisreadRefused, Zenon
<1>5. f # "payloadDigest"
  BY <1>3, DigestAltered, Zenon
<1>6. f # "headerLength"
  BY <1>3, LengthAltered, Zenon
<1>7. f \in Header
  BY <1>2, <1>4, Zenon
<1>8. /\ OneReplaced(b, Layout(m), i, v) /\ HeaderBut(b, m, f)
      /\ SubSeq(b, PayloadOffset + 1, Len(b)) = m.payload
  BY <1>3, <1>7, HeaderAltered, Zenon
<1>9. b \in Seq(Bytes) /\ Len(b) = Len(Layout(m))
  BY <1>8, Zenon DEF OneReplaced
<1>10. PayloadOffset <= Len(b)
  <2>1. /\ PayloadOffset \in Nat /\ Len(m.payload) \in Nat \ {0}
        /\ Len(Layout(m)) = PayloadOffset + Len(m.payload)
    BY PayloadLast, Zenon
  <2> QED
    BY <1>9, <2>1
<1>11. ReadBut(r, m, f, m.payload)
  BY <1>6, <1>8, <1>9, <1>10, BehindHeader, Zenon
<1> QED
  BY <1>5, <1>6, <1>7, <1>11, Zenon

\* Only an altered header length takes the payload's start out of the frame.
LEMMA OutOfRange ==
    ASSUME NEW m \in Messages, Fits(m), NEW b, NEW f, DamagedFrame(b, m, f),
           DeserializeClientMessage(b).ok, ~DeserializeClientMessage(b).inRange
    PROVE  f = "headerLength"
<1>1. f # "cut"
  <2>1. ASSUME f = "cut" PROVE FALSE
    <3>1. PICK n \in 0 .. (Len(Layout(m)) - 1) : b = SubSeq(Layout(m), 1, n)
      BY <2>1, Names, Zenon DEF DamagedFrame
    <3> QED
      BY <3>1, CutRead, Zenon
  <2> QED
    BY <2>1
<1>2. PICK i, v : AlteredAt(b, m, f, i, v)
  BY <1>1, Zenon DEF DamagedFrame
<1>3. f # "payload"
  BY <1>2, PayloadAltered, Zenon
<1>4. f \in Header
  BY <1>1, <1>3, Zenon DEF DamagedFrame
<1>5. OneReplaced(b, Layout(m), i, v) /\ HeaderBut(b, m, f)
  BY <1>2, <1>4, HeaderAltered, Zenon
<1>6. b \in Seq(Bytes) /\ Len(b) = Len(Layout(m))
  BY <1>5, Zenon DEF OneReplaced
<1>7. PayloadOffset <= Len(b)
  <2>1. /\ PayloadOffset \in Nat /\ Len(m.payload) \in Nat \ {0}
        /\ Len(Layout(m)) = PayloadOffset + Len(m.payload)
    BY PayloadLast, Zenon
  <2> QED
    BY <1>6, <2>1
<1> QED
  BY <1>5, <1>6, <1>7, BehindHeader, Zenon

\* However a frame is cut or a byte of it altered (DeserializeClientMessage,
\* Validate): what passes has the payload that was sent, and at most one other
\* field of the header that the digest does not cover; and only an altered header
\* length makes the reader panic.
THEOREM DamageContainedCorrect == FrameSpec => []DamageContained
<1>1. CodecInv => DamageContained
  <2> SUFFICES ASSUME CodecInv PROVE DamageContained
    OBVIOUS
  <2> DEFINE r == DeserializeClientMessage(frame)
  <2>1. ASSUME step = "valid", damaged # "no" => message.messageType \notin Publications
        PROVE  /\ damaged \notin {"cut", "headerLength", "payloadDigest", "payload"}
               /\ \A f \in DOMAIN message \ {damaged} : decoded[f] = message[f]
    <3>1. /\ message \in Messages /\ Fits(message) /\ Underway /\ r.ok /\ r.inRange
          /\ decoded = r.value /\ Validate(decoded)
      BY <2>1 DEF CodecInv, Travelled
    <3>2. CASE damaged = "no" /\ frame = Layout(message)
      <4>1. ReadBut(r, message, "no", message.payload)
        BY <3>1, <3>2, OriginalRead, Zenon
      <4>2. \A f \in DOMAIN message \ {damaged} : decoded[f] = message[f]
        <5>1. OriginalBut(r.value, message, "no")
          BY <3>1, <4>1, OriginalFields, Zenon
        <5> QED
          BY <3>1, <3>2, <5>1, Zenon DEF OriginalBut
      <4>3. damaged \notin {"cut", "headerLength", "payloadDigest", "payload"}
        BY <3>2
      <4> QED
        BY <4>2, <4>3
    <3>3. CASE DamagedFrame(frame, message, damaged)
      <4>1. damaged # "no"
        BY <3>3, Names, Zenon DEF DamagedFrame
      <4>2. /\ damaged \in Header \ {"headerLength", "payloadDigest"}
            /\ ReadBut(r, message, damaged, message.payload)
        BY <2>1, <3>1, <3>3, <4>1, DamagedPasses, Zenon
      <4>3. \A f \in DOMAIN message \ {damaged} : decoded[f] = message[f]
        <5>1. OriginalBut(r.value, message, damaged)
          BY <3>1, <4>2, OriginalFields, Zenon
        <5> QED
          BY <3>1, <5>1, Zenon DEF OriginalBut
      <4>4. damaged \notin {"cut", "headerLength", "payloadDigest", "payload"}
        BY <4>2, Names, Zenon
      <4> QED
        BY <4>3, <4>4
    <3> QED
      BY <3>1, <3>2, <3>3, Zenon DEF Underway
  <2>2. ASSUME step = "panicked" PROVE damaged = "headerLength"
    <3>1. message \in Messages /\ Fits(message) /\ Underway /\ r.ok /\ ~r.inRange
      BY <2>2 DEF CodecInv, Travelled
    <3>2. ~(frame = Layout(message))
      BY <3>1, OriginalRead, Zenon
    <3> QED
      BY <3>1, <3>2, OutOfRange, Zenon DEF Underway
  <2>3. ASSUME damaged = "no", step \in {"unreadable", "invalid"}
        PROVE  step = "invalid" /\ (message.messageType = <<>> \/ message.createdDate = 0)
    <3>1. message \in Messages /\ Fits(message) /\ Underway
      BY <2>3 DEF CodecInv, Travelled
    <3>2. frame = Layout(message)
      BY <2>3, <3>1, Names, Zenon DEF Underway, DamagedFrame
    <3>3. r.ok /\ ReadBut(r, message, "no", message.payload)
      BY <3>1, <3>2, OriginalRead, Zenon
    <3>4. step = "invalid"
      BY <2>3, <3>3 DEF CodecInv
    <3>5. decoded = r.value /\ ~Validate(decoded)
      BY <3>4 DEF CodecInv
    <3> QED
      BY <3>1, <3>3, <3>4, <3>5, OriginalValid, Zenon
  <2> QED
    BY <2>1, <2>2, <2>3, Zenon DEF DamageContained
<1> QED
  BY <1>1, CodecInvariant, PTL
=============================================================================
