------------------------ MODULE ClusterServiceProofs ------------------------
(***************************************************************************)
(* Theorems about ClusterService for any number of users, containers and   *)
(* services, whichever AWS call fails or loses its answer: what Stop has   *)
(* reached lasts, every registered task definition is a replacement in the *)
(* whole of an earlier one, and DescribeAllServices misses no service that *)
(* it asks for.                                                            *)
(***************************************************************************)
EXTENDS ClusterService, SequenceTheorems, TLAPS

-----------------------------------------------------------------------------
(* The inductive invariant *)

CallsTyped ==
    /\ DOMAIN call = Users
    /\ DOMAIN result = Users
    /\ DOMAIN steady = Users
    /\ DOMAIN zeroed = Users

\* No autoscaling activity is under way and none can be decided.
Quiet == suspended = Modes /\ activity = Undefined

\* Where an undisturbed Stop is, and what it has reached there.
Suspending(u) ==
    /\ call[u].todo = <<"registerScalableTarget", "setDesiredCount">>
    /\ call[u].arg = [m \in Modes |-> "false"]
    /\ ~zeroed[u]
    /\ result[u] = "none"

Scaling(u) ==
    /\ call[u].todo = <<"setDesiredCount">>
    /\ Quiet
    /\ ~zeroed[u]
    /\ result[u] = "none"

Over(u) ==
    /\ call[u].todo = <<>>
    /\ zeroed[u] => Quiet /\ desiredCount = 0
    /\ result[u] = "nil" => zeroed[u]

StopProgress(u) ==
    /\ call[u].op = "Stop"
    /\ Suspending(u) \/ Scaling(u) \/ Over(u)

StopInv == CallsTyped /\ \A u \in Users : steady[u] => StopProgress(u)

-----------------------------------------------------------------------------
(* What is left to do *)

\* The two calls of Stop, one after the other.
LEMMA StopCalls ==
    /\ <<"registerScalableTarget", "setDesiredCount">> # <<>>
    /\ <<"setDesiredCount">> # <<>>
    /\ Head(<<"registerScalableTarget", "setDesiredCount">>) = "registerScalableTarget"
    /\ Head(<<"setDesiredCount">>) = "setDesiredCount"
    /\ Tail(<<"registerScalableTarget", "setDesiredCount">>) = <<"setDesiredCount">>
    /\ Tail(<<"setDesiredCount">>) = <<>>
  OBVIOUS

\* An undisturbed Stop is at one of its two calls, or over.
LEMMA StopIsAt ==
    ASSUME NEW u \in Users, StopProgress(u), call[u].todo # <<>>
    PROVE  \/ Suspending(u) /\ Head(call[u].todo) = "registerScalableTarget"
           \/ Scaling(u) /\ Head(call[u].todo) = "setDesiredCount"
  BY StopCalls DEF StopProgress, Suspending, Scaling, Over

\* Every other user's progress is kept by a step of v that leaves the service
\* alone, and so is the invariant when v's own call is not an undisturbed Stop.
LEMMA OthersKeep ==
    ASSUME StopInv, NEW v \in Users, NEW c, NEW r,
           call' = [call EXCEPT ![v] = c], result' = [result EXCEPT ![v] = r],
           UNCHANGED <<serviceVars, historyVars>>
    PROVE  /\ CallsTyped'
           /\ \A u \in Users \ {v} : steady'[u] => StopProgress(u)'
           /\ ~steady[v] => StopInv'
<1>1. CallsTyped'
  BY DEF StopInv, CallsTyped, historyVars
<1>2. ASSUME NEW u \in Users \ {v}, steady'[u] PROVE StopProgress(u)'
  <2>1. steady[u] /\ call'[u] = call[u] /\ result'[u] = result[u]
    BY <1>2 DEF StopInv, CallsTyped, historyVars
  <2> QED
    BY <2>1 DEF StopInv, StopProgress, Suspending, Scaling, Over, Quiet, serviceVars, historyVars
<1> QED
  BY <1>1, <1>2 DEF StopInv, historyVars

\* Going on is a step of the call and the result only.
LEMMA Bystander ==
    ASSUME StopInv, NEW v \in Users, ~steady[v], NEW todo, NEW arg, NEW base,
           GoOn(v, todo, arg, base), UNCHANGED <<serviceVars, historyVars>>
    PROVE  StopInv'
<1> DEFINE c == IF todo = <<>> THEN Returned(call[v].op)
                ELSE [op |-> call[v].op, todo |-> todo, arg |-> arg, base |-> base]
           r == IF todo = <<>> THEN "nil" ELSE "none"
<1>1. call' = [call EXCEPT ![v] = c] /\ result' = [result EXCEPT ![v] = r]
  BY DEF GoOn
<1> HIDE DEF c, r
<1> QED
  BY <1>1, OthersKeep

\* An undisturbed Stop that ends with an error before it has scaled promises nothing.
LEMMA Returns ==
    ASSUME StopInv, NEW v \in Users, NEW how, how # "nil", Ends(v, how), call[v].todo # <<>>,
           UNCHANGED <<serviceVars, historyVars>>
    PROVE  StopInv'
<1>1. call' = [call EXCEPT ![v] = Returned(call[v].op)] /\ result' = [result EXCEPT ![v] = how]
  BY DEF Ends
<1>2. /\ CallsTyped'
      /\ \A u \in Users \ {v} : steady'[u] => StopProgress(u)'
  BY <1>1, OthersKeep
<1>3. ASSUME steady'[v] PROVE StopProgress(v)'
  <2>1. call[v].op = "Stop" /\ ~zeroed[v]
    BY <1>3, StopIsAt DEF StopInv, StopProgress, Suspending, Scaling, historyVars
  <2>2. call'[v].op = "Stop" /\ call'[v].todo = <<>> /\ result'[v] # "nil"
    BY <1>1, <2>1 DEF StopInv, CallsTyped, Returned
  <2> QED
    BY <2>1, <2>2 DEF StopProgress, Over, historyVars
<1> QED
  BY <1>2, <1>3 DEF StopInv

\* A step of v that is neither of Stop's two finds v without an undisturbed Stop.
LEMMA NotAtStop ==
    ASSUME StopInv, NEW v \in Users, NEW step, At(v, step),
           step \notin {"registerScalableTarget", "setDesiredCount"}
    PROVE  ~steady[v]
  BY StopIsAt DEF StopInv, At

-----------------------------------------------------------------------------
(* The steps that change the service *)

\* A change of the service leaves only its author undisturbed.
LEMMA OnlyAuthor ==
    ASSUME StopInv, NEW v \in Users, NEW calm, Touch(v, calm), NEW c, NEW r,
           call' = [call EXCEPT ![v] = c], result' = [result EXCEPT ![v] = r],
           DOMAIN zeroed' = Users
    PROVE  /\ CallsTyped'
           /\ \A u \in Users \ {v} : ~steady'[u]
           /\ steady'[v] => steady[v]
           /\ call'[v] = c /\ result'[v] = r
  BY DEF StopInv, CallsTyped, Touch

\* Suspending brings an undisturbed Stop to its scaling.
LEMMA RegisterScalableTargetKeeps ==
    ASSUME StopInv, NEW v \in Users, RegisterScalableTarget(v)
    PROVE  StopInv'
<1>1. PICK c, r :
         /\ call' = [call EXCEPT ![v] = c] /\ result' = [result EXCEPT ![v] = r]
         /\ \/ c = Returned(call[v].op) /\ r = "error"
            \/ /\ Tail(call[v].todo) # <<>> /\ r = "none"
               /\ c = [op |-> call[v].op, todo |-> Tail(call[v].todo),
                       arg |-> call[v].arg, base |-> call[v].base]
            \/ c = Returned(call[v].op) /\ Tail(call[v].todo) = <<>> /\ r = "nil"
  <2>1. CASE ReturnError(v)
    BY <2>1 DEF ReturnError, Ends
  <2>3. CASE Proceed(v)
    <3>1. CASE Tail(call[v].todo) = <<>>
      BY <2>3, <3>1 DEF Proceed, GoOn
    <3>2. CASE Tail(call[v].todo) # <<>>
      BY <2>3, <3>2 DEF Proceed, GoOn
    <3> QED
      BY <3>1, <3>2
  <2> QED
    BY <2>1, <2>3 DEF RegisterScalableTarget, Answered
<1>2. /\ Touch(v, activity = Undefined)
      /\ UNCHANGED <<activity, zeroed>>
      /\ At(v, "registerScalableTarget")
      /\ suspended' = {m \in Modes : \/ call[v].arg[m] = "false"
                                     \/ call[v].arg[m] = "nil" /\ m \in suspended}
  BY DEF RegisterScalableTarget
<1>3. DOMAIN zeroed' = Users
  BY <1>2 DEF StopInv, CallsTyped
<1>4. /\ CallsTyped'
      /\ \A u \in Users \ {v} : ~steady'[u]
      /\ steady'[v] => steady[v]
      /\ call'[v] = c /\ result'[v] = r
  BY <1>1, <1>2, <1>3, OnlyAuthor
<1>5. ASSUME steady'[v] PROVE StopProgress(v)'
  <2>1. Suspending(v) /\ call[v].op = "Stop"
    BY <1>2, <1>4, <1>5, StopIsAt DEF StopInv, StopProgress, At
  <2>2. activity = Undefined
    BY <1>2, <1>5 DEF Touch
  <2>3. Quiet'
    <3>1. \A m \in Modes : call[v].arg[m] = "false"
      BY <2>1 DEF Suspending
    <3> QED
      BY <1>2, <2>2, <3>1 DEF Quiet
  <2>4. Tail(call[v].todo) = <<"setDesiredCount">> /\ Tail(call[v].todo) # <<>>
    BY <2>1, StopCalls DEF Suspending
  <2>5. CASE c = Returned(call[v].op) /\ r = "error"
    <3>1. call'[v].op = "Stop" /\ call'[v].todo = <<>> /\ result'[v] = "error"
      BY <1>4, <2>1, <2>5 DEF Returned
    <3> QED
      BY <1>2, <2>1, <3>1 DEF StopProgress, Over, Suspending
  <2>6. CASE /\ r = "none"
             /\ c = [op |-> call[v].op, todo |-> Tail(call[v].todo),
                     arg |-> call[v].arg, base |-> call[v].base]
    <3>1. /\ call'[v].op = "Stop" /\ call'[v].todo = <<"setDesiredCount">>
          /\ result'[v] = "none" /\ ~zeroed'[v]
      BY <1>2, <1>4, <2>1, <2>4, <2>6 DEF Suspending
    <3> QED
      BY <2>3, <3>1 DEF StopProgress, Scaling
  <2> QED
    BY <1>1, <2>4, <2>5, <2>6
<1> QED
  BY <1>4, <1>5 DEF StopInv

\* Scaling ends an undisturbed Stop, whether its answer arrives or not.
LEMMA SetDesiredCountKeeps ==
    ASSUME StopInv, NEW v \in Users, SetDesiredCount(v)
    PROVE  StopInv'
<1>1. PICK c, r :
         /\ call' = [call EXCEPT ![v] = c] /\ result' = [result EXCEPT ![v] = r]
         /\ Tail(call[v].todo) = <<>> => c = Returned(call[v].op)
  <2>1. CASE ReturnError(v)
    BY <2>1 DEF ReturnError, Ends
  <2>2. CASE Proceed(v)
    <3>1. CASE Tail(call[v].todo) = <<>>
      BY <2>2, <3>1 DEF Proceed, GoOn
    <3>2. CASE Tail(call[v].todo) # <<>>
      BY <2>2, <3>2 DEF Proceed, GoOn
    <3> QED
      BY <3>1, <3>2
  <2> QED
    BY <2>1, <2>2 DEF SetDesiredCount, Answered
<1>2. /\ zeroed' = [zeroed EXCEPT ![v] = call[v].op = "Stop"]
      /\ Touch(v, TRUE)
      /\ At(v, "setDesiredCount")
      /\ call[v].op = "Stop" => desiredCount' = 0
      /\ UNCHANGED <<suspended, activity>>
  BY DEF SetDesiredCount
<1>3. DOMAIN zeroed' = Users /\ zeroed'[v] = (call[v].op = "Stop")
  BY <1>2 DEF StopInv, CallsTyped
<1>4. /\ CallsTyped'
      /\ \A u \in Users \ {v} : ~steady'[u]
      /\ steady'[v] => steady[v]
      /\ call'[v] = c
  BY <1>1, <1>2, <1>3, OnlyAuthor
<1>5. ASSUME steady'[v] PROVE StopProgress(v)'
  <2>1. Scaling(v) /\ call[v].op = "Stop"
    BY <1>2, <1>4, <1>5, StopIsAt DEF StopInv, StopProgress, At
  <2>2. Quiet' /\ desiredCount' = 0 /\ zeroed'[v]
    BY <1>2, <1>3, <2>1 DEF Scaling, Quiet
  <2>3. c = Returned("Stop")
    BY <1>1, <2>1, StopCalls DEF Scaling
  <2>4. call'[v].op = "Stop" /\ call'[v].todo = <<>>
    BY <1>4, <2>3 DEF Returned
  <2> QED
    BY <2>2, <2>4 DEF StopProgress, Over
<1> QED
  BY <1>4, <1>5 DEF StopInv

-----------------------------------------------------------------------------
(* The beginning of an operation, and the environment *)

\* A new call forgets what the user did before; only Stop has something to keep.
LEMMA BeginKeeps ==
    ASSUME StopInv, NEW v \in Users, NEW op, NEW todo, NEW arg, Begin(v, op, todo, arg),
           op = "Stop" => /\ todo = <<"registerScalableTarget", "setDesiredCount">>
                          /\ arg = [m \in Modes |-> "false"]
    PROVE  StopInv'
<1>1. CallsTyped'
  BY DEF StopInv, CallsTyped, Begin
<1>2. ASSUME NEW u \in Users \ {v}, steady'[u] PROVE StopProgress(u)'
  <2>1. /\ steady[u] /\ call'[u] = call[u] /\ result'[u] = result[u] /\ zeroed'[u] = zeroed[u]
        /\ UNCHANGED <<desiredCount, suspended, activity>>
    BY <1>2 DEF StopInv, CallsTyped, Begin, serviceVars
  <2> QED
    BY <2>1 DEF StopInv, StopProgress, Suspending, Scaling, Over, Quiet
<1>3. ASSUME steady'[v] PROVE StopProgress(v)'
  <2>1. op = "Stop"
    BY <1>3 DEF StopInv, CallsTyped, Begin
  <2>2. /\ call'[v] = [op |-> op, todo |-> todo, arg |-> arg, base |-> 0]
        /\ result'[v] = "none" /\ ~zeroed'[v]
    BY DEF StopInv, CallsTyped, Begin
  <2> QED
    BY <2>1, <2>2 DEF StopProgress, Suspending
<1> QED
  BY <1>1, <1>2, <1>3 DEF StopInv

\* Every operation begins like that.
LEMMA CallKeeps ==
    ASSUME StopInv, NEW v \in Users, Call(v)
    PROVE  StopInv'
<1>1. CASE Autoscale(v)
  <2>1. PICK options \in AutoscalingOptions :
            Begin(v, "Autoscale", <<"registerScalableTarget">>, options)
    BY <1>1 DEF Autoscale
  <2> QED
    BY <2>1, BeginKeeps
<1>2. CASE Start(v)
  BY <1>2, BeginKeeps DEF Start
<1>3. CASE Stop(v)
  BY <1>3, BeginKeeps DEF Stop
<1>4. CASE Scale(v)
  <2>1. \/ \E n : Begin(v, "Scale", <<"setDesiredCount">>, n)
        \/ Begin(v, "Scale", <<"invalidOption">>, 0)
        \/ \E bound : Begin(v, "Scale", <<"describeScalableTargets">>, bound)
    BY <1>4 DEF Scale
  <2> QED
    BY <2>1, BeginKeeps
<1>5. CASE ReplaceTaskDefinitionTag(v)
  BY <1>5, BeginKeeps DEF ReplaceTaskDefinitionTag
<1>6. CASE Deploy(v) \/ Restart(v)
  BY <1>6, BeginKeeps DEF Deploy, Restart
<1>7. CASE RunConsole(v) \/ DescribeAllServices(v)
  BY <1>7, BeginKeeps DEF RunConsole, DescribeAllServices
<1> QED
  BY <1>1, <1>2, <1>3, <1>4, <1>5, <1>6, <1>7 DEF Call

\* What the autoscaler does while some Stop is quiet is nothing: it decides only
\* what is not suspended and concludes only what was decided.
LEMMA EnvironmentKeeps ==
    ASSUME StopInv, \/ ActivityDecided \/ ActivityConcluded
                    \/ UNCHANGED <<serviceVars, call, result, historyVars>>
    PROVE  StopInv'
<1>1. UNCHANGED <<suspended, call, result, steady, zeroed>>
  BY DEF ActivityDecided, ActivityConcluded, serviceVars, historyVars
<1>2. Quiet => UNCHANGED <<desiredCount, activity>>
  BY DEF ActivityDecided, ActivityConcluded, Quiet, serviceVars
<1>3. ASSUME NEW u \in Users, steady[u] PROVE StopProgress(u)'
  BY <1>1, <1>2, <1>3 DEF StopInv, StopProgress, Suspending, Scaling, Over, Quiet
<1> QED
  BY <1>1, <1>3 DEF StopInv, CallsTyped

-----------------------------------------------------------------------------
(* The steps that leave the service alone *)

\* Each is made by a user who is at none of Stop's calls.
LEMMA OtherStepKeeps ==
    ASSUME StopInv, NEW v \in Users,
           \/ DescribeScalableTargets(v) \/ DescribeTaskDefinition(v)
           \/ RegisterTaskDefinition(v) \/ UpdateService(v) \/ DescribeService(v)
           \/ GetUserID(v) \/ RunTask(v) \/ Wait(v) \/ NextPage(v) \/ DescribeServices(v)
    PROVE  StopInv'
<1>1. PICK step :
         /\ step \notin {"registerScalableTarget", "setDesiredCount"}
         /\ At(v, step)
  BY DEF DescribeScalableTargets, DescribeTaskDefinition, RegisterTaskDefinition,
         UpdateService, DescribeService, GetUserID, RunTask, Wait, NextPage, DescribeServices
<1>2. ~steady[v] /\ call[v].todo # <<>>
  BY <1>1, NotAtStop DEF At
<1>3. UNCHANGED <<serviceVars, historyVars>>
  BY DEF DescribeScalableTargets, DescribeTaskDefinition, RegisterTaskDefinition,
         UpdateService, DescribeService, GetUserID, RunTask, Wait, NextPage, DescribeServices
<1>4. \/ \E how : how # "nil" /\ Ends(v, how)
      \/ \E todo, arg, base : GoOn(v, todo, arg, base)
  BY DEF DescribeScalableTargets, DescribeTaskDefinition, RegisterTaskDefinition,
         UpdateService, DescribeService, GetUserID, RunTask, Wait, NextPage, DescribeServices,
         Answered, Proceed, ReturnError
<1> QED
  BY <1>2, <1>3, <1>4, Bystander, Returns

\* A call that fails or times out has changed nothing.
LEMMA FailureKeeps ==
    ASSUME StopInv, NEW v \in Users, CallFails(v) \/ WaitTimesOut(v)
    PROVE  StopInv'
<1>1. ReturnError(v) /\ call[v].todo # <<>> /\ UNCHANGED <<serviceVars, historyVars>>
  BY DEF CallFails, WaitTimesOut, At
<1> QED
  BY <1>1, Returns DEF ReturnError

-----------------------------------------------------------------------------
(* The theorem *)

\* At first nobody has stopped anything.
LEMMA InitStop == Init => StopInv
  BY DEF Init, StopInv, CallsTyped

\* One step per group of actions.
LEMMA NextStop == StopInv /\ [Next]_vars => StopInv'
<1> SUFFICES ASSUME StopInv, [Next]_vars PROVE StopInv'
  OBVIOUS
<1>1. ASSUME NEW v \in Users, Call(v) PROVE StopInv'
  BY <1>1, CallKeeps
<1>2. ASSUME NEW v \in Users, Step(v) PROVE StopInv'
  BY <1>2, RegisterScalableTargetKeeps, SetDesiredCountKeeps, OtherStepKeeps DEF Step
<1>3. ASSUME NEW v \in Users, CallFails(v) \/ WaitTimesOut(v) PROVE StopInv'
  BY <1>3, FailureKeeps
<1>4. ASSUME NEW v \in Users, TaskStarts(v) \/ TaskStops(v) PROVE StopInv'
  BY <1>4, EnvironmentKeeps DEF TaskStarts, TaskStops
<1>5. CASE ActivityDecided \/ ActivityConcluded
  BY <1>5, EnvironmentKeeps
<1>6. CASE UNCHANGED vars
  BY <1>6, EnvironmentKeeps DEF vars
<1> QED
  BY <1>1, <1>2, <1>3, <1>4, <1>5, <1>6 DEF Next

\* The invariant says more than the property.
LEMMA StopInvHolds == StopInv => StopHolds
  BY DEF StopInv, StopHolds, StopProgress, Suspending, Scaling, Over, Quiet

\* Once the scaling to zero of a Stop has taken effect, and whatever Stop
\* returns, the count stays at zero with every mode suspended for as long as no
\* other user changes the service and no activity was under way, and Stop
\* returns nil only then (Stop of cluster.go, Autoscale, setDesiredCount).
THEOREM StopHoldsCorrect == Spec => []StopHolds
<1>1. Spec => []StopInv
  BY InitStop, NextStop, PTL DEF Spec
<1> QED
  BY <1>1, StopInvHolds, PTL

-----------------------------------------------------------------------------
(* Every revision is a replacement in a whole one *)

\* What is left to do in an operation that registers no task definition.
OtherCalls ==
    {<<>>, <<"registerScalableTarget">>, <<"registerScalableTarget", "setDesiredCount">>,
     <<"setDesiredCount">>, <<"invalidOption">>, <<"describeScalableTargets">>, <<"deploy">>,
     <<"describeService", "getUserID", "runTask", "wait">>,
     <<"getUserID", "runTask", "wait">>, <<"runTask", "wait">>, <<"wait">>, <<"nextPage">>,
     <<"describeServices">>}

ReplaceCalls == <<"describeTaskDefinition", "registerTaskDefinition">>
RegisterCall == <<"registerTaskDefinition">>

\* The rest of another operation is another operation's.
LEMMA OtherCallsTail ==
    ASSUME NEW t \in OtherCalls, t # <<>>
    PROVE  /\ Tail(t) \in OtherCalls
           /\ Head(t) \notin {"describeTaskDefinition", "registerTaskDefinition"}
<1>1. CASE \E x \in {"registerScalableTarget", "setDesiredCount", "invalidOption",
                    "describeScalableTargets", "deploy", "wait", "nextPage",
                    "describeServices"} : t = <<x>>
  <2>1. PICK x \in {"registerScalableTarget", "setDesiredCount", "invalidOption",
                    "describeScalableTargets", "deploy", "wait", "nextPage",
                    "describeServices"} : t = <<x>>
    BY <1>1
  <2>2. Head(t) = x /\ Tail(t) = <<>>
    BY <2>1
  <2> QED
    BY <2>2 DEF OtherCalls
<1>2. CASE t = <<"registerScalableTarget", "setDesiredCount">>
  <2>1. Head(t) = "registerScalableTarget" /\ Tail(t) = <<"setDesiredCount">>
    BY <1>2
  <2> QED
    BY <2>1 DEF OtherCalls
<1>3. CASE t = <<"describeService", "getUserID", "runTask", "wait">>
  <2>1. Head(t) = "describeService" /\ Tail(t) = <<"getUserID", "runTask", "wait">>
    BY <1>3
  <2> QED
    BY <2>1 DEF OtherCalls
<1>4. CASE t = <<"getUserID", "runTask", "wait">>
  <2>1. Head(t) = "getUserID" /\ Tail(t) = <<"runTask", "wait">>
    BY <1>4
  <2> QED
    BY <2>1 DEF OtherCalls
<1>5. CASE t = <<"runTask", "wait">>
  <2>1. Head(t) = "runTask" /\ Tail(t) = <<"wait">>
    BY <1>5
  <2> QED
    BY <2>1 DEF OtherCalls
<1> QED
  BY <1>1, <1>2, <1>3, <1>4, <1>5 DEF OtherCalls

\* The rest of ReplaceTaskDefinitionTag.
LEMMA ReplaceCallsTail ==
    /\ ReplaceCalls # <<>> /\ RegisterCall # <<>>
    /\ Head(ReplaceCalls) = "describeTaskDefinition" /\ Tail(ReplaceCalls) = RegisterCall
    /\ Head(RegisterCall) = "registerTaskDefinition" /\ Tail(RegisterCall) = <<>>
  BY DEF ReplaceCalls, RegisterCall

\* A call and what it may hold when there are n revisions: one that is about to
\* register has a replacer, and the number of a revision that it was shown.
CallFits(c, n) ==
    \/ c.todo \in OtherCalls
    \/ c.todo = ReplaceCalls /\ c.arg \in Replacers
    \/ c.todo = RegisterCall /\ c.arg \in Replacers /\ c.base \in 1 .. n

\* A later revision takes nothing away from a call that has seen an earlier one.
LEMMA CallStillFits ==
    ASSUME NEW c, NEW n \in Nat, NEW k \in Nat, n <= k, CallFits(c, n)
    PROVE  CallFits(c, k)
  BY DEF CallFits

\* RevisionsWhole, of any sequence of revisions.
Whole(r) ==
    \A i \in DOMAIN r \ {1} :
        \E base \in 1 .. (i - 1), replacer \in Replacers :
            /\ ImagesSplit(r[base])
            /\ r[i] = Replace(r[base], replacer)

\* The images of a revision: what they are does not matter.
Revision == [Containers -> Tags \cup {BadImage}]

RevisionsInv ==
    /\ DOMAIN call = Users
    /\ revisions \in Seq(Revision) /\ Len(revisions) > 0
    /\ Whole(revisions)
    /\ \A u \in Users : CallFits(call[u], Len(revisions))

\* What is replaced is again a revision.
LEMMA ReplaceIsRevision ==
    ASSUME NEW images \in Revision, NEW replacer \in Replacers
    PROVE  Replace(images, replacer) \in Revision
  BY DEF Replace, Revision, Replacers

\* A replacement in a revision whose images could all be split may follow.
LEMMA WholeAppend ==
    ASSUME NEW r \in Seq(Revision), Len(r) > 0, Whole(r),
           NEW base \in 1 .. Len(r), NEW replacer \in Replacers, ImagesSplit(r[base])
    PROVE  /\ Append(r, Replace(r[base], replacer)) \in Seq(Revision)
           /\ Len(Append(r, Replace(r[base], replacer))) = Len(r) + 1
           /\ Whole(Append(r, Replace(r[base], replacer)))
<1> DEFINE e == Replace(r[base], replacer)
           s == Append(r, e)
<1>1. e \in Revision
  BY ReplaceIsRevision, ElementOfSeq
<1>2. e = Replace(r[base], replacer)
  OBVIOUS
<1> HIDE DEF e
<1>3. /\ s \in Seq(Revision) /\ Len(s) = Len(r) + 1
      /\ \A i \in 1 .. Len(r) : s[i] = r[i]
      /\ s[Len(r) + 1] = e
  BY <1>1, AppendProperties
<1> HIDE DEF s
<1>4. /\ Len(r) \in Nat /\ DOMAIN r = 1 .. Len(r) /\ DOMAIN s = 1 .. (Len(r) + 1)
  BY <1>3, LenProperties
<1>5. ASSUME NEW i \in DOMAIN s \ {1}
      PROVE  \E b \in 1 .. (i - 1), q \in Replacers :
                 ImagesSplit(s[b]) /\ s[i] = Replace(s[b], q)
  <2>1. CASE i = Len(r) + 1
    <3>1. base \in 1 .. (i - 1) /\ s[base] = r[base] /\ s[i] = e
      BY <1>3, <1>4, <2>1
    <3> QED
      BY <1>2, <3>1
  <2>2. CASE i # Len(r) + 1
    <3>1. i \in DOMAIN r \ {1} /\ i \in 1 .. Len(r) /\ s[i] = r[i]
      BY <1>3, <1>4, <2>2
    <3>2. PICK b \in 1 .. (i - 1), q \in Replacers :
              ImagesSplit(r[b]) /\ r[i] = Replace(r[b], q)
      BY <3>1 DEF Whole
    <3>3. s[b] = r[b]
      BY <1>3, <1>4, <3>1
    <3> QED
      BY <3>1, <3>2, <3>3
  <2> QED
    BY <2>1, <2>2
<1>6. Whole(s)
  BY <1>5 DEF Whole
<1> QED
  BY <1>3, <1>6 DEF s, e

\* The first revision is whatever was registered before.
LEMMA InitRevisions == Init => RevisionsInv
<1> SUFFICES ASSUME Init PROVE RevisionsInv
  OBVIOUS
<1>1. PICK images \in Revision : revisions = <<images>>
  <2> DEFINE tag == CHOOSE t \in Tags : TRUE
  <2>1. tag \in Tags
    BY ClusterAssumption
  <2> HIDE DEF tag
  <2>2. \/ revisions = <<[c \in Containers |-> tag]>>
        \/ \E images \in [Containers -> {tag, BadImage}] : revisions = <<images>>
    BY DEF Init, tag
  <2>3. /\ [c \in Containers |-> tag] \in Revision
        /\ [Containers -> {tag, BadImage}] \subseteq Revision
    BY <2>1 DEF Revision
  <2> QED
    BY <2>2, <2>3
<1>2. revisions \in Seq(Revision) /\ Len(revisions) = 1 /\ DOMAIN revisions = {1}
  BY <1>1
<1>3. DOMAIN call = Users /\ \A u \in Users : call[u].todo = <<>>
  BY DEF Init, Returned
<1>4. \A u \in Users : CallFits(call[u], Len(revisions))
  BY <1>3 DEF CallFits, OtherCalls
<1> QED
  BY <1>2, <1>3, <1>4 DEF RevisionsInv, Whole

\* A step of v alone, that leaves the revisions or adds one, keeps the others'
\* calls fitting.
LEMMA OneCallChanges ==
    ASSUME RevisionsInv, NEW v \in Users, NEW c,
           call' = [call EXCEPT ![v] = c],
           revisions' \in Seq(Revision), Len(revisions') >= Len(revisions),
           Whole(revisions'), CallFits(c, Len(revisions'))
    PROVE  RevisionsInv'
<1>1. Len(revisions) \in Nat /\ Len(revisions') \in Nat /\ Len(revisions') > 0
  BY LenProperties DEF RevisionsInv
<1>2. DOMAIN call' = Users /\ \A u \in Users : call'[u] = IF u = v THEN c ELSE call[u]
  BY DEF RevisionsInv
<1>3. \A u \in Users : CallFits(call'[u], Len(revisions'))
  BY <1>1, <1>2, CallStillFits DEF RevisionsInv
<1> QED
  BY <1>1, <1>2, <1>3 DEF RevisionsInv, Whole

\* The same when the revisions are unchanged.
LEMMA OneCallGoesOn ==
    ASSUME RevisionsInv, NEW v \in Users, NEW c,
           call' = [call EXCEPT ![v] = c], UNCHANGED revisions,
           CallFits(c, Len(revisions))
    PROVE  RevisionsInv'
<1>1. Len(revisions') >= Len(revisions)
  BY LenProperties DEF RevisionsInv
<1> QED
  BY <1>1, OneCallChanges DEF RevisionsInv

\* A call that has returned fits.
LEMMA ReturnedFits ==
    ASSUME NEW op, NEW n
    PROVE  CallFits(Returned(op), n)
  BY DEF Returned, CallFits, OtherCalls

\* GoOn with another operation's calls.
LEMMA GoOnFits ==
    ASSUME RevisionsInv, NEW v \in Users, NEW todo, NEW arg, NEW base,
           GoOn(v, todo, arg, base), UNCHANGED revisions,
           \/ todo \in OtherCalls
           \/ todo = RegisterCall /\ arg \in Replacers /\ base \in 1 .. Len(revisions)
    PROVE  RevisionsInv'
<1> DEFINE d == [op |-> call[v].op, todo |-> todo, arg |-> arg, base |-> base]
           c == IF todo = <<>> THEN Returned(call[v].op) ELSE d
<1>1. call' = [call EXCEPT ![v] = c]
  BY DEF GoOn
<1>2. d.todo = todo /\ d.arg = arg /\ d.base = base
  OBVIOUS
<1> HIDE DEF d
<1>3. CallFits(d, Len(revisions))
  BY <1>2 DEF CallFits
<1>4. CallFits(c, Len(revisions))
  BY <1>3, ReturnedFits
<1> HIDE DEF c
<1> QED
  BY <1>1, <1>4, OneCallGoesOn

\* An error, or a panic, leaves nothing to do.
LEMMA EndsFits ==
    ASSUME RevisionsInv, NEW v \in Users, NEW how, Ends(v, how), UNCHANGED revisions
    PROVE  RevisionsInv'
<1>1. call' = [call EXCEPT ![v] = Returned(call[v].op)]
  BY DEF Ends
<1> QED
  BY <1>1, ReturnedFits, OneCallGoesOn

\* A step of another operation, answered or not.
LEMMA OtherStepFits ==
    ASSUME RevisionsInv, NEW v \in Users, NEW step, At(v, step),
           step \notin {"describeTaskDefinition", "registerTaskDefinition"},
           Proceed(v) \/ ReturnError(v), UNCHANGED revisions
    PROVE  RevisionsInv'
<1>1. call[v].todo \in OtherCalls /\ call[v].todo # <<>>
  BY ReplaceCallsTail DEF RevisionsInv, CallFits, At
<1>2. Tail(call[v].todo) \in OtherCalls
  BY <1>1, OtherCallsTail
<1> QED
  BY <1>2, GoOnFits, EndsFits DEF Proceed, ReturnError

\* The beginning of every operation fits.
LEMMA BeginFits ==
    ASSUME RevisionsInv, NEW v \in Users, NEW op, NEW todo, NEW arg, Begin(v, op, todo, arg),
           todo \in OtherCalls \/ (todo = ReplaceCalls /\ arg \in Replacers)
    PROVE  RevisionsInv'
<1> DEFINE c == [op |-> op, todo |-> todo, arg |-> arg, base |-> 0]
<1>1. call' = [call EXCEPT ![v] = c] /\ UNCHANGED revisions
  BY DEF Begin, definitionVars
<1>2. c.todo = todo /\ c.arg = arg
  OBVIOUS
<1> HIDE DEF c
<1>3. CallFits(c, Len(revisions))
  BY <1>2 DEF CallFits
<1> QED
  BY <1>1, <1>3, OneCallGoesOn

\* Every operation begins with its calls.
LEMMA CallFitsAtFirst ==
    ASSUME RevisionsInv, NEW v \in Users, Call(v)
    PROVE  RevisionsInv'
<1>1. CASE Autoscale(v)
  BY <1>1, BeginFits DEF Autoscale, OtherCalls
<1>2. CASE Start(v)
  BY <1>2, BeginFits DEF Start, OtherCalls
<1>3. CASE Stop(v)
  BY <1>3, BeginFits DEF Stop, OtherCalls
<1>4. CASE Scale(v)
  <2>1. PICK todo \in OtherCalls : \E arg : Begin(v, "Scale", todo, arg)
    BY <1>4 DEF Scale, OtherCalls
  <2> QED
    BY <2>1, BeginFits
<1>5. CASE ReplaceTaskDefinitionTag(v)
  BY <1>5, BeginFits DEF ReplaceTaskDefinitionTag, ReplaceCalls
<1>6. CASE Deploy(v)
  BY <1>6, BeginFits DEF Deploy, OtherCalls
<1>7. CASE Restart(v)
  BY <1>7, BeginFits DEF Restart, OtherCalls
<1>8. CASE RunConsole(v)
  BY <1>8, BeginFits DEF RunConsole, OtherCalls
<1>9. CASE DescribeAllServices(v)
  BY <1>9, BeginFits DEF DescribeAllServices, OtherCalls
<1> QED
  BY <1>1, <1>2, <1>3, <1>4, <1>5, <1>6, <1>7, <1>8, <1>9 DEF Call

\* A describe shows the latest revision; a registration replaces in the revision
\* that was shown, though there may be later ones by now.
LEMMA StepFits ==
    ASSUME RevisionsInv, NEW v \in Users, Step(v)
    PROVE  RevisionsInv'
<1>1. CASE RegisterScalableTarget(v)
  BY <1>1, OtherStepFits DEF RegisterScalableTarget, Answered, definitionVars
<1>2. CASE DescribeScalableTargets(v)
  <2>1. UNCHANGED revisions /\ At(v, "describeScalableTargets")
    BY <1>2 DEF DescribeScalableTargets, definitionVars
  <2>2. CASE Proceed(v) \/ ReturnError(v)
    BY <2>1, <2>2, OtherStepFits
  <2>3. CASE GoOn(v, <<"setDesiredCount">>, scalableTarget[call[v].arg], 0)
    BY <2>1, <2>3, GoOnFits DEF OtherCalls
  <2> QED
    BY <1>2, <2>2, <2>3 DEF DescribeScalableTargets
<1>3. CASE SetDesiredCount(v)
  BY <1>3, OtherStepFits DEF SetDesiredCount, Answered, definitionVars
<1>4. CASE DescribeTaskDefinition(v)
  <2>1. UNCHANGED revisions /\ GoOn(v, Tail(call[v].todo), call[v].arg, Len(revisions))
    BY <1>4 DEF DescribeTaskDefinition, definitionVars
  <2>2. Head(call[v].todo) = "describeTaskDefinition" /\ call[v].todo # <<>>
    BY <1>4 DEF DescribeTaskDefinition, At
  <2>3. call[v].todo \notin OtherCalls /\ call[v].todo # RegisterCall
    BY <2>2, OtherCallsTail, ReplaceCallsTail
  <2>4. Tail(call[v].todo) = RegisterCall /\ call[v].arg \in Replacers
    BY <2>3, ReplaceCallsTail DEF RevisionsInv, CallFits
  <2>5. Len(revisions) \in 1 .. Len(revisions)
    BY LenProperties DEF RevisionsInv
  <2> QED
    BY <2>1, <2>4, <2>5, GoOnFits
<1>5. CASE RegisterTaskDefinition(v)
  <2> DEFINE base == call[v].base
             replacer == call[v].arg
  <2>1. Head(call[v].todo) = "registerTaskDefinition" /\ call[v].todo # <<>>
    BY <1>5 DEF RegisterTaskDefinition, At
  <2>2. call[v].todo \notin OtherCalls /\ call[v].todo # ReplaceCalls
    BY <2>1, OtherCallsTail, ReplaceCallsTail
  <2>3. call[v].todo = RegisterCall /\ replacer \in Replacers /\ base \in 1 .. Len(revisions)
    BY <2>2 DEF RevisionsInv, CallFits
  <2>4. CASE ImagesSplit(revisions[base])
    <3>1. revisions' = Append(revisions, Replace(revisions[base], replacer)) /\ Answered(v)
      BY <1>5, <2>4 DEF RegisterTaskDefinition
    <3>2. call' = [call EXCEPT ![v] = Returned(call[v].op)]
      BY <2>3, <3>1, ReplaceCallsTail DEF Answered, Proceed, GoOn, ReturnError, Ends
    <3>3. /\ revisions' \in Seq(Revision)
          /\ Len(revisions') = Len(revisions) + 1
          /\ Whole(revisions')
      BY <2>3, <2>4, <3>1, WholeAppend DEF RevisionsInv
    <3>4. Len(revisions') >= Len(revisions)
      BY <3>3, LenProperties DEF RevisionsInv
    <3> QED
      BY <3>2, <3>3, <3>4, ReturnedFits, OneCallChanges
  <2>5. CASE ~ImagesSplit(revisions[base])
    <3>1. ReturnError(v) /\ UNCHANGED revisions
      BY <1>5, <2>5 DEF RegisterTaskDefinition
    <3> QED
      BY <3>1, EndsFits DEF ReturnError
  <2> QED
    BY <2>4, <2>5
<1>6. CASE UpdateService(v)
  BY <1>6, OtherStepFits DEF UpdateService, Answered
<1>7. CASE DescribeService(v)
  BY <1>7, OtherStepFits DEF DescribeService, definitionVars
<1>8. CASE GetUserID(v)
  BY <1>8, OtherStepFits DEF GetUserID, definitionVars
<1>9. CASE RunTask(v)
  <2>1. At(v, "runTask") /\ UNCHANGED revisions
    BY <1>9 DEF RunTask, definitionVars
  <2>2. CASE Answered(v)
    BY <2>1, <2>2, OtherStepFits DEF Answered
  <2>3. CASE Ends(v, "panic")
    BY <2>1, <2>3, EndsFits
  <2> QED
    BY <1>9, <2>2, <2>3 DEF RunTask
<1>10. CASE Wait(v)
  BY <1>10, OtherStepFits DEF Wait, definitionVars
<1>11. CASE NextPage(v) \/ DescribeServices(v)
  <2>1. UNCHANGED revisions
    BY <1>11 DEF NextPage, DescribeServices, definitionVars
  <2>2. PICK todo, arg, base : /\ GoOn(v, todo, arg, base)
                               /\ todo \in {<<>>, <<"nextPage">>, <<"describeServices">>}
    BY <1>11 DEF NextPage, DescribeServices
  <2>3. todo \in OtherCalls
    BY <2>2 DEF OtherCalls
  <2> QED
    BY <2>1, <2>2, <2>3, GoOnFits
<1> QED
  BY <1>1, <1>2, <1>3, <1>4, <1>5, <1>6, <1>7, <1>8, <1>9, <1>10, <1>11 DEF Step

\* Every step of every user and of the environment keeps the revisions whole.
LEMMA NextRevisions == RevisionsInv /\ [Next]_vars => RevisionsInv'
<1> SUFFICES ASSUME RevisionsInv, [Next]_vars PROVE RevisionsInv'
  OBVIOUS
<1>1. ASSUME NEW u \in Users, Call(u) \/ Step(u) PROVE RevisionsInv'
  BY <1>1, CallFitsAtFirst, StepFits
<1>2. ASSUME NEW u \in Users, CallFails(u) \/ WaitTimesOut(u) PROVE RevisionsInv'
  BY <1>2, EndsFits DEF CallFails, WaitTimesOut, ReturnError, definitionVars
<1>3. CASE UNCHANGED <<revisions, call>>
  BY <1>3 DEF RevisionsInv, Whole, CallFits
<1>4. ASSUME NEW u \in Users, TaskStarts(u) \/ TaskStops(u) PROVE RevisionsInv'
  BY <1>3, <1>4 DEF TaskStarts, TaskStops, definitionVars
<1>5. CASE ActivityDecided \/ ActivityConcluded \/ UNCHANGED vars
  BY <1>3, <1>5 DEF ActivityDecided, ActivityConcluded, vars, definitionVars
<1> QED
  BY <1>1, <1>2, <1>4, <1>5 DEF Next

\* Every registered revision but the first is one replacer applied to all of an
\* earlier revision, whose images could all be split, however the calls of
\* several users interleave and fail (ReplaceTaskDefinitionTag).
THEOREM RevisionsWholeCorrect == Spec => []RevisionsWhole
<1>1. RevisionsInv => RevisionsWhole
  BY DEF RevisionsInv, Whole, RevisionsWhole
<1> QED
  BY <1>1, InitRevisions, NextRevisions, PTL DEF Spec

-----------------------------------------------------------------------------
(* Every replica service is described once *)

\* ECS lists a sequence of services.
LEMMA ReplicasListed == Replicas \in Seq(Services) /\ Len(Replicas) \in Nat
<1>1. Replicas \in Seq(Services)
  BY ListServicesAssumption DEF Replicas
<1> QED
  BY <1>1, LenProperties

\* The first n of them, in order, and a page that follows them.
First(n) == [i \in 1 .. n |-> Replicas[i]]
PageOf(listed, base) == [i \in 1 .. (base - listed) |-> Replicas[listed + i]]

\* The first services are a sequence.
LEMMA FirstListed ==
    ASSUME NEW n \in 0 .. Len(Replicas)
    PROVE  /\ First(n) \in Seq(Services) /\ Len(First(n)) = n
           /\ \A i \in 1 .. n : First(n)[i] = Replicas[i]
<1>1. \A i \in 1 .. n : Replicas[i] \in Services
  BY ReplicasListed, ElementOfSeq
<1> QED
  BY <1>1 DEF First

\* And so is a page.
LEMMA PageListed ==
    ASSUME NEW n \in 0 .. Len(Replicas), NEW k \in 0 .. n
    PROVE  /\ PageOf(k, n) \in Seq(Services) /\ Len(PageOf(k, n)) = n - k
           /\ \A i \in 1 .. (n - k) : PageOf(k, n)[i] = Replicas[k + i]
<1>1. \A i \in 1 .. (n - k) : Replicas[k + i] \in Services
  BY ReplicasListed, ElementOfSeq
<1>2. n - k \in Nat
  BY ReplicasListed
<1> QED
  BY <1>1, <1>2 DEF PageOf

\* Where the chunk ends.
ChunkEnd(length, from, size) == IF from + size < length THEN from + size ELSE length

\* Describing the next chunk of the page leaves no gap and repeats nothing.
LEMMA ChunkContinues ==
    ASSUME NEW base \in 0 .. Len(Replicas), NEW listed \in 0 .. base,
           NEW from \in 0 .. (base - listed), NEW size \in Nat \ {0}
    PROVE  First(listed + from) \o Chunk(PageOf(listed, base), from, size)
               = First(listed + ChunkEnd(base - listed, from, size))
<1> DEFINE end == ChunkEnd(base - listed, from, size)
           f == First(listed + from)
           p == PageOf(listed, base)
           c == Chunk(p, from, size)
           g == First(listed + end)
<1>0. /\ end \in Nat
      /\ end = IF from + size < base - listed THEN from + size ELSE base - listed
  BY DEF ChunkEnd
<1> HIDE DEF end
<1>1. /\ f \in Seq(Services) /\ Len(f) = listed + from /\ \A i \in 1 .. (listed + from) : f[i] = Replicas[i]
      /\ g \in Seq(Services) /\ Len(g) = listed + end /\ \A i \in 1 .. (listed + end) : g[i] = Replicas[i]
  <2>1. listed + from \in 0 .. Len(Replicas) /\ listed + end \in 0 .. Len(Replicas)
    BY <1>0, ReplicasListed
  <2> QED
    BY <2>1, FirstListed
<1>2. /\ p \in Seq(Services) /\ Len(p) = base - listed
      /\ \A i \in 1 .. (base - listed) : p[i] = Replicas[listed + i]
  BY PageListed
<1>3. end \in Nat /\ from <= end /\ end <= base - listed
  BY <1>0
<1>4. c = SubSeq(p, from + 1, end)
  BY <1>0, <1>2 DEF Chunk
<1> HIDE DEF f, p, c, g
<1>5. /\ c \in Seq(Services) /\ Len(c) = end - from
      /\ \A i \in 1 .. (end - from) : c[i] = Replicas[listed + from + i]
  <2>1. \A i \in (from + 1) .. end : p[i] \in Services
    BY <1>2, <1>3, ElementOfSeq
  <2>2. /\ c \in Seq(Services)
        /\ Len(c) = IF from + 1 <= end THEN end - (from + 1) + 1 ELSE 0
        /\ \A i \in 1 .. (end - (from + 1) + 1) : c[i] = p[from + 1 + i - 1]
    BY <1>2, <1>3, <1>4, <2>1, SubSeqProperties
  <2>3. ASSUME NEW i \in 1 .. (end - from) PROVE c[i] = Replicas[listed + from + i]
    <3>1. c[i] = p[from + i]
      <4>1. from \in Nat /\ i \in 1 .. (end - (from + 1) + 1) /\ from + 1 + i - 1 = from + i
        BY <1>3, ReplicasListed
      <4> QED
        BY <2>2, <4>1
    <3>2. from + i \in 1 .. (base - listed)
      BY <1>3
    <3>3. listed + (from + i) = listed + from + i
      OBVIOUS
    <3> QED
      BY <1>2, <3>1, <3>2, <3>3
  <2> QED
    BY <1>3, <2>2, <2>3
<1>6. /\ f \o c \in Seq(Services) /\ Len(f \o c) = Len(f) + Len(c)
      /\ \A i \in 1 .. (Len(f) + Len(c)) :
             (f \o c)[i] = IF i <= Len(f) THEN f[i] ELSE c[i - Len(f)]
  BY <1>1, <1>5, ConcatProperties
<1>7. Len(f \o c) = Len(g)
  BY <1>1, <1>3, <1>5, <1>6
<1>8. ASSUME NEW i \in 1 .. Len(g) PROVE (f \o c)[i] = g[i]
  <2>1. i \in 1 .. (Len(f) + Len(c)) /\ g[i] = Replicas[i]
    BY <1>1, <1>6, <1>7, <1>8
  <2>2. CASE i <= Len(f)
    BY <1>1, <1>6, <2>1, <2>2
  <2>3. CASE i > Len(f)
    <3>1. (f \o c)[i] = c[i - Len(f)]
      BY <1>1, <1>6, <2>1, <2>3
    <3>2. i - Len(f) \in 1 .. (end - from)
      BY <1>1, <1>5, <2>1, <2>3
    <3>3. c[i - Len(f)] = Replicas[listed + from + (i - Len(f))]
      BY <1>5, <3>2
    <3>4. listed + from + (i - Len(f)) = i
      BY <1>1
    <3> QED
      BY <2>1, <3>1, <3>3, <3>4
  <2> QED
    BY <1>1, <2>1, <2>2, <2>3
<1>9. f \o c = g
  BY <1>1, <1>6, <1>7, <1>8, SeqEqual
<1> QED
  BY <1>9 DEF f, p, c, g, end

\* How far a DescribeAllServices is, when s is what it has described: all that
\* is listed, or all before the chunk of the page that comes next.
Listing(c, s) ==
    /\ c.todo = <<"nextPage">>
    /\ c.base \in 0 .. Len(Replicas)
    /\ s = First(c.base)

Describing(c, s) ==
    /\ c.todo = <<"describeServices">>
    /\ c.base \in 0 .. Len(Replicas)
    /\ \E listed \in 0 .. c.base :
           /\ c.arg.page = PageOf(listed, c.base)
           /\ c.arg.from \in 0 .. (c.base - listed)
           /\ s = First(listed + c.arg.from)

Described(c, s, r) == c.todo = <<>> /\ (r = "nil" => s = First(Len(Replicas)))

Progress(c, s, r) ==
    c.op = "DescribeAllServices" => \/ r = "none" /\ (Listing(c, s) \/ Describing(c, s))
                                    \/ Described(c, s, r)

ServicesInv ==
    /\ DOMAIN call = Users /\ DOMAIN result = Users
    /\ services = [u \in Users |-> services[u]]
    /\ \A u \in Users : Progress(call[u], services[u], result[u])

\* Nobody has called anything.
LEMMA InitServices == Init => ServicesInv
  BY DEF Init, ServicesInv, Progress, Returned

\* A step of v changes nothing for the others.
LEMMA OneListingChanges ==
    ASSUME ServicesInv, NEW v \in Users, NEW c, NEW r, NEW s,
           call' = [call EXCEPT ![v] = c], result' = [result EXCEPT ![v] = r],
           services' = [services EXCEPT ![v] = s], Progress(c, s, r)
    PROVE  ServicesInv'
<1>0. services' = [u \in Users |-> services'[u]] /\ DOMAIN services = Users
  BY DEF ServicesInv
<1>1. /\ DOMAIN call' = Users /\ DOMAIN result' = Users
      /\ call'[v] = c /\ services'[v] = s /\ result'[v] = r
      /\ \A u \in Users \ {v} :
             call'[u] = call[u] /\ services'[u] = services[u] /\ result'[u] = result[u]
  BY <1>0 DEF ServicesInv
<1>2. \A u \in Users : Progress(call'[u], services'[u], result'[u])
  BY <1>1 DEF ServicesInv
<1> QED
  BY <1>0, <1>1, <1>2 DEF ServicesInv

\* The same when nothing is described.
LEMMA NothingDescribed ==
    ASSUME ServicesInv, NEW v \in Users, UNCHANGED services
    PROVE  services' = [services EXCEPT ![v] = services[v]]
  BY DEF ServicesInv

\* A call that is at another step is of another operation.
LEMMA OtherOperation ==
    ASSUME ServicesInv, NEW v \in Users, NEW step, At(v, step),
           step \notin {"nextPage", "describeServices"}
    PROVE  call[v].op # "DescribeAllServices"
<1>1. Head(<<"nextPage">>) = "nextPage" /\ Head(<<"describeServices">>) = "describeServices"
  OBVIOUS
<1> QED
  BY <1>1 DEF ServicesInv, Progress, Listing, Describing, Described, At

\* An error or a panic promises nothing.
LEMMA ErrorDescribes ==
    ASSUME ServicesInv, NEW v \in Users, NEW how, how # "nil", Ends(v, how), UNCHANGED services
    PROVE  ServicesInv'
<1>1. /\ call' = [call EXCEPT ![v] = Returned(call[v].op)]
      /\ result' = [result EXCEPT ![v] = how]
  BY DEF Ends
<1>2. Progress(Returned(call[v].op), services[v], how)
  BY DEF Progress, Described, Returned
<1> QED
  BY <1>1, <1>2, NothingDescribed, OneListingChanges

\* What GoOn makes of a call.
LEMMA GoOnDescribes ==
    ASSUME ServicesInv, NEW v \in Users, NEW todo, NEW arg, NEW base, NEW s,
           GoOn(v, todo, arg, base), services' = [services EXCEPT ![v] = s],
           \A c : (/\ c.op = call[v].op /\ c.todo = todo
                   /\ todo # <<>> => c.arg = arg /\ c.base = base)
                  => Progress(c, s, IF todo = <<>> THEN "nil" ELSE "none")
    PROVE  ServicesInv'
<1> DEFINE d == [op |-> call[v].op, todo |-> todo, arg |-> arg, base |-> base]
           c == IF todo = <<>> THEN Returned(call[v].op) ELSE d
           r == IF todo = <<>> THEN "nil" ELSE "none"
<1>1. call' = [call EXCEPT ![v] = c] /\ result' = [result EXCEPT ![v] = r]
  BY DEF GoOn
<1>2. c.op = call[v].op /\ c.todo = todo /\ (todo # <<>> => c.arg = arg /\ c.base = base)
  BY DEF Returned
<1> HIDE DEF c
<1>3. Progress(c, s, r)
  BY <1>2
<1> HIDE DEF r
<1> QED
  BY <1>1, <1>3, OneListingChanges

\* The steps of the other operations.
LEMMA OtherStepDescribes ==
    ASSUME ServicesInv, NEW v \in Users, NEW step, At(v, step),
           step \notin {"nextPage", "describeServices"}, UNCHANGED services,
           \/ \E how : how # "nil" /\ Ends(v, how)
           \/ \E todo, arg, base : GoOn(v, todo, arg, base)
    PROVE  ServicesInv'
<1>1. call[v].op # "DescribeAllServices"
  BY OtherOperation
<1>2. ASSUME NEW todo, NEW arg, NEW base, GoOn(v, todo, arg, base)
      PROVE  ServicesInv'
  <2>1. \A c, r : c.op = call[v].op => Progress(c, services[v], r)
    BY <1>1 DEF Progress
  <2> QED
    BY <1>2, <2>1, NothingDescribed, GoOnDescribes
<1> QED
  BY <1>2, ErrorDescribes

\* NextPage lists what comes after all that is described.
LEMMA NextPageDescribes ==
    ASSUME ServicesInv, NEW v \in Users, NextPage(v)
    PROVE  ServicesInv'
<1> DEFINE listed == call[v].base
           more == IF listed + MaxListServices < Len(Replicas) THEN listed + MaxListServices
                                                               ELSE Len(Replicas)
           todo == IF PageOf(listed, more) = <<>> THEN <<>> ELSE <<"describeServices">>
           arg == [page |-> PageOf(listed, more), from |-> 0]
<1>1. At(v, "nextPage") /\ UNCHANGED services /\ GoOn(v, todo, arg, more)
  BY DEF NextPage, PageOf
<1>2. CASE call[v].op # "DescribeAllServices"
  <2>1. \A c, r : c.op = call[v].op => Progress(c, services[v], r)
    BY <1>2 DEF Progress
  <2> HIDE DEF todo, arg, more
  <2> QED
    BY <1>1, <2>1, NothingDescribed, GoOnDescribes
<1>3. CASE call[v].op = "DescribeAllServices"
  <2>1. Listing(call[v], services[v])
    <3>1. Head(<<"describeServices">>) = "describeServices"
      OBVIOUS
    <3> QED
      BY <1>1, <1>3, <3>1 DEF ServicesInv, Progress, Describing, Described, At
  <2>2. listed \in 0 .. Len(Replicas) /\ services[v] = First(listed)
    BY <2>1 DEF Listing
  <2>3. more \in 0 .. Len(Replicas) /\ listed \in 0 .. more /\ (listed < Len(Replicas) => listed < more)
    BY <2>2, ClusterAssumption, ReplicasListed
  <2>4. PageOf(listed, more) = <<>> => listed = Len(Replicas)
    <3>1. Len(PageOf(listed, more)) = more - listed
      <4>1. more \in 0 .. Len(Replicas) /\ listed \in 0 .. more
        BY <2>3
      <4> HIDE DEF more, listed
      <4> QED
        BY <4>1, PageListed
    <3>2. PageOf(listed, more) = <<>> => more - listed = 0
      BY <3>1
    <3> QED
      BY <2>2, <2>3, <3>2
  <2>5. arg.page = PageOf(listed, more) /\ arg.from = 0
    OBVIOUS
  <2>6. ASSUME NEW c, c.op = call[v].op, c.todo = todo,
               todo # <<>> => c.arg = arg /\ c.base = more
        PROVE  Progress(c, services[v], IF todo = <<>> THEN "nil" ELSE "none")
    <3>1. CASE PageOf(listed, more) = <<>>
      BY <2>2, <2>4, <2>6, <3>1 DEF Progress, Described
    <3>2. CASE PageOf(listed, more) # <<>>
      <4>1. todo = <<"describeServices">> /\ todo # <<>>
        BY <3>2
      <4>2. c.arg = arg /\ c.base = more /\ c.todo = <<"describeServices">>
        BY <2>6, <4>1
      <4>3. services[v] = First(listed + 0) /\ 0 \in 0 .. (more - listed)
        BY <2>2, <2>3
      <4> HIDE DEF arg, more
      <4>4. Describing(c, services[v])
        BY <2>3, <2>5, <4>2, <4>3 DEF Describing
      <4> QED
        BY <4>1, <4>4 DEF Progress
    <3> QED
      BY <3>1, <3>2
  <2> HIDE DEF todo, arg, more
  <2> QED
    BY <1>1, <2>6, NothingDescribed, GoOnDescribes
<1> QED
  BY <1>2, <1>3

\* DescribeServices describes the next chunk, and is over with the page exactly
\* when all that is listed is described.
LEMMA DescribeServicesDescribes ==
    ASSUME ServicesInv, NEW v \in Users, DescribeServices(v)
    PROVE  ServicesInv'
<1> DEFINE page == call[v].arg.page
           from == call[v].arg.from
           base == call[v].base
           next == from + MaxDescribeServices
           todo == IF HasMoreChunks(page, next) THEN <<"describeServices">>
                   ELSE IF base < Len(Replicas) THEN <<"nextPage">> ELSE <<>>
           arg == [page |-> page, from |-> next]
           s == services[v] \o Chunk(page, from, MaxDescribeServices)
<1>1. /\ At(v, "describeServices") /\ GoOn(v, todo, arg, base)
      /\ services' = [services EXCEPT ![v] = s]
  BY DEF DescribeServices, ServicesInv
<1>2. CASE call[v].op # "DescribeAllServices"
  <2>1. \A c, r : c.op = call[v].op => Progress(c, s, r)
    BY <1>2 DEF Progress
  <2> HIDE DEF todo, arg, s, base
  <2> QED
    BY <1>1, <2>1, GoOnDescribes
<1>3. CASE call[v].op = "DescribeAllServices"
  <2>1. Describing(call[v], services[v])
    <3>1. Head(<<"nextPage">>) = "nextPage"
      OBVIOUS
    <3> QED
      BY <1>1, <1>3, <3>1 DEF ServicesInv, Progress, Listing, Described, At
  <2>2. PICK listed \in 0 .. base :
            /\ page = PageOf(listed, base)
            /\ from \in 0 .. (base - listed)
            /\ services[v] = First(listed + from)
    BY <2>1 DEF Describing
  <2>3. base \in 0 .. Len(Replicas)
    BY <2>1 DEF Describing
  <2> DEFINE end == IF next < base - listed THEN next ELSE base - listed
  <2>4. /\ end \in Nat /\ listed + (base - listed) = base /\ next \in Nat
        /\ listed \in Nat /\ base \in Nat /\ listed <= base
    <3> HIDE DEF base, from
    <3>1. base \in Nat
      BY <2>3, ClusterAssumption, ReplicasListed
    <3> QED
      BY <2>2, <3>1, ClusterAssumption, ReplicasListed
  <2>5. s = First(listed + end)
    <3>1. MaxDescribeServices \in Nat \ {0}
      BY ClusterAssumption
    <3>2. from \in 0 .. (base - listed)
      BY <2>2
    <3>3. end = ChunkEnd(base - listed, from, MaxDescribeServices)
      BY DEF ChunkEnd
    <3>4. s = First(listed + from) \o Chunk(PageOf(listed, base), from, MaxDescribeServices)
      BY <2>2
    <3> HIDE DEF base, from, page, s, end
    <3>5. First(listed + from) \o Chunk(PageOf(listed, base), from, MaxDescribeServices)
              = First(listed + ChunkEnd(base - listed, from, MaxDescribeServices))
      BY <2>2, <2>3, <3>1, <3>2, ChunkContinues
    <3> QED
      BY <3>3, <3>4, <3>5
  <2>6. HasMoreChunks(page, next) <=> next < base - listed
    <3> HIDE DEF base, page
    <3>1. Len(page) = base - listed
      BY <2>2, <2>3, PageListed
    <3> QED
      BY <3>1 DEF HasMoreChunks
  <2>7. arg.page = page /\ arg.from = next
    OBVIOUS
  <2> HIDE DEF s, arg, page, from, base
  <2>8. ASSUME NEW c, c.op = call[v].op, c.todo = todo,
               todo # <<>> => c.arg = arg /\ c.base = base
        PROVE  Progress(c, s, IF todo = <<>> THEN "nil" ELSE "none")
    <3>1. CASE next < base - listed
      <4>1. todo = <<"describeServices">> /\ todo # <<>>
        BY <2>6, <3>1
      <4>2. c.todo = <<"describeServices">> /\ c.arg = arg /\ c.base = base
        BY <2>8, <4>1
      <4>3. next \in 0 .. (base - listed) /\ s = First(listed + next)
        BY <2>2, <2>3, <2>4, <2>5, <3>1
      <4>4. Describing(c, s)
        BY <2>2, <2>3, <2>7, <4>2, <4>3 DEF Describing
      <4> QED
        BY <4>1, <4>4 DEF Progress
    <3>2. CASE ~(next < base - listed)
      <4>1. s = First(base)
        BY <2>4, <2>5, <3>2
      <4>2. CASE base < Len(Replicas)
        <5>1. todo = <<"nextPage">> /\ todo # <<>>
          BY <2>6, <3>2, <4>2
        <5>2. c.todo = <<"nextPage">> /\ c.base = base
          BY <2>8, <5>1
        <5>3. Listing(c, s)
          BY <2>3, <4>1, <5>2 DEF Listing
        <5> QED
          BY <5>1, <5>3 DEF Progress
      <4>3. CASE ~(base < Len(Replicas))
        <5>1. todo = <<>> /\ base = Len(Replicas)
          BY <2>3, <2>6, <3>2, <4>3, ClusterAssumption, ReplicasListed
        <5>2. c.todo = <<>>
          BY <2>8, <5>1
        <5> QED
          BY <4>1, <5>1, <5>2 DEF Progress, Described
      <4> QED
        BY <4>2, <4>3
    <3> QED
      BY <3>1, <3>2
  <2> HIDE DEF todo
  <2> QED
    BY <1>1, <2>8, GoOnDescribes
<1> QED
  BY <1>2, <1>3

\* Every operation begins with nothing described.
LEMMA BeginDescribes ==
    ASSUME ServicesInv, NEW v \in Users, NEW op, NEW todo, NEW arg, Begin(v, op, todo, arg),
           op = "DescribeAllServices" => todo = <<"nextPage">>
    PROVE  ServicesInv'
<1> DEFINE c == [op |-> op, todo |-> todo, arg |-> arg, base |-> 0]
<1>1. /\ call' = [call EXCEPT ![v] = c]
      /\ result' = [result EXCEPT ![v] = "none"]
      /\ services' = [services EXCEPT ![v] = <<>>]
  BY DEF Begin
<1>2. c.op = op /\ c.todo = todo /\ c.base = 0
  OBVIOUS
<1> HIDE DEF c
<1>3. <<>> = First(0) /\ 0 \in 0 .. Len(Replicas)
  BY ClusterAssumption, ReplicasListed DEF First
<1>4. Progress(c, <<>>, "none")
  BY <1>2, <1>3 DEF Progress, Listing
<1> QED
  BY <1>1, <1>4, OneListingChanges

\* Every step of every user and of the environment keeps the invariant.
LEMMA NextServices == ServicesInv /\ [Next]_vars => ServicesInv'
<1> SUFFICES ASSUME ServicesInv, [Next]_vars PROVE ServicesInv'
  OBVIOUS
<1>1. ASSUME NEW v \in Users, Call(v) PROVE ServicesInv'
  <2>1. PICK op, todo, arg : /\ Begin(v, op, todo, arg)
                             /\ op = "DescribeAllServices" => todo = <<"nextPage">>
    <3>1. CASE Autoscale(v)
      BY <3>1 DEF Autoscale
    <3>2. CASE Start(v) \/ Stop(v)
      BY <3>2 DEF Start, Stop
    <3>3. CASE Scale(v)
      BY <3>3 DEF Scale
    <3>4. CASE ReplaceTaskDefinitionTag(v)
      BY <3>4 DEF ReplaceTaskDefinitionTag
    <3>5. CASE Deploy(v) \/ Restart(v)
      BY <3>5 DEF Deploy, Restart
    <3>6. CASE RunConsole(v) \/ DescribeAllServices(v)
      BY <3>6 DEF RunConsole, DescribeAllServices
    <3> QED
      BY <1>1, <3>1, <3>2, <3>3, <3>4, <3>5, <3>6 DEF Call
  <2> QED
    BY <2>1, BeginDescribes
<1>2. ASSUME NEW v \in Users, Step(v) PROVE ServicesInv'
  <2>1. CASE NextPage(v) \/ DescribeServices(v)
    BY <2>1, NextPageDescribes, DescribeServicesDescribes
  <2>2. CASE ~NextPage(v) /\ ~DescribeServices(v)
    <3>1. PICK step : step \notin {"nextPage", "describeServices"} /\ At(v, step)
      BY <1>2, <2>2 DEF Step, RegisterScalableTarget, DescribeScalableTargets, SetDesiredCount,
         DescribeTaskDefinition, RegisterTaskDefinition, UpdateService, DescribeService,
         GetUserID, RunTask, Wait
    <3>2. UNCHANGED services
      BY <1>2, <2>2 DEF Step, RegisterScalableTarget, DescribeScalableTargets, SetDesiredCount,
         DescribeTaskDefinition, RegisterTaskDefinition, UpdateService, DescribeService,
         GetUserID, RunTask, Wait
    <3>3. \/ \E how : how # "nil" /\ Ends(v, how)
          \/ \E todo, arg, base : GoOn(v, todo, arg, base)
      BY <1>2, <2>2 DEF Step, RegisterScalableTarget, DescribeScalableTargets, SetDesiredCount,
         DescribeTaskDefinition, RegisterTaskDefinition, UpdateService, DescribeService,
         GetUserID, RunTask, Wait, Answered, Proceed, ReturnError
    <3> QED
      BY <3>1, <3>2, <3>3, OtherStepDescribes
  <2> QED
    BY <2>1, <2>2
<1>3. ASSUME NEW v \in Users, CallFails(v) \/ WaitTimesOut(v) PROVE ServicesInv'
  BY <1>3, ErrorDescribes DEF CallFails, WaitTimesOut, ReturnError
<1>4. CASE UNCHANGED <<call, services, result>>
  BY <1>4 DEF ServicesInv
<1>5. ASSUME NEW v \in Users, TaskStarts(v) \/ TaskStops(v) PROVE ServicesInv'
  BY <1>4, <1>5 DEF TaskStarts, TaskStops
<1>6. CASE ActivityDecided \/ ActivityConcluded \/ UNCHANGED vars
  BY <1>4, <1>6 DEF ActivityDecided, ActivityConcluded, vars
<1> QED
  BY <1>1, <1>2, <1>3, <1>5, <1>6 DEF Next

\* DescribeAllServices returns every service that ECS lists under REPLICA, once and
\* in order, for every list and every size of pages and chunks, or an error.
THEOREM ReplicasDescribedCorrect == Spec => []ReplicasDescribed
<1>1. ServicesInv => ReplicasDescribed
  <2> SUFFICES ASSUME ServicesInv, NEW u \in Users,
                      call[u].op = "DescribeAllServices", result[u] = "nil"
               PROVE  services[u] = Replicas
    BY DEF ReplicasDescribed
  <2>1. Progress(call[u], services[u], result[u])
    BY DEF ServicesInv
  <2>2. services[u] = First(Len(Replicas))
    BY <2>1 DEF Progress, Described
  <2>3. First(Len(Replicas)) = Replicas
    BY ReplicasListed, LenProperties DEF First
  <2> QED
    BY <2>2, <2>3
<1> QED
  BY <1>1, InitServices, NextServices, PTL DEF Spec
=============================================================================
