--------------------------- MODULE ClusterService ---------------------------
(***************************************************************************)
(* The operations on one ECS service (cluster/cluster.go, scale.go,        *)
(* autoscale.go), called by several users at once.                         *)
(*                                                                         *)
(* Each operation is a short program of AWS calls, and each AWS call is a  *)
(* step: it takes effect and is answered, is refused, or takes effect and  *)
(* its answer is lost.  The service itself, its autoscaler and its console *)
(* tasks are the environment.  An autoscaling activity is decided at one   *)
(* moment, when its kind is not suspended, and sets the desired count at a *)
(* later one.                                                              *)
(***************************************************************************)
EXTENDS Integers, Sequences, Functions, SafeInt

CONSTANTS
    Users,               \* callers, each with a Cluster value of its own
    Containers, Tags,    \* of the task definition
    BadImage,            \* an image that splitImage does not understand
    NoTarget, Undefined, \* no scalable target; a capacity that is not set
    Services,            \* of the cluster
    ListServices(_),     \* those that ECS lists for a scheduling strategy
    MaxListServices, MaxDescribeServices,
    MaxCalls             \* bound: operations called

\* An image has a tag; pages and chunks are not empty.
ASSUME ClusterAssumption ==
    /\ Tags # {}
    /\ MaxListServices \in Nat \ {0}
    /\ MaxDescribeServices \in Nat \ {0}

\* ECS lists each service once, under the strategy that it has.
ASSUME ListServicesAssumption ==
    LET strategies == {"REPLICA", "DAEMON"} IN
    /\ \A strategy \in strategies :
           /\ ListServices(strategy) \in Seq(Services)
           /\ IsInjective(ListServices(strategy))
    /\ \A s \in Services : \E strategy \in strategies : s \in Range(ListServices(strategy))
    /\ Range(ListServices("REPLICA")) \cap Range(ListServices("DAEMON")) = {}

VARIABLES
    desiredCount, scalableTarget, suspended, activity, \* the service
    taskDefinition, revisions,  \* what is deployed; all registered revisions
    task,                       \* the console task of each user
    services,                   \* what DescribeAllServices has described
    userID,                     \* Cluster.userID is known
    call, result, calls,        \* what each user is doing
    steady, zeroed              \* history, of a Stop: see Touch

serviceVars == <<desiredCount, scalableTarget, suspended, activity>>
definitionVars == <<taskDefinition, revisions>>
historyVars == <<steady, zeroed>>
vars == <<serviceVars, definitionVars, task, services, userID, call, result, calls,
          historyVars>>

Modes == {"in", "out", "scheduled"}

Counts == 0 .. (Int32Limit - 1)

ScalableTargets ==
    {NoTarget, [min |-> Undefined, max |-> Undefined]}
        \cup {t \in [min : Counts, max : Counts] : t.min <= t.max}

\* A call that has returned, and one that goes on with what is left to do.
Returned(op) == [op |-> op, todo |-> <<>>, arg |-> 0, base |-> 0]

\* AutoscalingOptions: a nil field leaves its mode alone.  Autoscale is called
\* with one field set; Start and Stop set all three.
AutoscalingOptions ==
    {[m \in Modes |-> IF m = mode THEN value ELSE "nil"] :
        mode \in Modes, value \in {"true", "false"}}

\* A replacer that gives a new tag to some of the images.
Replacers == [images : SUBSET Containers, tag : Tags]

\* No operation looks at both the scalable target and the images, so the images
\* vary for one kind of target only.
Init ==
    /\ desiredCount = 1
    /\ scalableTarget \in ScalableTargets
    /\ LET tag == CHOOSE t \in Tags : TRUE IN
           \/ revisions = <<[c \in Containers |-> tag]>>
           \/ /\ scalableTarget = NoTarget
              /\ \E images \in [Containers -> {tag, BadImage}] : revisions = <<images>>
    /\ suspended = {}
    /\ activity = Undefined
    /\ taskDefinition = 1
    /\ task = [u \in Users |-> "none"]
    /\ services = [u \in Users |-> <<>>]
    /\ userID = [u \in Users |-> FALSE]
    /\ call = [u \in Users |-> Returned("none")]
    /\ result = [u \in Users |-> "none"]
    /\ calls = 0
    /\ steady = [u \in Users |-> FALSE]
    /\ zeroed = [u \in Users |-> FALSE]

-----------------------------------------------------------------------------
(* The beginning of an operation: which calls it makes, in which order *)

Begin(u, op, todo, arg) ==
    /\ call[u].todo = <<>>
    /\ calls < MaxCalls
    /\ calls' = calls + 1
    /\ call' = [call EXCEPT ![u] = [op |-> op, todo |-> todo, arg |-> arg, base |-> 0]]
    /\ result' = [result EXCEPT ![u] = "none"]
    /\ steady' = [steady EXCEPT ![u] = op = "Stop"]
    /\ zeroed' = [zeroed EXCEPT ![u] = FALSE]
    /\ services' = [services EXCEPT ![u] = <<>>]
    /\ UNCHANGED <<serviceVars, definitionVars, task, userID>>

Autoscale(u) ==
    \E options \in AutoscalingOptions :
        Begin(u, "Autoscale", <<"registerScalableTarget">>, options)

Start(u) ==
    Begin(u, "Start", <<"registerScalableTarget">>, [m \in Modes |-> "true"])

\* Mutant of Stop: scale to zero, then suspend.
Stop_CountFirst(u) ==
    Begin(u, "Stop", <<"setDesiredCount", "registerScalableTarget">>, [m \in Modes |-> "false"])

Stop(u) ==
    Begin(u, "Stop", <<"registerScalableTarget", "setDesiredCount">>, [m \in Modes |-> "false"])

\* Size, or the capacity of the scalable target.
Scale(u) ==
    \/ \E size \in {1 - 2 * Int32Limit, -1, 0, Int32Limit - 1, Int32Limit} :
           IF SafeInt32(size).ok
           THEN Begin(u, "Scale", <<"setDesiredCount">>, SafeInt32(size).value)
           ELSE Begin(u, "Scale", <<"invalidOption">>, 0)
    \/ \E bound \in {"min", "max"} :
           Begin(u, "Scale", <<"describeScalableTargets">>, bound)

\* An ARN that splitTaskDefinitionARN refuses fails as an AWS call does.
ReplaceTaskDefinitionTag(u) ==
    \E replacer \in Replacers :
        Begin(u, "ReplaceTaskDefinitionTag",
              <<"describeTaskDefinition", "registerTaskDefinition">>, replacer)

Deploy(u) ==
    \E arn \in DOMAIN revisions : Begin(u, "Deploy", <<"deploy">>, arn)

Restart(u) == Begin(u, "Restart", <<"deploy">>, Undefined)

RunConsole(u) ==
    /\ task[u] = "none"
    /\ Begin(u, "RunConsole", <<"describeService", "getUserID", "runTask", "wait">>, 0)

DescribeAllServices(u) == Begin(u, "DescribeAllServices", <<"nextPage">>, 0)

Call(u) ==
    \/ Autoscale(u) \/ Start(u) \/ Stop(u) \/ Scale(u)
    \/ ReplaceTaskDefinitionTag(u) \/ Deploy(u) \/ Restart(u)
    \/ RunConsole(u) \/ DescribeAllServices(u)

-----------------------------------------------------------------------------
(* The steps *)

At(u, step) == call[u].todo # <<>> /\ Head(call[u].todo) = step

\* The operation goes on with what is left to do; it returns nil when that is
\* nothing.
GoOn(u, todo, arg, base) ==
    LET op == call[u].op IN
    /\ call' = [call EXCEPT ![u] = IF todo = <<>> THEN Returned(op)
                 ELSE [op |-> op, todo |-> todo, arg |-> arg, base |-> base]]
    /\ result' = [result EXCEPT ![u] = IF todo = <<>> THEN "nil" ELSE "none"]

Proceed(u) == GoOn(u, Tail(call[u].todo), call[u].arg, call[u].base)

Ends(u, how) ==
    /\ call' = [call EXCEPT ![u] = Returned(call[u].op)]
    /\ result' = [result EXCEPT ![u] = how]

ReturnError(u) == Ends(u, "error")

\* The call took effect; its answer arrives or is lost.
Answered(u) == Proceed(u) \/ ReturnError(u)

\* A change of the service by u disturbs every other user's operation, and
\* calm says whether it leaves u's own alone.
Touch(u, calm) == steady' = [v \in Users |-> v = u /\ steady[v] /\ calm]

\* Every step but the cached getUserID can fail without having had an effect.
CallFails(u) ==
    /\ call[u].todo # <<>>
    /\ At(u, "getUserID") => ~userID[u]
    /\ ReturnError(u)
    /\ UNCHANGED <<serviceVars, definitionVars, task, userID, services, calls, historyVars>>

\* Only the modes that the options name are changed.  Registering without
\* capacities needs a target that exists.
RegisterScalableTarget(u) ==
    /\ At(u, "registerScalableTarget")
    /\ scalableTarget # NoTarget
    /\ suspended' = {m \in Modes : \/ call[u].arg[m] = "false"
                                   \/ call[u].arg[m] = "nil" /\ m \in suspended}
    /\ Touch(u, activity = Undefined)
    /\ Answered(u)
    /\ UNCHANGED <<desiredCount, scalableTarget, activity, definitionVars, task, userID,
                   services, calls, zeroed>>

\* scaleMinMax: without a target there is nothing to do, and no error.
DescribeScalableTargets(u) ==
    /\ At(u, "describeScalableTargets")
    /\ IF scalableTarget = NoTarget THEN Proceed(u)
       ELSE IF scalableTarget[call[u].arg] = Undefined THEN ReturnError(u)
       ELSE GoOn(u, <<"setDesiredCount">>, scalableTarget[call[u].arg], 0)
    /\ UNCHANGED <<serviceVars, definitionVars, task, userID, services, calls, historyVars>>

\* ECS refuses a negative count.
SetDesiredCount(u) ==
    LET count == IF call[u].op = "Stop" THEN 0 ELSE call[u].arg IN
    /\ At(u, "setDesiredCount")
    /\ count >= 0
    /\ desiredCount' = count
    /\ zeroed' = [zeroed EXCEPT ![u] = call[u].op = "Stop"]
    /\ Touch(u, TRUE)
    /\ Answered(u)
    /\ UNCHANGED <<scalableTarget, suspended, activity, definitionVars, task, userID,
                   services, calls>>

\* The family's latest revision, whatever revision the ARN names.
DescribeTaskDefinition(u) ==
    /\ At(u, "describeTaskDefinition")
    /\ GoOn(u, Tail(call[u].todo), call[u].arg, Len(revisions))
    /\ UNCHANGED <<serviceVars, definitionVars, task, userID, services, calls, historyVars>>

Replace(images, replacer) ==
    [c \in Containers |-> IF c \in replacer.images THEN replacer.tag ELSE images[c]]

\* splitImage understands every image.
ImagesSplit(images) == \A c \in Containers : images[c] # BadImage

\* Mutant of RegisterTaskDefinition: an image that cannot be split is skipped.
RegisterTaskDefinition_SkipsBad(u) ==
    /\ At(u, "registerTaskDefinition")
    /\ LET images == revisions[call[u].base] IN
           revisions' = Append(revisions,
               [c \in Containers |-> IF images[c] = BadImage THEN BadImage
                                     ELSE Replace(images, call[u].arg)[c]])
    /\ Answered(u)
    /\ UNCHANGED <<serviceVars, taskDefinition, task, userID, services, calls, historyVars>>

\* Mutant of RegisterTaskDefinition: what was described is shared, so that the
\* replacements of another user who is at the same point are in it, too.
RegisterTaskDefinition_Shared(u) ==
    LET sharing == {v \in Users \ {u} : At(v, "registerTaskDefinition")
                                         /\ call[v].base = call[u].base}
        described == revisions[call[u].base]
        images == [c \in Containers |->
                      IF \E v \in sharing : c \in call[v].arg.images
                      THEN call[CHOOSE v \in sharing : c \in call[v].arg.images].arg.tag
                      ELSE described[c]]
    IN
    /\ At(u, "registerTaskDefinition")
    /\ IF ImagesSplit(described)
       THEN revisions' = Append(revisions, Replace(images, call[u].arg)) /\ Answered(u)
       ELSE ReturnError(u) /\ UNCHANGED revisions
    /\ UNCHANGED <<serviceVars, taskDefinition, task, userID, services, calls, historyVars>>

\* Every image is split and replaced before anything is registered.
RegisterTaskDefinition(u) ==
    LET images == revisions[call[u].base] IN
    /\ At(u, "registerTaskDefinition")
    /\ IF ImagesSplit(images)
       THEN revisions' = Append(revisions, Replace(images, call[u].arg)) /\ Answered(u)
       ELSE ReturnError(u) /\ UNCHANGED revisions
    /\ UNCHANGED <<serviceVars, taskDefinition, task, userID, services, calls, historyVars>>

\* Deploy and Restart: UpdateService with ForceNewDeployment.
UpdateService(u) ==
    /\ At(u, "deploy")
    /\ taskDefinition' = IF call[u].arg = Undefined THEN taskDefinition ELSE call[u].arg
    /\ Answered(u)
    /\ UNCHANGED <<serviceVars, revisions, task, userID, services, calls, historyVars>>

\* DescribeService; no such service is CallFails.
DescribeService(u) ==
    /\ At(u, "describeService")
    /\ Proceed(u)
    /\ UNCHANGED <<serviceVars, definitionVars, task, userID, services, calls, historyVars>>

GetUserID(u) ==
    /\ At(u, "getUserID")
    /\ userID' = [userID EXCEPT ![u] = TRUE]
    /\ Proceed(u)
    /\ UNCHANGED <<serviceVars, definitionVars, task, services, calls, historyVars>>

\* The task is started, or none is although the call has succeeded: RunConsole
\* then takes the first of no tasks and panics, and it panics before the call for
\* a service without an awsvpc network.  The caller has no task then.
RunTask(u) ==
    /\ At(u, "runTask")
    /\ \/ /\ task' = [task EXCEPT ![u] = "pending"]
          /\ Answered(u)
       \/ Ends(u, "panic") /\ UNCHANGED task
    /\ UNCHANGED <<serviceVars, definitionVars, userID, services, calls, historyVars>>

\* The waiter polls until the task runs or has stopped ...
Wait(u) ==
    /\ At(u, "wait")
    /\ \/ task[u] = "running" /\ Proceed(u)
       \/ task[u] = "stopped" /\ ReturnError(u)
    /\ UNCHANGED <<serviceVars, definitionVars, task, userID, services, calls, historyVars>>

\* Mutant of WaitTimesOut: maxWaitTime only counts for a task that runs.
WaitTimesOut_Running(u) ==
    /\ At(u, "wait")
    /\ task[u] = "running"
    /\ ReturnError(u)
    /\ UNCHANGED <<serviceVars, definitionVars, task, userID, services, calls, historyVars>>

\* ... or until maxWaitTime is over.  The task is left as it is.
WaitTimesOut(u) ==
    /\ At(u, "wait")
    /\ ReturnError(u)
    /\ UNCHANGED <<serviceVars, definitionVars, task, userID, services, calls, historyVars>>

\* What DescribeAllServices asks ECS for: no DAEMON services.
Replicas == ListServices("REPLICA")

\* One page of ListServices, which has an empty page only for no services at all.
\* base counts the ARNs that were listed; any failure drops all (CallFails).
NextPage(u) ==
    LET listed == call[u].base
        more == IF listed + MaxListServices < Len(Replicas) THEN listed + MaxListServices
                                                            ELSE Len(Replicas)
        page == [i \in 1 .. (more - listed) |-> Replicas[listed + i]]
    IN
    /\ At(u, "nextPage")
    /\ GoOn(u, IF page = <<>> THEN <<>> ELSE <<"describeServices">>,
            [page |-> page, from |-> 0], more)
    /\ UNCHANGED <<serviceVars, definitionVars, task, userID, services, calls, historyVars>>

\* chunk, for a positive size: one turn of its loop, and the condition of it.
Chunk(s, from, size) ==
    LET end == IF from + size < Len(s) THEN from + size ELSE Len(s)
    IN  SubSeq(s, from + 1, end)

\* Mutant of HasMoreChunks: the last, shorter chunk is lost.
HasMoreChunks_WholeOnly(s, from) == from + MaxDescribeServices <= Len(s)

HasMoreChunks(s, from) == from < Len(s)

\* The next chunk of the page is described; the page after the last one.
DescribeServices(u) ==
    LET page == call[u].arg.page
        from == call[u].arg.from
        next == from + MaxDescribeServices
    IN
    /\ At(u, "describeServices")
    /\ services' = [services EXCEPT ![u] = @ \o Chunk(page, from, MaxDescribeServices)]
    /\ GoOn(u, IF HasMoreChunks(page, next) THEN <<"describeServices">>
               ELSE IF call[u].base < Len(Replicas) THEN <<"nextPage">> ELSE <<>>,
            [page |-> page, from |-> next], call[u].base)
    /\ UNCHANGED <<serviceVars, definitionVars, task, userID, calls, historyVars>>

Step(u) ==
    \/ RegisterScalableTarget(u) \/ DescribeScalableTargets(u) \/ SetDesiredCount(u)
    \/ DescribeTaskDefinition(u) \/ RegisterTaskDefinition(u) \/ UpdateService(u)
    \/ DescribeService(u) \/ GetUserID(u) \/ RunTask(u) \/ Wait(u)
    \/ NextPage(u) \/ DescribeServices(u)

-----------------------------------------------------------------------------
(* The environment *)

HasCapacity == scalableTarget # NoTarget /\ scalableTarget.min # Undefined

\* What an activity of each kind may set the count to.
Proposals(mode) ==
    {n \in scalableTarget.min .. scalableTarget.max :
        /\ mode = "in" => n < desiredCount
        /\ mode = "out" => n > desiredCount}

ActivityDecided ==
    /\ HasCapacity
    /\ activity = Undefined
    /\ \E mode \in Modes \ suspended : \E n \in Proposals(mode) : activity' = n
    /\ UNCHANGED <<desiredCount, scalableTarget, suspended, definitionVars, task, userID,
                   call, result, services, calls, historyVars>>

ActivityConcluded ==
    /\ activity # Undefined
    /\ desiredCount' = activity
    /\ activity' = Undefined
    /\ UNCHANGED <<scalableTarget, suspended, definitionVars, task, userID, call, result,
                   services, calls, historyVars>>

TaskStarts(u) ==
    /\ task[u] = "pending"
    /\ task' = [task EXCEPT ![u] = "running"]
    /\ UNCHANGED <<serviceVars, definitionVars, userID, call, result, services, calls, historyVars>>

TaskStops(u) ==
    /\ task[u] \in {"pending", "running"}
    /\ task' = [task EXCEPT ![u] = "stopped"]
    /\ UNCHANGED <<serviceVars, definitionVars, userID, call, result, services, calls, historyVars>>

Next ==
    \/ \E u \in Users :
           \/ Call(u) \/ Step(u) \/ CallFails(u) \/ WaitTimesOut(u)
           \/ TaskStarts(u) \/ TaskStops(u)
    \/ ActivityDecided
    \/ ActivityConcluded

Spec == Init /\ [][Next]_vars

(***************************************************************************)
(* Fairness.  An AWS call returns, with an answer or an error, and the     *)
(* waiter's timer runs out.  Nothing is assumed of the service: a task may *)
(* stay pending for ever.                                                  *)
(***************************************************************************)
Fairness ==
    \A u \in Users : /\ WF_vars((~At(u, "wait") /\ CallFails(u)) \/ Step(u))
                     /\ WF_vars(WaitTimesOut(u))

FairSpec == Spec /\ Fairness

-----------------------------------------------------------------------------
(* Properties *)

\* Stop suspends before it scales, so that once its scaling to zero has taken
\* effect, whatever Stop then returns, no mode is left that could raise the
\* count again: it stays at zero for as long as no other user changes the
\* service and no autoscaling activity was under way at the suspension.  Stop
\* returns nil only then (Stop, Autoscale, setDesiredCount).
StopHolds ==
    \A u \in Users :
        steady[u] =>
            /\ zeroed[u] => desiredCount = 0 /\ suspended = Modes
            /\ result[u] = "nil" => zeroed[u]

\* Every revision but the first is an earlier one, all of whose images could be
\* split, with one replacer applied to all of it: also when two users replace
\* tags at once, an answer is lost or an image in the middle is refused
\* (ReplaceTaskDefinitionTag).
RevisionsWhole ==
    \A i \in DOMAIN revisions \ {1} :
        \E base \in 1 .. (i - 1), replacer \in Replacers :
            /\ ImagesSplit(revisions[base])
            /\ revisions[i] = Replace(revisions[base], replacer)

\* DescribeAllServices, page by page and chunk by chunk, returns every service
\* with the scheduling strategy REPLICA once and in the order in which ECS lists
\* them, and no other service (chunk, DescribeAllServices).
ReplicasDescribed ==
    \A u \in Users :
        (call[u].op = "DescribeAllServices" /\ result[u] = "nil") => services[u] = Replicas

\* Every operation ends.  RunConsole does although its task may stay pending for
\* ever (maxWaitTime), and it alone may end with a panic instead of a result, which
\* leaves no task behind.
CallsEnd ==
    \A u \in Users :
        (call[u].todo # <<>>) ~>
            /\ call[u].todo = <<>>
            /\ result[u] # "none"
            /\ result[u] = "panic" => call[u].op = "RunConsole" /\ task[u] = "none"
=============================================================================
