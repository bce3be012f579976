----------------------------- MODULE WorkerProofs -----------------------------
(***************************************************************************)
(* Theorems of Worker, for any number of runtimes, in groups of any length *)
(* in which a runtime may occur twice, and any goroutines that start and   *)
(* stop a group.                                                           *)
(***************************************************************************)
EXTENDS Worker, SequenceTheorems, TLAPS

\* The phases of the one goroutine that starts the group, and of the one that
\* stops it; they may be the same, one after the other.
Starters == {"start", "cleanup", "started"}
Stoppers == {"stop", "stopped"}

GroupTypes ==
  /\ group \in [workers : Seq(Runtimes), started : BOOLEAN, stopping : BOOLEAN]
  /\ parent \in BOOLEAN

RuntimeTypes ==
  /\ rt \in [Runtimes -> RuntimeRow]
  /\ run \in [Runtimes -> {"none", "tick", "select", "ended"}]
  /\ \A r \in Runtimes :
       /\ rt[r].stopped => rt[r].started
       /\ rt[r].started <=> run[r] # "none"

CallTypes == call \in [Callers -> CallRow]

\* The group's two flags let one goroutine through each.
OneOfEach ==
  /\ \A c \in Callers : call[c].op # "idle" => group.started
  /\ \A c \in Callers : call[c].op \in Stoppers => group.stopping
  /\ \A c, d \in Callers : call[c].op \in Starters /\ call[d].op \in Starters => c = d
  /\ \A c, d \in Callers : call[c].op \in Stoppers /\ call[d].op \in Stoppers => c = d

\* Runtime.Stop has come past its wait only for a worker that has ended.
WaitedFor(c) ==
  /\ call[c].at # "lock" => Stopping(c)
  /\ call[c].at = "finalizer" => run[Target(c)] = "ended"

Finished(r) == run[r] = "ended" /\ ~rt[r].err

\* A Stop of the group that has met no error so far has every worker still before
\* it, or has found it finished; it returns when it has none before it.
AccountsFor(c) ==
  /\ call[c].op = "stopped" => call[c].left = <<>>
  /\ call[c].op \in Stoppers /\ ~call[c].failed =>
       \A r \in Runtimes :
         Contains(group.workers, r) => Contains(call[c].left, r) \/ Finished(r)

CallInv == \A c \in Callers : WaitedFor(c) /\ AccountsFor(c)

IInv == GroupTypes /\ RuntimeTypes /\ CallTypes /\ OneOfEach /\ CallInv

-------------------------------------------------------------------------------
(* Sequences of runtimes.                                                    *)

LEMMA ReverseKeeps ==
  ASSUME NEW s \in Seq(Runtimes)
  PROVE  /\ Reverse(s) \in Seq(Runtimes)
         /\ \A r : Contains(s, r) => Contains(Reverse(s), r)
<1>1. /\ Len(s) \in Nat
      /\ \A i \in 1..Len(s) : s[i] \in Runtimes /\ (Len(s) - i) + 1 \in 1..Len(s)
  BY ElementOfSeq, LenProperties
<1>2. Reverse(s) \in [1..Len(s) -> Runtimes]
  BY <1>1 DEF Reverse
<1>3. Reverse(s) \in Seq(Runtimes) /\ Len(Reverse(s)) = Len(s)
  BY <1>1, <1>2
<1>4. ASSUME NEW r, Contains(s, r) PROVE Contains(Reverse(s), r)
  <2>1. PICK i \in 1..Len(s) : s[i] = r
    BY <1>4 DEF Contains
  <2>2. (Len(s) - i) + 1 \in 1..Len(s)
    BY <1>1
  <2>3. (Len(s) - ((Len(s) - i) + 1)) + 1 = i
    BY <1>1
  <2>4. Reverse(s)[(Len(s) - i) + 1] = s[i]
    BY <2>2, <2>3 DEF Reverse
  <2> QED
    BY <1>3, <2>1, <2>2, <2>4 DEF Contains
<1> QED
  BY <1>3, <1>4

LEMMA HeadOrTail ==
  ASSUME NEW s \in Seq(Runtimes), s # <<>>
  PROVE  /\ Head(s) \in Runtimes
         /\ Tail(s) \in Seq(Runtimes)
         /\ \A r : Contains(s, r) => r = Head(s) \/ Contains(Tail(s), r)
<1>1. /\ Head(s) = s[1] /\ Head(s) \in Runtimes
      /\ Tail(s) \in Seq(Runtimes)
      /\ Len(s) \in Nat \ {0} /\ Len(Tail(s)) = Len(s) - 1
      /\ \A i \in 1..Len(Tail(s)) : Tail(s)[i] = s[i+1]
  BY HeadTailProperties, EmptySeq, LenProperties
<1>2. ASSUME NEW r, Contains(s, r), r # Head(s) PROVE Contains(Tail(s), r)
  <2>1. PICK i \in 1..Len(s) : s[i] = r
    BY <1>2 DEF Contains
  <2>2. i # 1
    BY <1>1, <1>2, <2>1
  <2>3. i - 1 \in 1..Len(Tail(s)) /\ Tail(s)[i - 1] = s[(i - 1) + 1] /\ (i - 1) + 1 = i
    BY <1>1, <2>2
  <2> QED
    BY <2>1, <2>3 DEF Contains
<1> QED
  BY <1>1, <1>2

LEMMA EmptyContainsNone == \A r : ~Contains(<<>>, r)
BY DEF Contains

-------------------------------------------------------------------------------
LEMMA InitInv == Init => IInv
<1> SUFFICES ASSUME Init PROVE IInv
  OBVIOUS
<1>1. GroupTypes
  BY EmptySeq DEF Init, GroupTypes
<1>2. RuntimeTypes
  BY DEF Init, RuntimeTypes, RuntimeRow
<1>3. \A c \in Callers : call[c] = Idle
  BY DEF Init
<1>4. CallTypes
  BY DEF Init, CallTypes, CallRow, Idle
<1>5. OneOfEach /\ CallInv
  BY <1>3 DEF OneOfEach, CallInv, WaitedFor, AccountsFor, Idle, Starters, Stoppers
<1> QED
  BY <1>1, <1>2, <1>4, <1>5 DEF IInv

-------------------------------------------------------------------------------
(* The steps.                                                                *)

\* The steps of a worker's goroutine, and of the canceling context, are none of a
\* caller's; what has ended stays so, with the errors it has.
LEMMA GoroutineKeeps ==
  ASSUME IInv, NEW r \in Runtimes, TickReturns(r) \/ TickAgain(r) \/ End(r)
  PROVE  IInv'
<1>1. RuntimeTypes'
  <2>1. CASE TickReturns(r)
    <3>1. PICK err \in BOOLEAN : rt' = [rt EXCEPT ![r].err = err]
      BY <2>1 DEF IInv, RuntimeTypes, RuntimeRow, TickReturns
    <3>2. rt' \in [Runtimes -> RuntimeRow]
      BY <3>1 DEF IInv, RuntimeTypes, RuntimeRow
    <3>3. \A x \in Runtimes : rt'[x].started = rt[x].started /\ rt'[x].stopped = rt[x].stopped
      BY <3>1 DEF IInv, RuntimeTypes, RuntimeRow
    <3> QED
      BY <2>1, <3>2, <3>3 DEF IInv, RuntimeTypes, TickReturns
  <2>2. CASE TickAgain(r) \/ End(r)
    BY <2>2 DEF IInv, RuntimeTypes, TickAgain, End
  <2> QED
    BY <2>1, <2>2
<1>2. \A x \in Runtimes : /\ run[x] = "ended" => run'[x] = "ended"
                          /\ Finished(x) => Finished(x)'
  BY DEF IInv, RuntimeTypes, RuntimeRow, TickReturns, TickAgain, End, Finished
<1>3. UNCHANGED <<group, parent, call>>
  BY DEF TickReturns, TickAgain, End
<1>4. \A c \in Callers : Stopping(c) => Target(c) \in Runtimes
  BY HeadOrTail DEF IInv, CallTypes, CallRow, Stopping, Target
<1>5. \A c \in Callers : WaitedFor(c)'
  BY <1>2, <1>3, <1>4 DEF IInv, CallInv, WaitedFor, Stopping, Target
<1>6. \A c \in Callers : AccountsFor(c)'
  BY <1>2, <1>3 DEF IInv, CallInv, AccountsFor
<1>7. GroupTypes' /\ CallTypes' /\ OneOfEach'
  BY <1>3 DEF IInv, GroupTypes, CallTypes, OneOfEach
<1> QED
  BY <1>1, <1>5, <1>6, <1>7 DEF IInv, CallInv

LEMMA StutterKeeps ==
  ASSUME IInv, UNCHANGED <<group, rt, run, call>>, parent' \in BOOLEAN
  PROVE  IInv'
BY DEF IInv, GroupTypes, RuntimeTypes, CallTypes, OneOfEach, CallInv, WaitedFor,
       AccountsFor, Stopping, Target, Finished

\* Workers are added while nobody has begun to start the group.
LEMMA AddKeeps ==
  ASSUME IInv, NEW r \in Runtimes, Add(r)
  PROVE  IInv'
<1>1. \A c \in Callers : call[c].op = "idle"
  BY DEF IInv, OneOfEach, Add
<1>2. GroupTypes'
  BY AppendProperties DEF IInv, GroupTypes, Add
<1>3. UNCHANGED <<rt, run, call>>
  BY DEF Add
<1>4. RuntimeTypes' /\ CallTypes'
  BY <1>3 DEF IInv, RuntimeTypes, CallTypes
<1>5. OneOfEach'
  BY <1>1, <1>3 DEF OneOfEach, Starters, Stoppers
<1>6. CallInv'
  BY <1>1, <1>3 DEF IInv, CallInv, WaitedFor, AccountsFor, Stopping, Target, Stoppers
<1> QED
  BY <1>2, <1>4, <1>5, <1>6 DEF IInv

\* A step of one caller that leaves its role: the group, and what other callers
\* know, stay as they are, if nothing that has ended runs again.
LEMMA CallerKeeps ==
  ASSUME IInv, NEW c \in Callers,
         UNCHANGED <<group, parent>>, RuntimeTypes', CallTypes',
         \A d \in Callers \ {c} : call'[d] = call[d],
         \A r \in Runtimes : /\ run[r] = "ended" => run'[r] = "ended"
                             /\ Finished(r) => Finished(r)',
         call[c].op # "idle",
         call'[c].op \in Starters => call[c].op \in Starters,
         call'[c].op \in Stoppers => call[c].op \in Stoppers,
         WaitedFor(c)', AccountsFor(c)'
  PROVE  IInv'
<1>1. GroupTypes'
  BY DEF IInv, GroupTypes
<1>2. OneOfEach'
  <2>1. \A d \in Callers : /\ call'[d].op # "idle" => call[d].op # "idle"
                           /\ call'[d].op \in Starters => call[d].op \in Starters
                           /\ call'[d].op \in Stoppers => call[d].op \in Stoppers
    OBVIOUS
  <2> QED
    BY <2>1 DEF IInv, OneOfEach
<1>3. ASSUME NEW d \in Callers, d # c PROVE WaitedFor(d)' /\ AccountsFor(d)'
  <2>1. call'[d] = call[d]
    BY <1>3
  <2>2. Stopping(d) => Target(d) \in Runtimes
    BY HeadOrTail DEF IInv, CallTypes, CallRow, Stopping, Target
  <2>3. WaitedFor(d) /\ AccountsFor(d)
    BY DEF IInv, CallInv
  <2>4. WaitedFor(d)'
    BY <2>1, <2>2, <2>3 DEF WaitedFor, Stopping, Target
  <2>5. AccountsFor(d)'
    BY <2>1, <2>3 DEF AccountsFor
  <2> QED
    BY <2>4, <2>5
<1> QED
  BY <1>1, <1>2, <1>3 DEF IInv, CallInv

LEMMA CallRowOf ==
  ASSUME NEW s \in Seq(Runtimes)
  PROVE  /\ [Idle EXCEPT !.op = "start", !.left = s] \in CallRow
         /\ [Idle EXCEPT !.op = "stop", !.left = s] \in CallRow
<1>1. <<>> \in Seq(Runtimes)
  BY EmptySeq
<1>2. Idle \in CallRow
  BY <1>1 DEF Idle, CallRow
<1> QED
  BY <1>2 DEF CallRow

LEMMA BeginStartKeeps ==
  ASSUME IInv, NEW c \in Callers, BeginStart(c)
  PROVE  IInv'
<1>1. \A d \in Callers : call[d].op = "idle"
  BY DEF IInv, OneOfEach, BeginStart
<1>2. /\ \A d \in Callers \ {c} : call'[d] = call[d]
      /\ call'[c] = [Idle EXCEPT !.op = "start", !.left = group.workers]
      /\ UNCHANGED <<rt, run, parent>>
      /\ group'.started /\ group'.workers = group.workers
  BY DEF BeginStart, IInv, CallTypes, GroupTypes
<1>3. call'[c].op = "start" /\ call'[c].at = "lock"
  BY <1>2 DEF Idle
<1>4. GroupTypes'
  BY DEF IInv, GroupTypes, BeginStart
<1>5. RuntimeTypes'
  BY <1>2 DEF IInv, RuntimeTypes
<1>6. CallTypes'
  <2>1. group.workers \in Seq(Runtimes)
    BY DEF IInv, GroupTypes
  <2> QED
    BY <2>1, CallRowOf DEF IInv, CallTypes, BeginStart
<1>7. OneOfEach'
  <2>1. \A d \in Callers : d # c => call'[d].op = "idle"
    BY <1>1, <1>2
  <2> QED
    BY <1>2, <1>3, <2>1 DEF OneOfEach, Starters, Stoppers
<1>8. ASSUME NEW d \in Callers PROVE WaitedFor(d)' /\ AccountsFor(d)'
  <2>1. CASE d = c
    BY <1>3, <2>1 DEF WaitedFor, AccountsFor, Stoppers
  <2>2. CASE d # c
    BY <1>1, <1>2, <2>2
       DEF IInv, CallInv, WaitedFor, AccountsFor, Stopping, Target, Stoppers
  <2> QED
    BY <2>1, <2>2
<1> QED
  BY <1>4, <1>5, <1>6, <1>7, <1>8 DEF IInv, CallInv

\* All workers of the group are before a Stop that begins.
LEMMA BeginStopKeeps ==
  ASSUME IInv, NEW c \in Callers, BeginStop(c)
  PROVE  IInv'
<1>1. group.started /\ \A d \in Callers : call[d].op \notin Stoppers
  BY DEF IInv, OneOfEach, BeginStop, MayStop
<1>2. /\ \A d \in Callers \ {c} : call'[d] = call[d]
      /\ call'[c] = [Idle EXCEPT !.op = "stop", !.left = Reverse(group.workers)]
      /\ UNCHANGED <<rt, run, parent>>
      /\ group'.started /\ group'.stopping /\ group'.workers = group.workers
  BY <1>1 DEF BeginStop, IInv, CallTypes, GroupTypes
<1>3. /\ call'[c].op = "stop" /\ call'[c].at = "lock"
      /\ call'[c].left = Reverse(group.workers)
  BY <1>2 DEF Idle
<1>4. GroupTypes'
  BY DEF IInv, GroupTypes, BeginStop
<1>5. RuntimeTypes'
  BY <1>2 DEF IInv, RuntimeTypes
<1>6. group.workers \in Seq(Runtimes) /\ Reverse(group.workers) \in Seq(Runtimes)
  BY ReverseKeeps DEF IInv, GroupTypes
<1>7. CallTypes'
  BY <1>6, CallRowOf DEF IInv, CallTypes, BeginStop
<1>8. OneOfEach'
  <2>1. \A d \in Callers : call'[d].op \in Starters => call[d].op \in Starters
    BY <1>2, <1>3 DEF Starters
  <2>2. \A d \in Callers : call'[d].op \in Stoppers => d = c
    BY <1>1, <1>2
  <2> QED
    BY <1>2, <2>1, <2>2 DEF IInv, OneOfEach
<1>9. ASSUME NEW d \in Callers PROVE WaitedFor(d)' /\ AccountsFor(d)'
  <2>1. CASE d = c
    BY <1>2, <1>3, <1>6, <2>1, ReverseKeeps DEF WaitedFor, AccountsFor
  <2>2. CASE d # c
    BY <1>1, <1>2, <2>2
       DEF IInv, CallInv, WaitedFor, AccountsFor, Stopping, Target, Stoppers
  <2> QED
    BY <2>1, <2>2
<1> QED
  BY <1>4, <1>5, <1>7, <1>8, <1>9 DEF IInv, CallInv

\* What is known of a caller in a call.
LEMMA CallFields ==
  ASSUME IInv, NEW c \in Callers
  PROVE  /\ call[c] \in CallRow
         /\ call[c].left \in Seq(Runtimes) /\ call[c].begun \in Seq(Runtimes)
         /\ call[c].failed \in BOOLEAN /\ call[c].expired \in BOOLEAN
         /\ Stopping(c) => /\ Target(c) \in Runtimes
                           /\ Tail(call[c].left) \in Seq(Runtimes)
                           /\ \A r : Contains(call[c].left, r)
                                       => r = Target(c) \/ Contains(Tail(call[c].left), r)
         /\ WaitedFor(c) /\ AccountsFor(c)
BY HeadOrTail DEF IInv, CallTypes, CallRow, CallInv, Stopping, Target

LEMMA StartNextKeeps ==
  ASSUME IInv, NEW c \in Callers, StartNext(c)
  PROVE  IInv'
<1> DEFINE r == Head(call[c].left)
<1>1. /\ call[c].op = "start" /\ call[c].left # <<>> /\ ~rt[r].started
      /\ call' = [call EXCEPT ![c].left = Tail(@), ![c].begun = Append(@, r)]
      /\ rt' = [rt EXCEPT ![r].started = TRUE]
      /\ run' = [run EXCEPT ![r] = "tick"]
      /\ UNCHANGED <<group, parent>>
  BY DEF StartNext, Startable
<1>2. /\ r \in Runtimes /\ Tail(call[c].left) \in Seq(Runtimes)
      /\ Append(call[c].begun, r) \in Seq(Runtimes)
  BY <1>1, CallFields, HeadOrTail, AppendProperties
<1>3. /\ call'[c].op = "start" /\ call'[c].at = call[c].at
      /\ \A d \in Callers \ {c} : call'[d] = call[d]
  BY <1>1 DEF IInv, CallTypes, CallRow
<1>4. RuntimeTypes'
  <2>1. [rt[r] EXCEPT !.started = TRUE] \in RuntimeRow
    <3>1. rt[r] \in RuntimeRow
      BY <1>2 DEF IInv, RuntimeTypes
    <3> QED
      BY <3>1 DEF RuntimeRow
  <2>2. rt' \in [Runtimes -> RuntimeRow] /\ run' \in [Runtimes -> {"none", "tick", "select", "ended"}]
    BY <1>1, <1>2, <2>1 DEF IInv, RuntimeTypes
  <2>3. rt'[r].started /\ run'[r] = "tick"
    BY <1>1, <1>2 DEF IInv, RuntimeTypes, RuntimeRow
  <2>4. \A x \in Runtimes \ {r} : rt'[x] = rt[x] /\ run'[x] = run[x]
    BY <1>1 DEF IInv, RuntimeTypes
  <2>5. ASSUME NEW x \in Runtimes
        PROVE  /\ rt'[x].stopped => rt'[x].started
               /\ rt'[x].started <=> run'[x] # "none"
    <3>1. CASE x = r
      BY <2>3, <3>1
    <3>2. CASE x # r
      BY <2>4, <3>2 DEF IInv, RuntimeTypes
    <3> QED
      BY <3>1, <3>2
  <2> QED
    BY <2>2, <2>5 DEF RuntimeTypes
<1>5. CallTypes'
  BY <1>1, <1>2 DEF IInv, CallTypes, CallRow
<1>6. run[r] = "none"
  BY <1>1, <1>2 DEF IInv, RuntimeTypes
<1>7. \A x \in Runtimes : /\ run[x] = "ended" => run'[x] = "ended"
                          /\ Finished(x) => Finished(x)'
  BY <1>1, <1>2, <1>6 DEF IInv, RuntimeTypes, Finished
<1>8. WaitedFor(c)' /\ AccountsFor(c)'
  BY <1>1, <1>3, CallFields DEF WaitedFor, AccountsFor, Stopping, Stoppers
<1> QED
  BY <1>1, <1>3, <1>4, <1>5, <1>7, <1>8, CallerKeeps DEF Starters, Stoppers

LEMMA CleanUpKeeps ==
  ASSUME IInv, NEW c \in Callers, CleanUp(c)
  PROVE  IInv'
<1>1. /\ call[c].op = "start"
      /\ call' = [call EXCEPT ![c] = [call[c] EXCEPT !.op = "cleanup", !.left = call[c].begun]]
      /\ UNCHANGED <<group, rt, run, parent>>
  BY DEF CleanUp
<1>2. /\ call'[c].op = "cleanup" /\ call'[c].at = call[c].at
      /\ \A d \in Callers \ {c} : call'[d] = call[d]
  BY <1>1 DEF IInv, CallTypes, CallRow
<1>3. CallTypes'
  <2>1. [call[c] EXCEPT !.op = "cleanup", !.left = call[c].begun] \in CallRow
    BY CallFields DEF CallRow
  <2> QED
    BY <1>1, <2>1 DEF IInv, CallTypes
<1>4. RuntimeTypes'
  BY <1>1 DEF IInv, RuntimeTypes
<1>5. WaitedFor(c)' /\ AccountsFor(c)'
  BY <1>1, <1>2, CallFields DEF WaitedFor, AccountsFor, Stopping, Stoppers
<1> QED
  BY <1>1, <1>2, <1>3, <1>4, <1>5, CallerKeeps DEF Starters, Stoppers, Finished

LEMMA ReturnKeeps ==
  ASSUME IInv, NEW c \in Callers, Return(c)
  PROVE  IInv'
<1>1. /\ call[c].left = <<>>
      /\ call[c].op \in {"start", "cleanup", "stop"}
      /\ UNCHANGED <<group, rt, run, parent>>
  BY DEF Return
<1>2. PICK op \in {"started", "stopped"}, failed \in BOOLEAN :
        /\ op = "stopped" <=> call[c].op = "stop"
        /\ call[c].failed => failed
        /\ call' = [call EXCEPT ![c].op = op, ![c].failed = failed]
  BY CallFields DEF Return
<1>3. /\ call'[c].op = op /\ call'[c].failed = failed
      /\ call'[c].at = call[c].at /\ call'[c].left = call[c].left
      /\ \A d \in Callers \ {c} : call'[d] = call[d]
  BY <1>2 DEF IInv, CallTypes, CallRow
<1>4. CallTypes'
  <2>1. [call[c] EXCEPT !.op = op, !.failed = failed] \in CallRow
    BY CallFields DEF CallRow
  <2> QED
    BY <1>2, <2>1 DEF IInv, CallTypes
<1>5. RuntimeTypes'
  BY <1>1 DEF IInv, RuntimeTypes
<1>6. WaitedFor(c)'
  BY <1>1, <1>3, CallFields DEF WaitedFor, Stopping
<1>7. AccountsFor(c)'
  <2>1. call'[c].op = "stopped" => call'[c].left = <<>>
    BY <1>1, <1>3
  <2>2. ASSUME op = "stopped", ~failed, NEW r \in Runtimes, Contains(group.workers, r)
        PROVE  Finished(r)
    BY <1>1, <1>2, <2>2, CallFields, EmptyContainsNone DEF AccountsFor, Stoppers
  <2>3. \A r \in Runtimes : Finished(r)' <=> Finished(r)
    BY <1>1 DEF Finished
  <2> QED
    BY <1>1, <1>2, <1>3, <2>1, <2>2, <2>3 DEF AccountsFor, Stoppers
<1> QED
  BY <1>1, <1>2, <1>3, <1>4, <1>5, <1>6, <1>7, CallerKeeps DEF Starters, Stoppers, Finished

\* Runtime.Stop is over for the worker before the caller, with an error, or after
\* the worker has finished.
LEMMA DoneKeeps ==
  ASSUME IInv, NEW c \in Callers, Stopping(c), NEW failed \in BOOLEAN, Done(c, failed),
         UNCHANGED <<group, rt, run, parent>>,
         failed \/ Finished(Target(c))
  PROVE  IInv'
<1>1. PICK f \in BOOLEAN :
        /\ call[c].failed \/ failed <=> f
        /\ call' = [call EXCEPT ![c].left = Tail(@), ![c].at = "lock", ![c].failed = f]
  BY CallFields DEF Done
<1>2. /\ call'[c].op = call[c].op /\ call'[c].failed = f /\ call'[c].at = "lock"
      /\ call'[c].left = Tail(call[c].left)
      /\ \A d \in Callers \ {c} : call'[d] = call[d]
  BY <1>1 DEF IInv, CallTypes, CallRow
<1>3. CallTypes'
  <2>1. [call[c] EXCEPT !.left = Tail(@), !.at = "lock", !.failed = f] \in CallRow
    BY CallFields DEF CallRow
  <2> QED
    BY <1>1, <2>1 DEF IInv, CallTypes
<1>4. RuntimeTypes'
  BY DEF IInv, RuntimeTypes
<1>5. WaitedFor(c)'
  BY <1>2 DEF WaitedFor
<1>6. AccountsFor(c)'
  <2>1. call[c].op # "stopped" /\ call[c].op # "idle"
    BY DEF Stopping
  <2>2. ASSUME call[c].op \in Stoppers, ~f, NEW r \in Runtimes, Contains(group.workers, r)
        PROVE  Contains(call'[c].left, r) \/ Finished(r)
    BY <1>1, <1>2, <2>2, CallFields DEF AccountsFor
  <2>3. \A r \in Runtimes : Finished(r)' <=> Finished(r)
    BY DEF Finished
  <2> QED
    BY <1>2, <2>1, <2>2, <2>3 DEF AccountsFor
<1> QED
  BY <1>2, <1>3, <1>4, <1>5, <1>6, CallerKeeps DEF Stopping, Starters, Stoppers, Finished

\* A worker that is told to stop, or was before, is waited for; one that was never
\* started is an error.
LEMMA StopNextKeeps ==
  ASSUME IInv, NEW c \in Callers, StopNext(c)
  PROVE  IInv'
<1> DEFINE r == Target(c)
<1>1. Stopping(c) /\ r \in Runtimes
  BY CallFields DEF StopNext
<1>2. CASE ~rt[r].started
  <2>1. Done(c, TRUE) /\ UNCHANGED <<group, rt, run, parent>>
    BY <1>2 DEF StopNext
  <2> QED
    BY <1>1, <2>1, DoneKeeps
<1>3. CASE rt[r].started
  <2>1. /\ rt' = [rt EXCEPT ![r].stopped = TRUE]
        /\ call' = [call EXCEPT ![c].at = "wait"]
        /\ UNCHANGED <<group, run, parent>>
    BY <1>3 DEF StopNext
  <2>2. /\ call'[c].op = call[c].op /\ call'[c].failed = call[c].failed
        /\ call'[c].at = "wait" /\ call'[c].left = call[c].left
        /\ \A d \in Callers \ {c} : call'[d] = call[d]
    BY <2>1 DEF IInv, CallTypes, CallRow
  <2>3. RuntimeTypes' /\ \A x \in Runtimes : Finished(x)' <=> Finished(x)
    <3>1. /\ \A x \in Runtimes : rt[x] \in RuntimeRow
          /\ rt'[r] = [rt[r] EXCEPT !.stopped = TRUE]
          /\ \A x \in Runtimes \ {r} : rt'[x] = rt[x]
      BY <1>1, <2>1 DEF IInv, RuntimeTypes
    <3>2. ASSUME NEW x \in Runtimes
          PROVE  /\ rt'[x] \in RuntimeRow /\ rt'[x].started = rt[x].started
                 /\ rt'[x].err = rt[x].err /\ (rt'[x].stopped => rt[x].stopped \/ x = r)
      <4>1. CASE x = r
        BY <3>1, <4>1 DEF RuntimeRow
      <4>2. CASE x # r
        BY <3>1, <4>2
      <4> QED
        BY <4>1, <4>2
    <3>3. RuntimeTypes'
      BY <1>3, <2>1, <3>2 DEF IInv, RuntimeTypes
    <3> QED
      BY <2>1, <3>2, <3>3 DEF Finished
  <2>4. CallTypes'
    BY <2>1 DEF IInv, CallTypes, CallRow
  <2>5. WaitedFor(c)' /\ AccountsFor(c)'
    BY <1>1, <2>1, <2>2, <2>3, CallFields DEF WaitedFor, AccountsFor, Stopping
  <2> QED
    BY <1>1, <2>1, <2>2, <2>3, <2>4, <2>5, CallerKeeps DEF Stopping, Starters, Stoppers
<1> QED
  BY <1>2, <1>3

LEMMA WaitKeeps ==
  ASSUME IInv, NEW c \in Callers, Wait(c)
  PROVE  IInv'
<1>1. /\ Stopping(c) /\ run[Target(c)] = "ended"
      /\ call' = [call EXCEPT ![c].at = "finalizer"]
      /\ UNCHANGED <<group, rt, run, parent>>
  BY DEF Wait, Awaited
<1>2. /\ call'[c].op = call[c].op /\ call'[c].failed = call[c].failed
      /\ call'[c].at = "finalizer" /\ call'[c].left = call[c].left
      /\ \A d \in Callers \ {c} : call'[d] = call[d]
  BY <1>1 DEF IInv, CallTypes, CallRow
<1>3. RuntimeTypes' /\ \A x \in Runtimes : Finished(x)' <=> Finished(x)
  BY <1>1 DEF IInv, RuntimeTypes, Finished
<1>4. CallTypes'
  BY <1>1 DEF IInv, CallTypes, CallRow
<1>5. WaitedFor(c)' /\ AccountsFor(c)'
  BY <1>1, <1>2, <1>3, CallFields DEF WaitedFor, AccountsFor, Stopping, Target
<1> QED
  BY <1>1, <1>2, <1>3, <1>4, <1>5, CallerKeeps DEF Stopping, Starters, Stoppers

LEMMA ExpireKeeps ==
  ASSUME IInv, NEW c \in Callers, Expire(c)
  PROVE  IInv'
<1>1. /\ Stopping(c)
      /\ call' = [call EXCEPT ![c].expired = TRUE]
      /\ UNCHANGED <<group, rt, run, parent>>
  BY DEF Expire
<1>2. /\ call'[c].op = call[c].op /\ call'[c].failed = call[c].failed
      /\ call'[c].at = call[c].at /\ call'[c].left = call[c].left
      /\ \A d \in Callers \ {c} : call'[d] = call[d]
  BY <1>1 DEF IInv, CallTypes, CallRow
<1>3. RuntimeTypes' /\ \A x \in Runtimes : Finished(x)' <=> Finished(x)
  BY <1>1 DEF IInv, RuntimeTypes, Finished
<1>4. CallTypes'
  BY <1>1 DEF IInv, CallTypes, CallRow
<1>5. WaitedFor(c)' /\ AccountsFor(c)'
  BY <1>1, <1>2, <1>3, CallFields DEF WaitedFor, AccountsFor, Stopping, Target
<1> QED
  BY <1>1, <1>2, <1>3, <1>4, <1>5, CallerKeeps DEF Stopping, Starters, Stoppers

\* Only past the wait, when the worker has ended, are its errors read.
LEMMA FinalizeKeeps ==
  ASSUME IInv, NEW c \in Callers, Finalize(c)
  PROVE  IInv'
<1>1. Stopping(c) /\ run[Target(c)] = "ended" /\ Target(c) \in Runtimes
  BY CallFields DEF Finalize, WaitedFor
<1>2. PICK stopErr \in BOOLEAN : Done(c, stopErr \/ rt[Target(c)].err)
  BY DEF Finalize
<1>3. PICK failed \in BOOLEAN : failed <=> stopErr \/ rt[Target(c)].err
  OBVIOUS
<1>4. Done(c, failed)
  BY <1>2, <1>3 DEF Done
<1>5. failed \/ Finished(Target(c))
  BY <1>1, <1>3 DEF Finished
<1> QED
  BY <1>1, <1>4, <1>5, DoneKeeps DEF Finalize

LEMMA NextKeeps == IInv /\ [Next]_vars => IInv'
<1> SUFFICES ASSUME IInv, [Next]_vars PROVE IInv'
  OBVIOUS
<1>1. CASE CancelParent \/ UNCHANGED vars
  BY <1>1, StutterKeeps DEF CancelParent, vars, IInv, GroupTypes
<1>2. ASSUME NEW r \in Runtimes, Add(r) \/ TickReturns(r) \/ TickAgain(r) \/ End(r)
      PROVE  IInv'
  BY <1>2, AddKeeps, GoroutineKeeps
<1>3. ASSUME NEW c \in Callers, BeginStart(c) \/ StartNext(c) \/ CleanUp(c) \/ BeginStop(c)
      PROVE  IInv'
  BY <1>3, BeginStartKeeps, StartNextKeeps, CleanUpKeeps, BeginStopKeeps
<1>4. ASSUME NEW c \in Callers, Return(c) \/ StopNext(c) \/ Wait(c) \/ Expire(c) \/ Finalize(c)
      PROVE  IInv'
  BY <1>4, ReturnKeeps, StopNextKeeps, WaitKeeps, ExpireKeeps, FinalizeKeeps
<1>5. ASSUME NEW c \in Callers, GiveUp(c) PROVE IInv'
  BY <1>5, DoneKeeps DEF GiveUp
<1> QED
  BY <1>1, <1>2, <1>3, <1>4, <1>5 DEF Next

LEMMA Invariant == Spec => []IInv
BY InitInv, NextKeeps, PTL DEF Spec

-------------------------------------------------------------------------------
\* The types, and what goes with them: a runtime that was stopped was started
\* (Runtime.Stop, runtime.go), and one goroutine at a time starts or stops the group.
THEOREM TypeCorrect == Spec => []TypeOK
<1>1. IInv => TypeOK
  BY DEF IInv, GroupTypes, RuntimeTypes, CallTypes, OneOfEach, TypeOK, CallRow,
         Starters, Stoppers
<1> QED
  BY <1>1, Invariant, PTL

\* A Stop of the group that answers no error has found every worker ended, and its
\* ticks without an error, however often a runtime occurs in the group and whoever
\* starts, cleans up or cancels meanwhile (Group.Stop, Runtime.Stop).
THEOREM CleanStopsEndWorkers == Spec => []CleanStopMeansEnded
<1>1. IInv => CleanStopMeansEnded
  BY EmptyContainsNone DEF IInv, CallInv, AccountsFor, Finished, Stoppers, CleanStopMeansEnded
<1> QED
  BY <1>1, Invariant, PTL
===============================================================================
