-------------------------- MODULE AsyncMutexProofs --------------------------
(***************************************************************************)
(* Proofs about AsyncMutex for any contexts and any channels: the types,   *)
(* mutual exclusion, that a lock is never lost, and that it is handed over *)
(* in the order in which it was asked for.                                 *)
(*                                                                         *)
(* Exclusion of the bodies is not inductive: that a body entered on the    *)
(* memory of a lock is alone rests on the memory being true (Memory), and  *)
(* that a hand-over grants the lock to one context rests on the queue      *)
(* holding each waiting context once (Waiting).                            *)
(*                                                                         *)
(* Last, that nobody waits in a circle: the locks are taken in one order.  *)
(***************************************************************************)
EXTENDS AsyncMutex, SequenceTheorems, TLAPS

\* What a context remembers of the state mutex is true, unless it is a log line, which never asks.
Memory ==
  \A c \in Context :
    /\ ctx[c].nested <= ctx[c].calls
    /\ (ctx[c].kind = "call" /\ StateMutex \in ctx[c].holding) => StateMutex \in ctx[c].owns
    /\ ctx[c].nested > 0 => StateMutex \in ctx[c].owns
    /\ ctx[c].kind = "loose" => StateMutex \notin ctx[c].owns /\ ctx[c].wants # StateMutex
    /\ ctx[c].at = "ended" => ctx[c].owns = {} /\ ctx[c].nested = 0
    /\ ctx[c].at \in {"queued", "granted"} => ctx[c].wants \in Lock

Exclusion ==
  \A l \in Lock : \A c, d \in Context : Custody(c, l) /\ Custody(d, l) => c = d

\* A queue holds contexts that wait for its lock, each once.
Waiting ==
  \A l \in Lock : \A i \in 1 .. Len(queue[l]) :
    /\ ctx[queue[l][i]].at = "queued"
    /\ ctx[queue[l][i]].wants = l
    /\ \A j \in 1 .. Len(queue[l]) : queue[l][i] = queue[l][j] => i = j

IInv == TypeOK /\ Memory /\ Exclusion /\ Waiting /\ LockIsInUse

----------------------------------------------------------------------------
(* A step that changes no custody and no waiting context disturbs only the  *)
(* types and the memories.                                                  *)

LEMMA QuietStep ==
  ASSUME IInv, UNCHANGED <<locked, queue>>,
         \A c \in Context, l \in Lock : Custody(c, l)' <=> Custody(c, l),
         \A c \in Context : ctx[c].at = "queued" => ctx'[c] = ctx[c]
  PROVE  Exclusion' /\ Waiting' /\ LockIsInUse'
<1>1. Exclusion'
  BY DEF IInv, Exclusion
<1>2. Waiting'
  <2>1. \A l \in Lock : \A i \in 1 .. Len(queue[l]) : queue[l][i] \in Context
    BY DEF IInv, TypeOK
  <2> QED BY <2>1 DEF IInv, Waiting
<1>3. LockIsInUse'
  BY DEF IInv, LockIsInUse
<1> QED BY <1>1, <1>2, <1>3

\* The record of a context that has just started or ended owns nothing.
LEMMA FreshRecord ==
  ASSUME NEW kind \in {"call", "loose"}, NEW held \in SUBSET Lock
  PROVE  /\ Fresh(kind, held) \in ContextRecord
         /\ Ended \in ContextRecord
  BY MaxCallsAssumption DEF Fresh, Ended, Blank, ContextRecord

LEMMA StartPreserves ==
  ASSUME IInv, Start PROVE IInv'
<1> USE DEF IInv
<1>0. \A c \in Context : ctx[c] \in ContextRecord
  BY DEF TypeOK
<1>1. ASSUME NEW c \in Context, Arrive(c) PROVE IInv'
  <2>1. TypeOK'
    BY <1>1, FreshRecord DEF Arrive, TypeOK
  <2>2. Memory'
    BY <1>1, <1>0 DEF Arrive, Memory, TypeOK, Fresh, Blank
  <2>3. \A d \in Context, l \in Lock : Custody(d, l)' <=> Custody(d, l)
    BY <1>1, <1>0 DEF Arrive, Custody, TypeOK, Fresh, Blank, Memory
  <2> QED BY <1>1, <2>1, <2>2, <2>3, QuietStep DEF Arrive, TypeOK
<1>2. ASSUME NEW c \in Context, End(c) PROVE IInv'
  <2>1. TypeOK'
    BY <1>2, FreshRecord DEF End, TypeOK
  <2>2. Memory'
    BY <1>2, <1>0 DEF End, Memory, TypeOK, Fresh, Ended, Blank
  <2>3. \A d \in Context, l \in Lock : Custody(d, l)' <=> Custody(d, l)
    BY <1>2, <1>0 DEF End, Custody, TypeOK, Fresh, Ended, Blank
  <2> QED BY <1>2, <2>1, <2>2, <2>3, QuietStep DEF End, TypeOK
<1>3. ASSUME NEW c \in Context, NEW d \in Context, Detach(c, d) PROVE IInv'
  <2>0. ctx[c].holding \ {StateMutex} \in SUBSET Lock
    BY <1>0 DEF ContextRecord
  <2>1. TypeOK'
    BY <1>3, <2>0, FreshRecord DEF Detach, TypeOK
  <2>2. Memory'
    BY <1>3, <1>0 DEF Detach, Memory, TypeOK, Fresh, Blank
  <2>3. \A e \in Context, l \in Lock : Custody(e, l)' <=> Custody(e, l)
    BY <1>3, <1>0 DEF Detach, Custody, TypeOK, Fresh, Blank, Memory
  <2> QED BY <1>3, <2>1, <2>2, <2>3, QuietStep DEF Detach, TypeOK
<1>4. ASSUME NEW c \in Context, NEW d \in Context, FireAndForget(c, d) PROVE IInv'
  <2>0. ctx[c].holding \in SUBSET Lock
    BY <1>0 DEF ContextRecord
  <2>1. TypeOK'
    BY <1>4, <2>0, FreshRecord DEF FireAndForget, TypeOK
  <2>2. Memory'
    BY <1>4, <1>0, LocksAssumption DEF FireAndForget, Memory, TypeOK, Fresh, Blank, Lock
  <2>3. \A e \in Context, l \in Lock : Custody(e, l)' <=> Custody(e, l)
    BY <1>4, <1>0 DEF FireAndForget, Custody, TypeOK, Fresh, Blank, Memory
  <2> QED BY <1>4, <2>1, <2>2, <2>3, QuietStep DEF FireAndForget, TypeOK
<1> QED BY <1>1, <1>2, <1>3, <1>4 DEF Start

----------------------------------------------------------------------------
(* Bodies that return to, or start in, the same custody. *)

LEMMA BodyPreserves ==
  ASSUME IInv, NEW c \in Context,
         Enter(c) \/ LeaveNested(c) \/ \E l \in Lock : Reenter(c, l)
  PROVE  IInv'
<1> USE DEF IInv
<1>0. \A d \in Context : ctx[d] \in ContextRecord
  BY DEF TypeOK
<1>1. ASSUME Enter(c) PROVE IInv'
  <2>0. ctx[c].wants \in Lock
    BY <1>1 DEF Enter, Memory
  <2>1. TypeOK'
    <3>1. [ctx[c] EXCEPT !.at = "running", !.wants = NoLock, !.owns = @ \cup {ctx[c].wants},
                         !.holding = @ \cup {ctx[c].wants}] \in ContextRecord
      BY <1>0, <2>0 DEF ContextRecord
    <3> QED BY <1>1, <3>1 DEF Enter, TypeOK
  <2>2. Memory'
    BY <1>1, <1>0, <2>0, LocksAssumption DEF Enter, Memory, TypeOK, ContextRecord, Lock
  <2>3. \A d \in Context, l \in Lock : Custody(d, l)' <=> Custody(d, l)
    BY <1>1, <1>0, <2>0, LocksAssumption DEF Enter, Custody, TypeOK, ContextRecord, Lock
  <2> QED BY <1>1, <2>1, <2>2, <2>3, QuietStep DEF Enter, TypeOK
<1>2. ASSUME LeaveNested(c) PROVE IInv'
  <2>1. TypeOK'
    <3>1. [ctx[c] EXCEPT !.nested = @ - 1] \in ContextRecord
      BY <1>2, <1>0, MaxCallsAssumption DEF LeaveNested, ContextRecord
    <3> QED BY <1>2, <3>1 DEF LeaveNested, TypeOK
  <2>2. Memory'
    BY <1>2, <1>0, MaxCallsAssumption DEF LeaveNested, Memory, TypeOK, ContextRecord
  <2>3. \A d \in Context, l \in Lock : Custody(d, l)' <=> Custody(d, l)
    BY <1>2, <1>0 DEF LeaveNested, Custody, TypeOK, ContextRecord
  <2> QED BY <1>2, <2>1, <2>2, <2>3, QuietStep DEF LeaveNested, TypeOK
<1>3. ASSUME NEW l \in Lock, Reenter(c, l) PROVE IInv'
  <2>0. /\ ctx[c].kind = "call"
        /\ l = StateMutex /\ StateMutex \in ctx[c].owns
        /\ ctx[c].calls + 1 \in 0 .. MaxCalls /\ ctx[c].nested + 1 \in 0 .. MaxCalls
    BY <1>3, <1>0, LocksAssumption, MaxCallsAssumption DEF Reenter, MayCall, Memory, ContextRecord, Lock
  <2>1. TypeOK'
    <3>1. [ctx[c] EXCEPT !.nested = @ + 1, !.calls = @ + 1] \in ContextRecord
      BY <1>0, <2>0 DEF ContextRecord
    <3> QED BY <1>3, <3>1 DEF Reenter, TypeOK
  <2>2. Memory'
    BY <1>3, <1>0, <2>0, MaxCallsAssumption DEF Reenter, MayCall, Memory, TypeOK, ContextRecord
  <2>3. \A d \in Context, k \in Lock : Custody(d, k)' <=> Custody(d, k)
    BY <1>3, <1>0 DEF Reenter, Custody, TypeOK, ContextRecord
  <2> QED BY <1>3, <2>1, <2>2, <2>3, QuietStep DEF Reenter, MayCall, TypeOK
<1> QED BY <1>1, <1>2, <1>3

----------------------------------------------------------------------------
(* acquire(). *)

LEMMA AcquirePreserves ==
  ASSUME IInv, NEW c \in Context, NEW l \in Lock, Acquire(c, l)
  PROVE  IInv'
<1> USE DEF IInv
<1>0. \A d \in Context : ctx[d] \in ContextRecord
  BY DEF TypeOK
<1>1. /\ ctx[c].at = "running" /\ ctx[c].calls + 1 \in 0 .. MaxCalls
      /\ ctx' = [ctx EXCEPT ![c] = [ctx[c] EXCEPT !.at = IF locked[l] THEN "queued" ELSE "granted",
                                             !.wants = l, !.calls = @ + 1]]
      /\ locked' = [locked EXCEPT ![l] = TRUE]
      /\ queue' = [queue EXCEPT ![l] = IF locked[l] THEN Append(@, c) ELSE @]
  BY <1>0, MaxCallsAssumption DEF Acquire, MayCall, ContextRecord
<1>2. TypeOK'
  <2>1. ctx' \in [Context -> ContextRecord]
    <3>1. [ctx[c] EXCEPT !.at = IF locked[l] THEN "queued" ELSE "granted",
                         !.wants = l, !.calls = @ + 1] \in ContextRecord
      BY <1>0, <1>1 DEF ContextRecord
    <3> QED BY <1>1, <3>1 DEF TypeOK
  <2>2. queue' \in [Lock -> Seq(Context)] /\ locked' \in [Lock -> BOOLEAN]
    BY <1>1 DEF TypeOK
  <2> QED BY <2>1, <2>2 DEF TypeOK
<1>3. Memory'
  <2>1. ctx[c].kind = "loose" => l # StateMutex
    BY LocksAssumption DEF Acquire, MayCall
  <2> QED BY <1>0, <1>1, <2>1 DEF Memory, TypeOK, ContextRecord
<1>4. \A d \in Context \ {c} : ctx'[d] = ctx[d]
  BY <1>1 DEF TypeOK
<1>5. /\ ctx'[c].owns = ctx[c].owns /\ ctx'[c].wants = l
      /\ ctx'[c].at = IF locked[l] THEN "queued" ELSE "granted"
  BY <1>0, <1>1 DEF TypeOK, ContextRecord
<1>6. \A k \in Lock : \A i \in 1 .. Len(queue[k]) : queue[k][i] \in Context \ {c}
  BY <1>1 DEF TypeOK, Waiting
<1>7. CASE locked[l]
  <2>1. \A d \in Context, k \in Lock : Custody(d, k)' <=> Custody(d, k)
    <3>1. \A k \in Lock : Custody(c, k)' <=> Custody(c, k)
      <4>1. ctx[c].at # "granted" /\ ctx'[c].at # "granted"
        BY <1>1, <1>5, <1>7
      <4> QED BY <4>1, <1>5 DEF Custody
    <3>2. \A d \in Context \ {c}, k \in Lock : Custody(d, k)' <=> Custody(d, k)
      BY <1>4 DEF Custody
    <3> QED BY <3>1, <3>2
  <2>2. locked' = locked
    BY <1>1, <1>7 DEF TypeOK
  <2>3. Exclusion' /\ LockIsInUse'
    <3>1. \A k \in Lock : queue'[k] # <<>> => locked[k]
      BY <1>1, <1>7 DEF LockIsInUse, TypeOK
    <3> QED BY <2>1, <2>2, <3>1 DEF Exclusion, LockIsInUse
  <2>4. Waiting'
    <3>1. \A k \in Lock \ {l} : queue'[k] = queue[k]
      BY <1>1 DEF TypeOK
    <3>2. /\ Len(queue'[l]) = Len(queue[l]) + 1 /\ Len(queue[l]) \in Nat
          /\ \A i \in 1 .. Len(queue[l]) : queue'[l][i] = queue[l][i]
          /\ queue'[l][Len(queue[l]) + 1] = c
      BY <1>1, <1>7 DEF TypeOK
    <3>3. ASSUME NEW k \in Lock, k # l, NEW i \in 1 .. Len(queue'[k])
          PROVE  /\ ctx'[queue'[k][i]].at = "queued" /\ ctx'[queue'[k][i]].wants = k
                 /\ \A j \in 1 .. Len(queue'[k]) : queue'[k][i] = queue'[k][j] => i = j
      BY <3>1, <3>3, <1>4, <1>6 DEF Waiting
    <3>4. ASSUME NEW i \in 1 .. Len(queue'[l])
          PROVE  /\ ctx'[queue'[l][i]].at = "queued" /\ ctx'[queue'[l][i]].wants = l
                 /\ \A j \in 1 .. Len(queue'[l]) : queue'[l][i] = queue'[l][j] => i = j
      <4>1. CASE i = Len(queue[l]) + 1
        BY <4>1, <3>2, <1>5, <1>6, <1>7
      <4>2. CASE i \in 1 .. Len(queue[l])
        BY <4>2, <3>2, <1>4, <1>6 DEF Waiting
      <4> QED BY <3>2, <4>1, <4>2
    <3> QED BY <3>3, <3>4 DEF Waiting
  <2> QED BY <1>2, <1>3, <2>3, <2>4
<1>8. CASE ~locked[l]
  <2>1. queue' = queue
    BY <1>1, <1>8 DEF TypeOK
  <2>2. \A d \in Context : ~Custody(d, l)
    BY <1>8 DEF LockIsInUse
  <2>3. \A d \in Context, k \in Lock : Custody(d, k)' <=> Custody(d, k) \/ (d = c /\ k = l)
    BY <1>1, <1>4, <1>5, <1>8 DEF Custody
  <2>4. Exclusion'
    BY <2>2, <2>3 DEF Exclusion
  <2>5. Waiting'
    BY <2>1, <1>4, <1>6 DEF Waiting
  <2>6. LockIsInUse'
    <3>1. \A k \in Lock : locked'[k] <=> locked[k] \/ k = l
      BY <1>1 DEF TypeOK
    <3> QED BY <2>1, <2>3, <3>1 DEF LockIsInUse
  <2> QED BY <1>2, <1>3, <2>4, <2>5, <2>6
<1> QED BY <1>7, <1>8

----------------------------------------------------------------------------
(* release(). *)

\* What is left in c's hands after its innermost body of l returns.
LEMMA ReleasedRecord ==
  ASSUME IInv, NEW c \in Context, NEW l \in Lock, Innermost(c, l)
  PROVE  /\ Released(c, l) \in ContextRecord
         /\ Released(c, l).at = "running" /\ Released(c, l).kind = ctx[c].kind
         /\ Released(c, l).wants = ctx[c].wants
         /\ Released(c, l).owns = ctx[c].owns \ {l}
         /\ Released(c, l).holding = ctx[c].holding \ {l}
         /\ Released(c, l).nested = ctx[c].nested /\ Released(c, l).calls = ctx[c].calls
<1>1. ctx[c] \in ContextRecord
  BY DEF IInv, TypeOK
<1> QED BY <1>1 DEF Released, ContextRecord, Innermost

LEMMA OpenPreserves ==
  ASSUME IInv, NEW c \in Context, NEW l \in Lock, Leave(c, l), queue[l] = <<>>
  PROVE  IInv'
<1> USE DEF IInv
<1>0. \A d \in Context : ctx[d] \in ContextRecord
  BY DEF TypeOK
<1>1. /\ Innermost(c, l) /\ queue' = queue
      /\ locked' = [locked EXCEPT ![l] = FALSE]
      /\ ctx' = [ctx EXCEPT ![c] = Released(c, l)]
  BY DEF Leave
<1>2. TypeOK'
  BY <1>1, ReleasedRecord DEF TypeOK
<1>3. ctx'[c] = Released(c, l) /\ \A d \in Context \ {c} : ctx'[d] = ctx[d]
  BY <1>1 DEF TypeOK
<1>4. Memory'
  <2>1. ctx[c].at = "running" /\ (l = StateMutex => ctx[c].nested = 0)
    BY <1>1 DEF Innermost
  <2> QED BY <1>0, <1>1, <1>3, <2>1, ReleasedRecord DEF Memory
<1>5. \A d \in Context, k \in Lock : Custody(d, k)' <=> Custody(d, k) /\ ~(d = c /\ k = l)
  <2>1. ctx[c].at = "running"
    BY <1>1 DEF Innermost
  <2> QED BY <1>1, <1>3, <2>1, ReleasedRecord DEF Custody
<1>6. Custody(c, l)
  BY <1>1 DEF Innermost, Custody
<1>7. Exclusion'
  BY <1>5 DEF Exclusion
<1>8. Waiting'
  <2>1. \A k \in Lock : \A i \in 1 .. Len(queue[k]) : queue[k][i] \in Context \ {c}
    <3>1. \A k \in Lock : \A i \in 1 .. Len(queue[k]) : queue[k][i] \in Context
      BY DEF TypeOK
    <3>2. ctx[c].at # "queued"
      BY <1>1 DEF Innermost
    <3> QED BY <3>1, <3>2 DEF Waiting
  <2> QED BY <1>1, <1>3, <2>1 DEF Waiting
<1>9. LockIsInUse'
  <2>1. \A k \in Lock : locked'[k] <=> locked[k] /\ k # l
    BY <1>1 DEF TypeOK
  <2>2. \A d \in Context : ~Custody(d, l)'
    BY <1>5, <1>6 DEF Exclusion
  <2>3. \A k \in Lock \ {l} : (\E d \in Context : Custody(d, k)') <=> \E d \in Context : Custody(d, k)
    BY <1>5
  <2> QED BY <1>1, <2>1, <2>2, <2>3 DEF LockIsInUse
<1> QED BY <1>2, <1>4, <1>7, <1>8, <1>9

LEMMA HandOverPreserves ==
  ASSUME IInv, NEW c \in Context, NEW l \in Lock, Leave(c, l), queue[l] # <<>>
  PROVE  IInv'
<1> USE DEF IInv
<1> PICK h \in Context : h = Head(queue[l])
  BY DEF TypeOK
<1>0. \A d \in Context : ctx[d] \in ContextRecord
  BY DEF TypeOK
<1>1. /\ Innermost(c, l) /\ locked' = locked
      /\ queue' = [queue EXCEPT ![l] = Tail(queue[l])]
      /\ ctx' = [ctx EXCEPT ![c] = Released(c, l), ![h].at = "granted"]
  BY DEF Leave
<1>r. /\ Released(c, l) \in ContextRecord
      /\ Released(c, l).at = "running" /\ Released(c, l).kind = ctx[c].kind
      /\ Released(c, l).wants = ctx[c].wants
      /\ Released(c, l).owns = ctx[c].owns \ {l}
      /\ Released(c, l).holding = ctx[c].holding \ {l}
      /\ Released(c, l).nested = ctx[c].nested /\ Released(c, l).calls = ctx[c].calls
  BY <1>1, ReleasedRecord
<1>2. /\ h \in Context /\ h = queue[l][1] /\ 1 \in 1 .. Len(queue[l])
      /\ Tail(queue[l]) \in Seq(Context)
      /\ Len(Tail(queue[l])) = Len(queue[l]) - 1
      /\ \A i \in 1 .. Len(Tail(queue[l])) :
           i + 1 \in 1 .. Len(queue[l]) /\ Tail(queue[l])[i] = queue[l][i + 1]
  BY DEF TypeOK
<1>3. ctx[h].at = "queued" /\ ctx[h].wants = l /\ ctx[c].at = "running" /\ h # c
  BY <1>1, <1>2 DEF Waiting, Innermost
<1>4. /\ ctx'[c] = Released(c, l)
      /\ ctx'[h] = [ctx[h] EXCEPT !.at = "granted"]
      /\ \A d \in Context \ {c, h} : ctx'[d] = ctx[d]
  BY <1>1, <1>2, <1>3 DEF TypeOK
<1>5. /\ ctx'[h] \in ContextRecord
      /\ ctx'[h].at = "granted" /\ ctx'[h].wants = l
      /\ ctx'[h].kind = ctx[h].kind /\ ctx'[h].owns = ctx[h].owns
      /\ ctx'[h].holding = ctx[h].holding /\ ctx'[h].nested = ctx[h].nested
      /\ ctx'[h].calls = ctx[h].calls
  BY <1>0, <1>2, <1>3, <1>4 DEF ContextRecord
<1>6. TypeOK'
  <2>1. ctx' \in [Context -> ContextRecord]
    <3>1. DOMAIN ctx' = Context /\ ctx' = [d \in Context |-> ctx'[d]]
      BY <1>1 DEF TypeOK
    <3>2. \A d \in Context : ctx'[d] \in ContextRecord
      BY <1>0, <1>4, <1>5, <1>r
    <3> QED BY <3>1, <3>2
  <2>2. queue' \in [Lock -> Seq(Context)]
    BY <1>1, <1>2 DEF TypeOK
  <2> QED BY <1>1, <2>1, <2>2 DEF TypeOK
<1>7. Memory'
  <2>1. l = StateMutex => ctx[c].nested = 0
    BY <1>1 DEF Innermost
  <2>2. ASSUME NEW d \in Context
        PROVE  /\ ctx'[d].nested <= ctx'[d].calls
               /\ (ctx'[d].kind = "call" /\ StateMutex \in ctx'[d].holding) => StateMutex \in ctx'[d].owns
               /\ ctx'[d].nested > 0 => StateMutex \in ctx'[d].owns
               /\ ctx'[d].kind = "loose" => StateMutex \notin ctx'[d].owns /\ ctx'[d].wants # StateMutex
               /\ ctx'[d].at = "ended" => ctx'[d].owns = {} /\ ctx'[d].nested = 0
               /\ ctx'[d].at \in {"queued", "granted"} => ctx'[d].wants \in Lock
    <3>1. CASE d = c
      BY <3>1, <1>0, <1>1, <1>3, <1>4, <2>1, <1>r DEF Memory
    <3>2. CASE d = h
      BY <3>2, <1>2, <1>3, <1>5 DEF Memory
    <3>3. CASE d \notin {c, h}
      BY <3>3, <1>4 DEF Memory
    <3> QED BY <3>1, <3>2, <3>3
  <2> QED BY <2>2 DEF Memory
<1>8. \A d \in Context, k \in Lock :
        Custody(d, k)' <=> (Custody(d, k) /\ ~(d = c /\ k = l)) \/ (d = h /\ k = l)
  <2>1. ASSUME NEW k \in Lock
        PROVE  Custody(c, k)' <=> Custody(c, k) /\ k # l
    BY <1>3, <1>4, <1>r DEF Custody
  <2>2. ASSUME NEW k \in Lock
        PROVE  Custody(h, k)' <=> Custody(h, k) \/ k = l
    BY <1>3, <1>5 DEF Custody
  <2>3. ASSUME NEW d \in Context \ {c, h}, NEW k \in Lock
        PROVE  Custody(d, k)' <=> Custody(d, k)
    BY <1>4 DEF Custody
  <2> QED BY <1>3, <2>1, <2>2, <2>3
<1>9. Custody(c, l)
  BY <1>1 DEF Innermost, Custody
<1>10. Exclusion'
  BY <1>8, <1>9 DEF Exclusion
<1>11. LockIsInUse'
  <2>1. \A k \in Lock : (\E d \in Context : Custody(d, k)') <=> \E d \in Context : Custody(d, k)
    BY <1>2, <1>8, <1>9
  <2>2. \A k \in Lock : queue'[k] # <<>> => queue[k] # <<>>
    BY <1>1 DEF TypeOK
  <2> QED BY <1>1, <2>1, <2>2 DEF LockIsInUse
<1>12. Waiting'
  <2>1. ASSUME NEW k \in Lock, NEW i \in 1 .. Len(queue'[k])
        PROVE  /\ ctx'[queue'[k][i]].at = "queued" /\ ctx'[queue'[k][i]].wants = k
               /\ \A j \in 1 .. Len(queue'[k]) : queue'[k][i] = queue'[k][j] => i = j
    <3>1. CASE k = l
      <4>1. queue'[l] = Tail(queue[l])
        BY <1>1 DEF TypeOK
      <4>2. queue[l][i + 1] \in Context \ {c, h}
        <5>1. i + 1 \in 1 .. Len(queue[l]) /\ i + 1 # 1
          BY <1>2, <3>1, <4>1
        <5>2. queue[l][i + 1] # h
          BY <1>2, <5>1 DEF Waiting
        <5> QED BY <1>3, <5>1, <5>2 DEF Waiting, TypeOK
      <4>3. \A j \in 1 .. Len(queue'[l]) : queue'[l][i] = queue'[l][j] => i + 1 = j + 1
        BY <1>2, <3>1, <4>1 DEF Waiting
      <4> QED BY <1>2, <1>4, <3>1, <4>1, <4>2, <4>3 DEF Waiting
    <3>2. CASE k # l
      <4>1. queue'[k] = queue[k]
        BY <1>1, <3>2 DEF TypeOK
      <4>2. queue[k][i] \in Context \ {c, h}
        BY <1>3, <3>2, <4>1 DEF Waiting, TypeOK
      <4> QED BY <1>4, <4>1, <4>2 DEF Waiting
    <3> QED BY <3>1, <3>2
  <2> QED BY <2>1 DEF Waiting
<1> QED BY <1>6, <1>7, <1>10, <1>11, <1>12

----------------------------------------------------------------------------
(* The theorems. *)

LEMMA InitIsSafe == Init => IInv
<1> SUFFICES ASSUME Init PROVE IInv
  OBVIOUS
<1>1. TypeOK
  BY FreshRecord DEF Init, TypeOK
<1>2. Memory /\ Exclusion /\ Waiting /\ LockIsInUse
  BY MaxCallsAssumption DEF Init, Memory, Exclusion, Waiting, LockIsInUse, Custody, Ended, Blank
<1> QED BY <1>1, <1>2 DEF IInv

LEMMA StepIsSafe == IInv /\ [Next]_vars => IInv'
<1> SUFFICES ASSUME IInv, [Next]_vars PROVE IInv'
  OBVIOUS
<1>1. CASE Start
  BY <1>1, StartPreserves
<1>2. ASSUME NEW c \in Context, NEW l \in Lock, Reenter(c, l) PROVE IInv'
  BY <1>2, BodyPreserves
<1>3. ASSUME NEW c \in Context, NEW l \in Lock, Acquire(c, l) PROVE IInv'
  BY <1>3, AcquirePreserves
<1>4. ASSUME NEW c \in Context, NEW l \in Lock, Leave(c, l) PROVE IInv'
  BY <1>4, OpenPreserves, HandOverPreserves
<1>5. ASSUME NEW c \in Context, Enter(c) \/ LeaveNested(c) PROVE IInv'
  BY <1>5, BodyPreserves
<1>6. CASE UNCHANGED vars
  <2>1. \A c \in Context, l \in Lock : Custody(c, l)' <=> Custody(c, l)
    BY <1>6 DEF vars, Custody
  <2>2. TypeOK' /\ Memory'
    BY <1>6 DEF vars, IInv, TypeOK, Memory
  <2> QED BY <1>6, <2>1, <2>2, QuietStep DEF vars, IInv
<1> QED BY <1>1, <1>2, <1>3, <1>4, <1>5, <1>6 DEF Next, Exclusive

LEMMA Inductive == Spec => []IInv
  BY InitIsSafe, StepIsSafe, PTL DEF Spec

\* The mutexes and the contexts keep their types.
THEOREM MutexTypeCorrect == Spec => []TypeOK
<1>1. IInv => TypeOK
  BY DEF IInv
<1> QED BY <1>1, Inductive, PTL

\* Whatever timers, detached promises and log lines remember of a lock, no two contexts are inside
\* bodies that the same mutex protects.
THEOREM BodiesExclude == Spec => []MutualExclusion
<1>1. IInv => MutualExclusion
  BY DEF IInv, Memory, Exclusion, Custody, InBody, MutualExclusion
<1> QED BY <1>1, Inductive, PTL

\* A mutex is locked exactly while one context has it in hand, and no queue waits for an open one.
THEOREM LockIsNeverLost == Spec => []LockIsInUse
<1>1. IInv => LockIsInUse
  BY DEF IInv
<1> QED BY <1>1, Inductive, PTL

----------------------------------------------------------------------------
(* Who comes into the possession of a lock, and how.                        *)

LEMMA NobodyGains ==
  ASSUME IInv, NEW c \in Context, NEW l \in Lock,
         Start \/ \E d \in Context : Enter(d) \/ LeaveNested(d) \/ \E k \in Lock : Reenter(d, k),
         Custody(c, l)'
  PROVE  Custody(c, l)
<1>0. \A d \in Context : ctx[d] \in ContextRecord
  BY DEF IInv, TypeOK
<1>1. ASSUME NEW d \in Context, NEW kind, NEW at \in {"running", "ended"}, NEW held,
             ctx' = [ctx EXCEPT ![d] = Blank(kind, at, held)]
      PROVE  Custody(c, l)
  BY <1>1 DEF IInv, TypeOK, Custody, Blank
<1>2. CASE Start
  <2>1. ASSUME NEW d \in Context, Arrive(d) \/ End(d) PROVE Custody(c, l)
    BY <1>1, <2>1 DEF Arrive, End, Fresh, Ended
  <2>2. ASSUME NEW b \in Context, NEW d \in Context, Detach(b, d) PROVE Custody(c, l)
    BY <1>1, <2>2 DEF Detach, Fresh
  <2>3. ASSUME NEW b \in Context, NEW d \in Context, FireAndForget(b, d) PROVE Custody(c, l)
    BY <1>1, <2>3 DEF FireAndForget, Fresh
  <2> QED BY <1>2, <2>1, <2>2, <2>3 DEF Start
<1>3. ASSUME NEW d \in Context, Enter(d)
      PROVE  Custody(c, l)
  <2>1. \A e \in Context \ {d} : ctx'[e] = ctx[e]
    BY <1>3 DEF Enter, IInv, TypeOK
  <2>2. ctx[d].at = "granted" /\ ctx'[d].at = "running" /\ ctx'[d].owns = ctx[d].owns \cup {ctx[d].wants}
    BY <1>0, <1>3 DEF Enter, IInv, TypeOK, ContextRecord
  <2> QED BY <2>1, <2>2 DEF Custody
<1>4. ASSUME NEW d \in Context, LeaveNested(d)
      PROVE  Custody(c, l)
  <2>1. \A e \in Context \ {d} : ctx'[e] = ctx[e]
    BY <1>4 DEF LeaveNested, IInv, TypeOK
  <2>2. ctx'[d].owns = ctx[d].owns /\ ctx'[d].at = ctx[d].at /\ ctx'[d].wants = ctx[d].wants
    BY <1>0, <1>4 DEF LeaveNested, IInv, TypeOK, ContextRecord
  <2> QED BY <2>1, <2>2 DEF Custody
<1>5. ASSUME NEW d \in Context, NEW k \in Lock, Reenter(d, k)
      PROVE  Custody(c, l)
  <2>1. \A e \in Context \ {d} : ctx'[e] = ctx[e]
    BY <1>5 DEF Reenter, IInv, TypeOK
  <2>2. ctx'[d].owns = ctx[d].owns /\ ctx'[d].at = ctx[d].at /\ ctx'[d].wants = ctx[d].wants
    BY <1>0, <1>5 DEF Reenter, IInv, TypeOK, ContextRecord
  <2> QED BY <2>1, <2>2 DEF Custody
<1> QED BY <1>2, <1>3, <1>4, <1>5

\* Acquire(d, k) gives k to d, if anything to anyone, and then nobody was waiting for it.
LEMMA AcquireGains ==
  ASSUME IInv, NEW c \in Context, NEW l \in Lock, NEW d \in Context, NEW k \in Lock, Acquire(d, k),
         ~Custody(c, l), Custody(c, l)'
  PROVE  queue[l] = <<>>
<1>0. ctx[d] \in ContextRecord /\ ctx[d].at = "running"
  BY DEF IInv, TypeOK, Acquire, MayCall
<1>1. /\ \A e \in Context \ {d} : ctx'[e] = ctx[e]
      /\ ctx'[d].owns = ctx[d].owns /\ ctx'[d].wants = k
      /\ ctx'[d].at = IF locked[k] THEN "queued" ELSE "granted"
  BY <1>0 DEF Acquire, IInv, TypeOK, ContextRecord
<1>2. c = d
  BY <1>1 DEF Custody
<1>3. l = k /\ ~locked[k]
  BY <1>0, <1>1, <1>2 DEF Custody
<1> QED BY <1>3 DEF IInv, LockIsInUse

\* Leave(d, k) gives k to the head of its queue, if anything to anyone.
LEMMA LeaveGains ==
  ASSUME IInv, NEW c \in Context, NEW l \in Lock, NEW d \in Context, NEW k \in Lock, Leave(d, k),
         ~Custody(c, l), Custody(c, l)', queue[l] # <<>>
  PROVE  c = Head(queue[l])
<1>1. Innermost(d, k) /\ ctx[d].at = "running"
  BY DEF Leave, Innermost
<1>2. Released(d, k).owns = ctx[d].owns \ {k} /\ Released(d, k).at = "running"
  BY <1>1, ReleasedRecord
<1>3. CASE queue[k] = <<>>
  <2>1. ctx'[d] = Released(d, k) /\ \A e \in Context \ {d} : ctx'[e] = ctx[e]
    BY <1>3 DEF Leave, IInv, TypeOK
  <2> QED BY <1>2, <2>1 DEF Custody
<1>4. CASE queue[k] # <<>>
  <2> DEFINE h == Head(queue[k])
  <2>1. h \in Context /\ h = queue[k][1] /\ 1 \in 1 .. Len(queue[k])
    BY <1>4 DEF IInv, TypeOK
  <2>2. ctx[h].at = "queued" /\ ctx[h].wants = k /\ h # d /\ ctx[h] \in ContextRecord
    BY <1>1, <2>1 DEF IInv, Waiting, TypeOK
  <2>3. ctx' = [ctx EXCEPT ![d] = Released(d, k), ![h].at = "granted"]
    BY <1>4 DEF Leave
  <2>4. /\ ctx'[d] = Released(d, k)
        /\ ctx'[h].owns = ctx[h].owns /\ ctx'[h].wants = k
        /\ \A e \in Context \ {d, h} : ctx'[e] = ctx[e]
    BY <2>1, <2>2, <2>3 DEF IInv, TypeOK, ContextRecord
  <2>5. c = h
    BY <1>2, <2>4 DEF Custody
  <2>6. l = k
    BY <2>4, <2>5 DEF Custody
  <2> QED BY <2>5, <2>6
<1> QED BY <1>3, <1>4

\* First come, first served, for any contexts and locks: a lock that others wait for goes to the one
\* who has waited longest, and to nobody who has just asked for it.
THEOREM FirstComeFirstServed == Spec => NoOvertaking
<1>1. IInv /\ [Next]_vars =>
        [\A l \in Lock : \A c \in Context :
           ~Custody(c, l) /\ Custody(c, l)' /\ queue[l] # <<>> => c = Head(queue[l])]_vars
  <2> SUFFICES ASSUME IInv, Next, NEW l \in Lock, NEW c \in Context,
                      ~Custody(c, l), Custody(c, l)', queue[l] # <<>>
               PROVE  c = Head(queue[l])
    OBVIOUS
  <2>1. \E d \in Context, k \in Lock : Acquire(d, k) \/ Leave(d, k)
    BY NobodyGains DEF Next, Exclusive
  <2> QED BY <2>1, AcquireGains, LeaveGains
<1> QED BY <1>1, Inductive, PTL DEF Spec, NoOvertaking
----------------------------------------------------------------------------
(***************************************************************************)
(* Nobody waits in a circle.  A context that waits for a channel's mutex   *)
(* may own the state mutex, but the owner of a leaf waits for nothing, so  *)
(* a chain of waiting contexts has at most two links.                      *)
(***************************************************************************)

\* The body of a leaf waits for no lock, and nobody waits for a lock that is its own.
Orderly ==
  \A c \in Context :
    /\ ctx[c].at # "running" => ~InLeaf(c)
    /\ ctx[c].owns \subseteq ctx[c].holding
    /\ ctx[c].at = "queued" => ctx[c].wants \notin ctx[c].owns

\* Who waits for a lock is in its queue.
Listed ==
  \A c \in Context : ctx[c].at = "queued" =>
    \E i \in 1 .. Len(queue[ctx[c].wants]) : queue[ctx[c].wants][i] = c

LEMMA NewOwnsNothing ==
  /\ Ended.at = "ended" /\ Ended.owns = {}
  /\ \A kind, held : Fresh(kind, held).at = "running" /\ Fresh(kind, held).owns = {}
BY DEF Fresh, Ended, Blank

LEMMA OrderlyStep == IInv /\ Orderly /\ [Next]_vars => Orderly'
<1> SUFFICES ASSUME IInv, Orderly, [Next]_vars, NEW e \in Context
             PROVE  /\ ctx'[e].at # "running" => ctx'[e].owns \cap Leaf = {}
                    /\ ctx'[e].owns \subseteq ctx'[e].holding
                    /\ ctx'[e].at = "queued" => ctx'[e].wants \notin ctx'[e].owns
  BY DEF Orderly, InLeaf
<1>0. /\ \A d \in Context : ctx[d] \in ContextRecord
      /\ ctx \in [Context -> ContextRecord]
      /\ ctx[e].at # "running" => ctx[e].owns \cap Leaf = {}
      /\ ctx[e].owns \subseteq ctx[e].holding
      /\ ctx[e].at = "queued" => ctx[e].wants \notin ctx[e].owns
  BY DEF IInv, TypeOK, Orderly, InLeaf
<1>1. CASE ctx'[e] = ctx[e]
  BY <1>0, <1>1
<1>2. CASE Start
  <2> SUFFICES ASSUME ctx'[e] # ctx[e]
               PROVE  /\ ctx'[e].at # "running" => ctx'[e].owns = {}
                      /\ ctx'[e].owns = {} /\ ctx'[e].at # "queued"
    BY <1>1
  <2>1. ASSUME NEW c \in Context, Arrive(c) \/ End(c)
        PROVE  ctx'[e] \in {Ended, Fresh("call", {})}
    BY <1>0, <2>1 DEF Arrive, End
  <2>2. ASSUME NEW c \in Context, NEW d \in Context, Detach(c, d) \/ FireAndForget(c, d)
        PROVE  \/ ctx'[e] = Fresh("call", ctx[c].holding \ {StateMutex})
               \/ ctx'[e] = Fresh("loose", ctx[c].holding)
    BY <1>0, <2>2 DEF Detach, FireAndForget
  <2>3. Start => ctx'[e] = Ended \/ \E kind, held : ctx'[e] = Fresh(kind, held)
    BY <2>1, <2>2 DEF Start
  <2> QED BY <1>2, <2>3, NewOwnsNothing
<1>3. ASSUME NEW c \in Context, Enter(c) \/ LeaveNested(c), ctx'[e] # ctx[e]
      PROVE  /\ ctx'[e].at = "running"
             /\ ctx'[e].owns \subseteq ctx'[e].holding
  <2>1. e = c
    BY <1>0, <1>3 DEF Enter, LeaveNested
  <2>2. CASE Enter(c)
    <3>1. ctx'[e] = [ctx[e] EXCEPT !.at = "running", !.wants = NoLock, !.owns = @ \cup {ctx[e].wants},
                                   !.holding = @ \cup {ctx[e].wants}]
      BY <1>0, <2>1, <2>2 DEF Enter
    <3>2. ctx[e] \in ContextRecord
      BY <1>0
    <3> QED BY <1>0, <3>1, <3>2 DEF ContextRecord
  <2>3. CASE LeaveNested(c)
    <3>1. ctx'[e] = [ctx[e] EXCEPT !.nested = @ - 1] /\ ctx[e].at = "running"
      BY <1>0, <2>1, <2>3 DEF LeaveNested
    <3>2. ctx[e] \in ContextRecord
      BY <1>0
    <3> QED BY <1>0, <3>1, <3>2 DEF ContextRecord
  <2> QED BY <1>3, <2>2, <2>3
<1>4. ASSUME NEW c \in Context, NEW l \in Lock, Reenter(c, l), ctx'[e] # ctx[e]
      PROVE  /\ ctx'[e].at = "running"
             /\ ctx'[e].owns \subseteq ctx'[e].holding
  BY <1>0, <1>4 DEF Reenter, MayCall, ContextRecord
<1>5. ASSUME NEW c \in Context, NEW l \in Lock, Acquire(c, l), ctx'[e] # ctx[e]
      PROVE  /\ ctx'[e].owns \cap Leaf = {}
             /\ ctx'[e].owns \subseteq ctx'[e].holding
             /\ ctx'[e].wants \notin ctx'[e].owns
  <2>1. c = e /\ ctx[e].owns \cap Leaf = {} /\ l \notin ctx[e].holding
    BY <1>0, <1>5 DEF Acquire, MayCall, InLeaf
  <2>2. ctx'[e].owns = ctx[e].owns /\ ctx'[e].holding = ctx[e].holding /\ ctx'[e].wants = l
    BY <1>0, <1>5, <2>1 DEF Acquire, ContextRecord
  <2> QED BY <1>0, <2>1, <2>2
<1>6. ASSUME NEW c \in Context, NEW l \in Lock, Leave(c, l), ctx'[e] # ctx[e]
      PROVE  /\ ctx'[e].at # "running" => ctx'[e].owns \cap Leaf = {}
             /\ ctx'[e].owns \subseteq ctx'[e].holding
             /\ ctx'[e].at # "queued"
  <2>1. /\ Innermost(c, l) /\ ctx[c].at = "running"
        /\ Released(c, l).at = "running"
        /\ Released(c, l).owns = ctx[c].owns \ {l}
        /\ Released(c, l).holding = ctx[c].holding \ {l}
        /\ Released(c, l) \in ContextRecord
    BY <1>6, ReleasedRecord DEF Leave, Innermost
  <2>2. CASE queue[l] = <<>>
    <3>1. e = c /\ ctx'[e] = Released(c, l)
      BY <1>0, <1>6, <2>2 DEF Leave
    <3> QED BY <1>0, <2>1, <3>1
  <2>3. CASE queue[l] # <<>>
    <3>1. PICK h \in Context : h = Head(queue[l]) /\ ctx[h].at = "queued"
      BY <2>3 DEF IInv, TypeOK, Waiting
    <3>2. ctx' = [ctx EXCEPT ![c] = Released(c, l), ![h].at = "granted"] /\ h # c
      BY <1>6, <2>1, <2>3, <3>1 DEF Leave
    <3>3. ctx'[c] = Released(c, l) /\ ctx'[h] = [ctx[h] EXCEPT !.at = "granted"] /\ e \in {c, h}
      BY <1>0, <1>6, <3>2
    <3>4. CASE e = c
      BY <1>0, <2>1, <3>3, <3>4
    <3>5. CASE e = h
      <4>1. ctx'[h].at = "granted" /\ ctx'[h].owns = ctx[h].owns /\ ctx'[h].holding = ctx[h].holding
        BY <1>0, <3>3 DEF ContextRecord
      <4> QED BY <1>0, <3>1, <3>5, <4>1
    <3> QED BY <3>3, <3>4, <3>5
  <2> QED BY <2>2, <2>3
<1>7. CASE UNCHANGED vars
  BY <1>1, <1>7 DEF vars
<1> QED BY <1>0, <1>1, <1>2, <1>3, <1>4, <1>5, <1>6, <1>7 DEF Next, Exclusive

LEMMA ListedStep == IInv /\ Listed /\ [Next]_vars => Listed'
<1> SUFFICES ASSUME IInv, Listed, [Next]_vars, NEW e \in Context, ctx'[e].at = "queued"
             PROVE  \E i \in 1 .. Len(queue'[ctx'[e].wants]) : queue'[ctx'[e].wants][i] = e
  BY DEF Listed
<1>0. /\ \A d \in Context : ctx[d] \in ContextRecord
      /\ ctx \in [Context -> ContextRecord]
      /\ queue \in [Lock -> Seq(Context)]
      /\ \A d \in Context : ctx[d].at = "queued" => ctx[d].wants \in Lock
  BY DEF IInv, TypeOK, Memory
<1>1. CASE ctx'[e] = ctx[e] /\ queue' = queue
  BY <1>1 DEF Listed
<1>2. CASE Start
  <2>1. ASSUME NEW c \in Context, Arrive(c) \/ End(c)
        PROVE  ctx'[e] = ctx[e] \/ ctx'[e] \in {Ended, Fresh("call", {})}
    BY <1>0, <2>1 DEF Arrive, End
  <2>2. ASSUME NEW c \in Context, NEW d \in Context, Detach(c, d) \/ FireAndForget(c, d)
        PROVE  \/ ctx'[e] = ctx[e]
               \/ ctx'[e] = Fresh("call", ctx[c].holding \ {StateMutex})
               \/ ctx'[e] = Fresh("loose", ctx[c].holding)
    BY <1>0, <2>2 DEF Detach, FireAndForget
  <2>3. Start => ctx'[e] = ctx[e] \/ ctx'[e] = Ended \/ \E kind, held : ctx'[e] = Fresh(kind, held)
    BY <2>1, <2>2 DEF Start
  <2>4. ctx'[e] = ctx[e]
    BY <1>2, <2>3, NewOwnsNothing
  <2>5. queue' = queue
    BY <1>2 DEF Start, Arrive, End, Detach, FireAndForget
  <2> QED BY <1>1, <2>4, <2>5
<1>3. ASSUME NEW c \in Context, Enter(c) \/ LeaveNested(c) \/ \E l \in Lock : Reenter(c, l)
      PROVE  ctx'[e] = ctx[e] /\ queue' = queue
  BY <1>0, <1>3 DEF Enter, LeaveNested, Reenter, MayCall, ContextRecord
<1>4. ASSUME NEW c \in Context, NEW l \in Lock, Acquire(c, l)
      PROVE  \E i \in 1 .. Len(queue'[ctx'[e].wants]) : queue'[ctx'[e].wants][i] = e
  <2>1. /\ \A d \in Context \ {c} : ctx'[d] = ctx[d]
        /\ ctx'[c].wants = l /\ ctx'[c].at = IF locked[l] THEN "queued" ELSE "granted"
    BY <1>0, <1>4 DEF Acquire, ContextRecord
  <2>2. /\ \A k \in Lock \ {l} : queue'[k] = queue[k]
        /\ queue'[l] = IF locked[l] THEN Append(queue[l], c) ELSE queue[l]
    BY <1>0, <1>4 DEF Acquire
  <2>3. /\ queue[l] \in Seq(Context) /\ Len(queue[l]) \in Nat
        /\ Len(Append(queue[l], c)) = Len(queue[l]) + 1
        /\ \A i \in 1 .. Len(queue[l]) : Append(queue[l], c)[i] = queue[l][i]
        /\ Append(queue[l], c)[Len(queue[l]) + 1] = c
    BY <1>0, AppendProperties, LenProperties
  <2>4. CASE e = c
    <3>1. Len(queue[l]) + 1 \in 1 .. Len(queue'[l]) /\ queue'[l][Len(queue[l]) + 1] = c
      BY <2>1, <2>2, <2>3, <2>4
    <3> QED BY <2>1, <2>4, <3>1
  <2>5. CASE e # c
    <3>1. ctx'[e] = ctx[e] /\ ctx[e].wants \in Lock
      BY <1>0, <2>1, <2>5
    <3>2. PICK i \in 1 .. Len(queue[ctx[e].wants]) : queue[ctx[e].wants][i] = e
      BY <3>1 DEF Listed
    <3>3. i \in 1 .. Len(queue'[ctx[e].wants]) /\ queue'[ctx[e].wants][i] = e
      <4>1. CASE ctx[e].wants = l
        <5>1. queue'[l] = queue[l] \/ queue'[l] = Append(queue[l], c)
          BY <2>2
        <5> QED BY <2>3, <3>2, <4>1, <5>1
      <4>2. CASE ctx[e].wants # l
        BY <2>2, <3>1, <3>2, <4>2
      <4> QED BY <4>1, <4>2
    <3> QED BY <3>1, <3>3
  <2> QED BY <2>4, <2>5
<1>5. ASSUME NEW c \in Context, NEW l \in Lock, Leave(c, l)
      PROVE  \E i \in 1 .. Len(queue'[ctx'[e].wants]) : queue'[ctx'[e].wants][i] = e
  <2>1. Innermost(c, l) /\ ctx[c].at = "running" /\ Released(c, l).at = "running"
    BY <1>5, ReleasedRecord DEF Leave, Innermost
  <2>2. CASE queue[l] = <<>>
    BY <1>0, <1>1, <1>5, <2>1, <2>2 DEF Leave
  <2>3. CASE queue[l] # <<>>
    <3>1. /\ Head(queue[l]) \in Context /\ Head(queue[l]) = queue[l][1] /\ 1 \in 1 .. Len(queue[l])
          /\ Len(Tail(queue[l])) = Len(queue[l]) - 1
          /\ \A i \in 1 .. Len(Tail(queue[l])) : Tail(queue[l])[i] = queue[l][i + 1]
      BY <1>0, <2>3
    <3>2. ctx[Head(queue[l])].at = "queued" /\ Head(queue[l]) # c
      BY <2>1, <3>1 DEF IInv, Waiting
    <3>3. ctx' = [ctx EXCEPT ![c] = Released(c, l), ![Head(queue[l])].at = "granted"]
          /\ queue' = [queue EXCEPT ![l] = Tail(queue[l])]
      BY <1>5, <2>3 DEF Leave
    <3>4. e # c /\ e # Head(queue[l]) /\ ctx'[e] = ctx[e]
      <4> PICK h \in Context : h = Head(queue[l])
        BY <3>1
      <4>1. /\ ctx'[c] = Released(c, l) /\ ctx'[h] = [ctx[h] EXCEPT !.at = "granted"]
            /\ e \notin {c, h} => ctx'[e] = ctx[e]
        BY <1>0, <3>2, <3>3
      <4>2. ctx'[h].at = "granted"
        BY <1>0, <4>1 DEF ContextRecord
      <4> QED BY <2>1, <4>1, <4>2
    <3>5. PICK i \in 1 .. Len(queue[ctx[e].wants]) : queue[ctx[e].wants][i] = e
      BY <3>4 DEF Listed
    <3>6. ctx[e].wants \in Lock
      BY <1>0, <3>4
    <3>7. CASE ctx[e].wants # l
      BY <1>0, <3>3, <3>4, <3>5, <3>6, <3>7
    <3>8. CASE ctx[e].wants = l
      <4>1. i # 1 /\ i \in 1 .. Len(queue[l]) /\ Len(queue[l]) \in Nat
        BY <1>0, <3>1, <3>4, <3>5, <3>8
      <4>2. i - 1 \in 1 .. Len(Tail(queue[l])) /\ Tail(queue[l])[i - 1] = e
        BY <3>1, <3>5, <3>8, <4>1
      <4>3. queue'[l] = Tail(queue[l])
        BY <1>0, <3>3
      <4> QED BY <3>4, <3>8, <4>2, <4>3
    <3> QED BY <3>7, <3>8
  <2> QED BY <2>2, <2>3
<1>6. CASE UNCHANGED vars
  BY <1>1, <1>6 DEF vars
<1> QED BY <1>1, <1>2, <1>3, <1>4, <1>5, <1>6 DEF Next, Exclusive

\* Context c can be resumed, or comes to the end of a body: the guards of Progress(c).
GoesOn(c) ==
  \/ ctx[c].at = "granted"
  \/ ctx[c].at = "running" /\ ~InLeaf(c) /\ ctx[c].nested > 0
  \/ \E l \in Lock : Innermost(c, l)

\* Whoever waits for a lock waits for a context that goes on, or that waits for one that does.
NobodyWaitsInACircle ==
  \A c \in Context : ctx[c].at = "queued" =>
    \E d \in Context :
      /\ Custody(d, ctx[c].wants)
      /\ \/ GoesOn(d)
         \/ /\ ctx[d].at = "queued"
            /\ \E e \in Context : Custody(e, ctx[d].wants) /\ GoesOn(e)

\* Nobody waits in a circle, for any contexts and any channels: with locks taken in one order, the
\* state mutex before a leaf, the daemon never stands still while somebody waits for a lock.
THEOREM NoDeadlock == Spec => []NobodyWaitsInACircle
<1>1. ASSUME IInv, Orderly, Listed, NEW c \in Context, ctx[c].at = "queued"
      PROVE  /\ ctx[c].wants \in Lock /\ ctx[c].wants \notin ctx[c].owns
             /\ \E d \in Context : Custody(d, ctx[c].wants)
  <2>1. ctx[c].wants \in Lock /\ queue \in [Lock -> Seq(Context)]
    BY <1>1 DEF IInv, Memory, TypeOK
  <2>2. queue[ctx[c].wants] # <<>>
    BY <1>1, <2>1 DEF Listed
  <2> QED BY <1>1, <2>1, <2>2 DEF IInv, LockIsInUse, Orderly
<1>2. ASSUME IInv, Orderly, NEW d \in Context, NEW l \in Lock, Custody(d, l)
      PROVE  GoesOn(d) \/ (ctx[d].at = "queued" /\ l = StateMutex)
  <2>1. ctx[d] \in ContextRecord /\ (ctx[d].at = "ended" => ctx[d].owns = {})
    BY <1>2 DEF IInv, TypeOK, Memory
  <2>2. CASE ctx[d].at = "running"
    <3>1. l \in ctx[d].owns
      BY <1>2, <2>2 DEF Custody
    <3>2. CASE InLeaf(d)
      <4>1. PICK k \in Leaf : k \in ctx[d].owns
        BY <3>2 DEF InLeaf
      <4>2. Innermost(d, k) /\ k \in Lock
        BY <2>2, <4>1, LocksAssumption DEF Innermost, Lock
      <4> QED BY <4>2 DEF GoesOn
    <3>3. CASE ~InLeaf(d)
      <4>1. ctx[d].nested = 0 \/ ctx[d].nested > 0
        BY <2>1, MaxCallsAssumption DEF ContextRecord
      <4> QED BY <2>2, <3>1, <3>3, <4>1 DEF Innermost, GoesOn
    <3> QED BY <3>2, <3>3
  <2>3. CASE ctx[d].at = "queued"
    BY <1>2, <2>3 DEF Orderly, InLeaf, Custody, Lock
  <2>4. CASE ctx[d].at \in {"ended", "granted"}
    BY <1>2, <2>1, <2>4 DEF Custody, GoesOn
  <2> QED BY <2>1, <2>2, <2>3, <2>4 DEF ContextRecord
<1>3. IInv /\ Orderly /\ Listed => NobodyWaitsInACircle
  <2> SUFFICES ASSUME IInv, Orderly, Listed, NEW c \in Context, ctx[c].at = "queued"
               PROVE  \E d \in Context :
                        /\ Custody(d, ctx[c].wants)
                        /\ \/ GoesOn(d)
                           \/ /\ ctx[d].at = "queued"
                              /\ \E e \in Context : Custody(e, ctx[d].wants) /\ GoesOn(e)
    BY DEF NobodyWaitsInACircle
  <2>1. PICK d \in Context : Custody(d, ctx[c].wants) /\ ctx[c].wants \in Lock
    BY <1>1
  <2>2. GoesOn(d) \/ (ctx[d].at = "queued" /\ ctx[c].wants = StateMutex)
    BY <1>2, <2>1
  <2>3. CASE ctx[d].at = "queued" /\ ctx[c].wants = StateMutex
    <3>1. StateMutex \in ctx[d].owns
      BY <2>1, <2>3 DEF Custody
    <3>2. PICK e \in Context : Custody(e, ctx[d].wants) /\ ctx[d].wants \in Lock
      BY <1>1, <2>3
    <3>3. ctx[d].wants # StateMutex
      BY <1>1, <2>3, <3>1
    <3>4. GoesOn(e)
      BY <1>2, <3>2, <3>3
    <3> QED BY <2>1, <2>3, <3>2, <3>4
  <2> QED BY <2>1, <2>2, <2>3
<1>4. Init => Orderly /\ Listed
  BY DEF Init, Orderly, Listed, InLeaf, Ended, Blank
<1> QED BY <1>3, <1>4, OrderlyStep, ListedStep, Inductive, PTL DEF Spec

=============================================================================
