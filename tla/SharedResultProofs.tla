------------------------- MODULE SharedResultProofs -------------------------
(***************************************************************************)
(* A shared result with any set of clients: no awaiting coroutine is lost  *)
(* or called twice, and the states live as long as they are used.          *)
(*                                                                         *)
(* Neither is inductive.  ListInv says where a pushed coroutine is: before *)
(* the exchange with ready_constant() in awaiters_, after it in the list   *)
(* on_finished is calling, or already called; so that pushed is, in order, *)
(* the called, the calling and the waiting ones.  PhaseInv ties together   *)
(* the constructor, the producer, on_finished and the destructor, which    *)
(* run in up to three threads but each at most once.                       *)
(***************************************************************************)
EXTENDS SharedResult, SequenceTheorems, TLAPS

Suspended == {c \in Client : cpc[c] = "suspended"}

ListInv ==
  /\ IsInjective(awaiters) /\ IsInjective(calling)
  /\ ready => /\ awaiters = <<>> /\ ToSet(calling) = Suspended
              /\ pushed = called \o calling
  /\ ~ready => /\ calling = <<>> /\ called = <<>> /\ ToSet(awaiters) = Suspended
               /\ pushed = Reverse(awaiters)

(* The constructor has not handed out its copies.                            *)
BuildInv ==
  /\ \A c \in Client : cpc[c] = "none" <=> spc # "built"
  /\ spc # "built" => dpc = "none"
  /\ spc \in {"load", "cas"} =>
       /\ processStatus \in {"Idle", "ProducerDone"} /\ ppc \in {"working", "done"}
       /\ fin = "none" /\ status = "Idle" /\ ~ready
  /\ spc = "finishing" => ppc = "done" /\ fin # "none"

(* The producer: it ends the result once, and unless it has locked the       *)
(* shared state nothing was published before.                                *)
ProducerInv ==
  /\ ppc = "working" => processStatus # "ProducerDone" /\ ~freed
  /\ ppc # "working" /\ dpc \notin {"deleting", "done"} => processStatus = "ProducerDone"
  /\ ppc \in {"working", "resuming"} => status = "Idle" /\ ~ready /\ fin = "none"
  /\ ppc \in {"resuming", "finishing"} => spc = "built"
  /\ ppc = "finishing" => fin # "none"

(* on_finished runs for the producer or for the constructor.                 *)
FinishInv ==
  /\ fin # "none" => dpc = "none" /\ (ppc = "finishing" \/ spc = "finishing")
  /\ fin = "store" => status = "Idle"
  /\ fin \in {"store", "notify", "exchange"} => ~ready
  /\ fin = "call" => ready
  /\ calling # <<>> => fin = "call"

(* The destructor runs when no copy is left, and one side frees the state.   *)
DestroyInv ==
  /\ dpc # "none" => Holders = {} /\ fin = "none"
  /\ dpc = "reset" => processStatus # "ConsumerSet"
  /\ dpc = "deleting" => ppc # "working"
  /\ freed => dpc = "done"
  /\ dpc = "done" =>
       \/ freed
       \/ ppc = "working" /\ processStatus = "ConsumerDone"
       \/ ppc = "deleting"
  /\ ppc = "deleting" => dpc = "done"
  /\ processStatus = "ConsumerDone" => dpc \in {"deleting", "done"}

(* A client that was let go finds the result.                                *)
SatisfiedInv ==
  \A c \in Client : cpc[c] = "satisfied" => ppc # "working"

PhaseInv ==
  BuildInv /\ ProducerInv /\ FinishInv /\ DestroyInv /\ SatisfiedInv

SharedInv == TypeOK /\ ListInv /\ PhaseInv

-----------------------------------------------------------------------------
(* Lists: what pushing in front, reversing and taking the head do to the     *)
(* elements and their order.                                                 *)

(* A node pushed in front of a list.                                         *)
LEMMA ConsProperties ==
  ASSUME NEW S, NEW s \in Seq(S), NEW c \in S
  PROVE  /\ <<c>> \o s \in Seq(S) /\ Len(<<c>> \o s) = Len(s) + 1
         /\ (<<c>> \o s)[1] = c
         /\ \A k \in 1..Len(s) : (<<c>> \o s)[k + 1] = s[k]
<1>1. <<c>> \in Seq(S) /\ Len(<<c>>) = 1 /\ <<c>>[1] = c
  OBVIOUS
<1> QED
  BY <1>1, ConcatProperties, LenProperties

(* Pushing a coroutine that is not on the list adds it, and leaves no node   *)
(* twice.                                                                    *)
LEMMA ConsSet ==
  ASSUME NEW S, NEW s \in Seq(S), NEW c \in S
  PROVE  /\ ToSet(<<c>> \o s) = ToSet(s) \cup {c}
         /\ IsInjective(s) /\ c \notin ToSet(s) => IsInjective(<<c>> \o s)
<1> DEFINE t == <<c>> \o s
<1>1. /\ Len(s) \in Nat /\ DOMAIN s = 1..Len(s) /\ DOMAIN t = 1..(Len(s) + 1)
      /\ t[1] = c /\ \A k \in 1..Len(s) : t[k + 1] = s[k]
  BY ConsProperties, LenProperties
<1>2. \A k \in 1..(Len(s) + 1) : k = 1 \/ (k - 1 \in 1..Len(s) /\ t[k] = s[k - 1])
  BY <1>1
<1> HIDE DEF t
<1>3. ToSet(t) = ToSet(s) \cup {c}
  <2>1. ASSUME NEW x \in ToSet(t) PROVE x \in ToSet(s) \cup {c}
    BY <1>1, <1>2 DEF ToSet
  <2>2. ASSUME NEW x \in ToSet(s) PROVE x \in ToSet(t)
    <3>1. PICK k \in 1..Len(s) : x = s[k]
      BY <1>1 DEF ToSet
    <3>2. k + 1 \in DOMAIN t /\ t[k + 1] = x
      BY <1>1, <3>1
    <3> QED
      BY <3>2 DEF ToSet
  <2>3. c \in ToSet(t)
    <3>1. 1 \in DOMAIN t
      BY <1>1
    <3> QED
      BY <1>1, <3>1 DEF ToSet
  <2> QED
    BY <2>1, <2>2, <2>3
<1>4. ASSUME IsInjective(s), c \notin ToSet(s) PROVE IsInjective(t)
  <2> SUFFICES ASSUME NEW a \in 1..(Len(s) + 1), NEW b \in 1..(Len(s) + 1), t[a] = t[b]
               PROVE  a = b
    BY <1>1 DEF IsInjective
  <2>1. \A k \in 1..Len(s) : s[k] # c
    BY <1>1, <1>4 DEF ToSet
  <2>2. CASE a = 1 \/ b = 1
    BY <1>1, <1>2, <2>1, <2>2
  <2>3. CASE a # 1 /\ b # 1
    BY <1>1, <1>2, <1>4, <2>3 DEF IsInjective
  <2> QED
    BY <2>2, <2>3
<1> QED
  BY <1>3, <1>4 DEF t

(* Reversing a list keeps its elements, each as often as before.             *)
LEMMA ReverseProperties ==
  ASSUME NEW S, NEW s \in Seq(S)
  PROVE  /\ Reverse(s) \in Seq(S) /\ Len(Reverse(s)) = Len(s)
         /\ ToSet(Reverse(s)) = ToSet(s)
         /\ IsInjective(s) => IsInjective(Reverse(s))
<1>1. /\ Len(s) \in Nat /\ DOMAIN s = 1..Len(s)
      /\ Reverse(s) = [k \in 1..Len(s) |-> s[(Len(s) - k) + 1]]
      /\ \A k \in 1..Len(s) : s[k] \in S /\ (Len(s) - k) + 1 \in 1..Len(s)
  BY LenProperties, ElementOfSeq DEF Reverse
<1>2. Reverse(s) \in Seq(S) /\ Len(Reverse(s)) = Len(s)
  BY <1>1
<1>3. ToSet(Reverse(s)) = ToSet(s)
  <2>1. ASSUME NEW x \in ToSet(Reverse(s)) PROVE x \in ToSet(s)
    BY <1>1 DEF ToSet
  <2>2. ASSUME NEW x \in ToSet(s) PROVE x \in ToSet(Reverse(s))
    <3>1. PICK k \in 1..Len(s) : x = s[k]
      BY <1>1 DEF ToSet
    <3>2. /\ (Len(s) - k) + 1 \in DOMAIN Reverse(s)
          /\ Reverse(s)[(Len(s) - k) + 1] = x
      BY <1>1, <3>1
    <3> QED
      BY <3>2 DEF ToSet
  <2> QED
    BY <2>1, <2>2, Zenon
<1>4. ASSUME IsInjective(s) PROVE IsInjective(Reverse(s))
  BY <1>1, <1>4 DEF IsInjective
<1> QED
  BY <1>2, <1>3, <1>4

(* What is pushed first in the list is called last: its reverse is appended  *)
(* to.                                                                       *)
LEMMA ReverseCons ==
  ASSUME NEW S, NEW s \in Seq(S), NEW c \in S
  PROVE  Reverse(<<c>> \o s) = Append(Reverse(s), c)
<1> DEFINE t == <<c>> \o s
           n == Len(s)
<1>1. /\ n \in Nat /\ t \in Seq(S) /\ Len(t) = n + 1 /\ t[1] = c
      /\ \A k \in 1..n : t[k + 1] = s[k]
  BY ConsProperties, LenProperties
<1>2. /\ Reverse(t) \in Seq(S) /\ Len(Reverse(t)) = n + 1
      /\ Reverse(s) \in Seq(S) /\ Len(Reverse(s)) = n
  BY <1>1, ReverseProperties, Zenon
<1>3. /\ Append(Reverse(s), c) \in Seq(S) /\ Len(Append(Reverse(s), c)) = n + 1
      /\ \A k \in 1..n : Append(Reverse(s), c)[k] = Reverse(s)[k]
      /\ Append(Reverse(s), c)[n + 1] = c
  BY <1>2, AppendProperties
<1>4. /\ \A k \in 1..(n + 1) : Reverse(t)[k] = t[((n + 1) - k) + 1]
      /\ \A k \in 1..n : Reverse(s)[k] = s[(n - k) + 1]
  BY <1>1 DEF Reverse
<1> HIDE DEF t, n
<1>5. ASSUME NEW k \in 1..(n + 1) PROVE Reverse(t)[k] = Append(Reverse(s), c)[k]
  <2>1. CASE k = n + 1
    <3>1. ((n + 1) - k) + 1 = 1
      BY <1>1, <2>1
    <3> QED
      BY <1>1, <1>3, <1>4, <2>1, <3>1
  <2>2. CASE k \in 1..n
    <3>1. (n - k) + 1 \in 1..n /\ ((n + 1) - k) + 1 = ((n - k) + 1) + 1
      BY <1>1, <2>2
    <3> QED
      BY <1>1, <1>3, <1>4, <2>2, <3>1
  <2>3. k = n + 1 \/ k \in 1..n
    BY <1>1
  <2> QED
    BY <2>1, <2>2, <2>3, Zenon
<1>6. Reverse(t) = Append(Reverse(s), c)
  BY <1>2, <1>3, <1>5, SeqEqual
<1> QED
  BY <1>6 DEF t

(* Taking the head off a list without repetition takes it out of the set.    *)
LEMMA TailSet ==
  ASSUME NEW S, NEW s \in Seq(S), s # <<>>, IsInjective(s)
  PROVE  /\ Head(s) \in ToSet(s)
         /\ ToSet(Tail(s)) = ToSet(s) \ {Head(s)}
         /\ IsInjective(Tail(s))
<1>1. /\ Len(s) \in Nat \ {0} /\ DOMAIN s = 1..Len(s) /\ Head(s) = s[1]
      /\ DOMAIN Tail(s) = 1..(Len(s) - 1)
      /\ \A k \in 1..(Len(s) - 1) : Tail(s)[k] = s[k + 1]
  BY EmptySeq, LenProperties, HeadTailProperties
<1>2. \A a, b \in 1..Len(s) : s[a] = s[b] => a = b
  BY <1>1 DEF IsInjective
<1>3. Head(s) \in ToSet(s)
  <2>1. 1 \in DOMAIN s
    BY <1>1
  <2> QED
    BY <1>1, <2>1 DEF ToSet
<1>4. ASSUME NEW x \in ToSet(Tail(s)) PROVE x \in ToSet(s) \ {Head(s)}
  <2>1. PICK k \in 1..(Len(s) - 1) : x = Tail(s)[k]
    BY <1>1 DEF ToSet
  <2>2. k + 1 \in 1..Len(s) /\ 1 \in 1..Len(s) /\ k + 1 # 1 /\ x = s[k + 1]
    BY <1>1, <2>1
  <2> QED
    BY <1>1, <1>2, <2>2 DEF ToSet
<1>5. ASSUME NEW x \in ToSet(s) \ {Head(s)} PROVE x \in ToSet(Tail(s))
  <2>1. PICK k \in 1..Len(s) : x = s[k]
    BY <1>1 DEF ToSet
  <2>2. k - 1 \in 1..(Len(s) - 1) /\ (k - 1) + 1 = k
    BY <1>1, <2>1
  <2> QED
    BY <1>1, <2>1, <2>2, Zenon DEF ToSet
<1>6. IsInjective(Tail(s))
  BY <1>1, <1>2 DEF IsInjective
<1> QED
  BY <1>3, <1>4, <1>5, <1>6

(* Moving the head of one list to the end of another keeps them together.    *)
LEMMA MoveHead ==
  ASSUME NEW S, NEW s \in Seq(S), NEW t \in Seq(S), t # <<>>
  PROVE  Append(s, Head(t)) \o Tail(t) = s \o t
<1>1. /\ Head(t) \in S /\ Tail(t) \in Seq(S) /\ Len(Tail(t)) = Len(t) - 1
      /\ Len(t) \in Nat \ {0} /\ Len(s) \in Nat /\ Head(t) = t[1]
      /\ \A k \in 1..(Len(t) - 1) : Tail(t)[k] = t[k + 1]
  BY EmptySeq, LenProperties, HeadTailProperties
<1> DEFINE u == Append(s, Head(t))
<1>2. /\ u \in Seq(S) /\ Len(u) = Len(s) + 1
      /\ \A k \in 1..Len(s) : u[k] = s[k]
      /\ u[Len(s) + 1] = t[1]
  BY <1>1, AppendProperties
<1> HIDE DEF u
<1>3. /\ u \o Tail(t) \in Seq(S) /\ Len(u \o Tail(t)) = Len(s) + Len(t)
      /\ \A k \in 1..(Len(s) + Len(t)) :
           (u \o Tail(t))[k] = IF k <= Len(s) + 1 THEN u[k] ELSE Tail(t)[k - (Len(s) + 1)]
  <2>1. /\ u \o Tail(t) \in Seq(S) /\ Len(u \o Tail(t)) = Len(u) + Len(Tail(t))
        /\ \A k \in 1..(Len(u) + Len(Tail(t))) :
             (u \o Tail(t))[k] = IF k <= Len(u) THEN u[k] ELSE Tail(t)[k - Len(u)]
    BY <1>1, <1>2, ConcatProperties, Zenon
  <2>2. Len(u) + Len(Tail(t)) = Len(s) + Len(t)
    BY <1>1, <1>2
  <2> QED
    BY <1>2, <2>1, <2>2
<1>4. /\ s \o t \in Seq(S) /\ Len(s \o t) = Len(s) + Len(t)
      /\ \A k \in 1..(Len(s) + Len(t)) :
           (s \o t)[k] = IF k <= Len(s) THEN s[k] ELSE t[k - Len(s)]
  BY ConcatProperties
<1>5. ASSUME NEW k \in 1..(Len(s) + Len(t)) PROVE (u \o Tail(t))[k] = (s \o t)[k]
  <2>1. CASE k \in 1..Len(s)
    BY <1>1, <1>2, <1>3, <1>4, <2>1
  <2>2. CASE k = Len(s) + 1
    BY <1>1, <1>2, <1>3, <1>4, <2>2
  <2>3. CASE k > Len(s) + 1
    <3>1. /\ k - (Len(s) + 1) \in 1..(Len(t) - 1)
          /\ (k - (Len(s) + 1)) + 1 = k - Len(s)
      BY <1>1, <2>3
    <3> QED
      BY <1>1, <1>3, <1>4, <2>3, <3>1
  <2>4. k \in 1..Len(s) \/ k = Len(s) + 1 \/ k > Len(s) + 1
    BY <1>1
  <2> QED
    BY <2>1, <2>2, <2>3, <2>4, Zenon
<1>6. u \o Tail(t) = s \o t
  BY <1>3, <1>4, <1>5, SeqEqual, Zenon
<1> QED
  BY <1>6 DEF u

(* A list is a prefix of what it is continued to.                            *)
LEMMA ConcatPrefix ==
  ASSUME NEW S, NEW s \in Seq(S), NEW t \in Seq(S)
  PROVE  IsPrefix(s, s \o t)
<1>1. /\ s \o t \in Seq(S) /\ Len(s) \in Nat /\ Len(t) \in Nat
      /\ Len(s \o t) = Len(s) + Len(t)
      /\ \A k \in 1..Len(s) : (s \o t)[k] = s[k]
  BY ConcatProperties, LenProperties
<1>2. SubSeq(s, 1, Len(s)) = SubSeq(s \o t, 1, Len(s))
  BY <1>1
<1> QED
  BY <1>1, <1>2 DEF IsPrefix

-----------------------------------------------------------------------------
(* The steps.                                                                *)

(* SharedInv holds before share() has begun.                                 *)
LEMMA SharedInitial == Init => SharedInv
<1> SUFFICES ASSUME Init PROVE SharedInv
  OBVIOUS
<1>1. TypeOK
  <2>1. [c \in Client |-> <<>>] \in [Client -> Seq(Client)] /\ <<>> \in Seq(Client)
    OBVIOUS
  <2>2. [c \in Client |-> "none"] \in [Client -> ClientPc]
    BY DEF ClientPc
  <2> QED
    BY <2>1, <2>2, Zenon DEF Init, TypeOK, ProducerPc, SharePc, FinishPc, DestroyPc
<1>2. ListInv
  BY DEF Init, ListInv, Suspended, IsInjective, ToSet, Reverse
<1>3. PhaseInv
  BY DEF Init, PhaseInv, BuildInv, ProducerInv, FinishInv, DestroyInv,
         SatisfiedInv, Holders
<1> QED
  BY <1>1, <1>2, <1>3 DEF SharedInv

(* Every step keeps the types.                                               *)
LEMMA TypeInductive == SharedInv /\ [Next]_vars => TypeOK'
<1> SUFFICES ASSUME SharedInv, [Next]_vars
             PROVE  TypeOK'
  OBVIOUS
<1> USE DEF ProducerPc, SharePc, FinishPc, ClientPc, DestroyPc
<1>1. TypeOK
  BY DEF SharedInv
<1>2. CASE Construct \/ CompleteProducer \/ ProducerStep
  BY <1>1, <1>2, Zenon DEF TypeOK, Construct, ShareLoad, ShareCas, Built,
     CompleteProducer, ProducerStep, ResumeConsumer, ProducerDelete, innerVars,
     listVars
<1>3. CASE FinishStore \/ FinishNotify \/ FinishReturn
  BY <1>1, <1>3 DEF TypeOK, FinishStore, FinalStatus, FinishNotify,
     FinishReturn, Built, innerVars, listVars
<1>4. CASE FinishExchange
  <2>1. Reverse(awaiters) \in Seq(Client) /\ <<>> \in Seq(Client)
    BY <1>1, ReverseProperties DEF TypeOK
  <2> QED
    BY <1>1, <1>4, <2>1 DEF TypeOK, FinishExchange, CallOrder, innerVars
<1>5. CASE CallAwaiter
  <2>1. /\ Head(calling) \in Client /\ Tail(calling) \in Seq(Client)
    BY <1>1, <1>5, HeadTailProperties DEF TypeOK, CallAwaiter
  <2>2. Append(called, Head(calling)) \in Seq(Client)
    BY <1>1, <2>1 DEF TypeOK
  <2> QED
    BY <1>1, <1>5, <2>1, <2>2 DEF TypeOK, CallAwaiter, innerVars
<1>6. ASSUME NEW c \in Client,
             Wait(c) \/ WaitCheck(c) \/ WaitWake(c) \/ Await(c) \/ AwaitLoad(c)
               \/ GetRef(c) \/ DropCopy(c)
      PROVE  TypeOK'
  <2>1. cpc' \in [Client -> ClientPc] /\ dpc' \in DestroyPc
    BY <1>1, <1>6, Zenon DEF TypeOK, Wait, WaitCheck, WaitWake, AfterWake, Await,
       AwaitLoad, GetRef, DropCopy, ClientMove
  <2>2. before' \in [Client -> Seq(Client)]
    BY <1>1, <1>6 DEF TypeOK, Wait, WaitCheck, WaitWake, Await, AwaitLoad,
       GetRef, DropCopy
  <2>3. UNCHANGED <<innerVars, ppc, spc, fin, status, listVars>>
    BY <1>6 DEF Wait, WaitCheck, WaitWake, Await, AwaitLoad, GetRef, DropCopy,
       ClientMove
  <2> QED
    BY <1>1, <2>1, <2>2, <2>3 DEF TypeOK, innerVars, listVars
<1>7. ASSUME NEW c \in Client, AwaitCas(c) PROVE TypeOK'
  <2>1. <<c>> \o before[c] \in Seq(Client) /\ Append(pushed, c) \in Seq(Client)
    BY <1>1, ConsProperties DEF TypeOK
  <2>2. awaiters' \in Seq(Client) /\ pushed' \in Seq(Client)
    BY <1>1, <1>7, <2>1, Zenon DEF TypeOK, AwaitCas
  <2>3. before' \in [Client -> Seq(Client)]
    BY <1>1, <1>7 DEF TypeOK, AwaitCas
  <2>4. cpc' \in [Client -> ClientPc]
    BY <1>1, <1>7, Zenon DEF TypeOK, AwaitCas, ClientMove
  <2>5. UNCHANGED <<innerVars, ppc, spc, fin, status, ready, calling, called, dpc>>
    BY <1>7 DEF AwaitCas, ClientMove
  <2> QED
    BY <1>1, <2>2, <2>3, <2>4, <2>5 DEF TypeOK, innerVars
<1>8. CASE Destroy
  BY <1>1, <1>8, Zenon DEF TypeOK, Destroy, RewindLoad, RewindCas, CompleteConsumer,
     ConsumerDelete, DestroyMove, innerVars, listVars
<1>9. CASE UNCHANGED vars
  BY <1>1, <1>9 DEF TypeOK, vars, innerVars, listVars
<1> QED
  BY <1>2, <1>3, <1>4, <1>5, <1>6, <1>7, <1>8, <1>9
     DEF Next, OnFinished, ClientChoice, ClientStep, Finished

(* Every step keeps ListInv: only push, the exchange with ready_constant()   *)
(* and the calls of on_finished touch the list.                              *)
LEMMA ListInductive == SharedInv /\ [Next]_vars => ListInv'
<1> SUFFICES ASSUME SharedInv, [Next]_vars
             PROVE  ListInv'
  OBVIOUS
<1>1. ListInv /\ BuildInv /\ FinishInv
  BY DEF SharedInv, PhaseInv
<1>2. /\ awaiters \in Seq(Client) /\ calling \in Seq(Client)
      /\ called \in Seq(Client) /\ pushed \in Seq(Client)
      /\ cpc \in [Client -> ClientPc] /\ ready \in BOOLEAN
  BY DEF SharedInv, TypeOK
<1>3. ASSUME UNCHANGED listVars, Suspended' = Suspended PROVE ListInv'
  BY <1>1, <1>3 DEF ListInv, listVars
<1>4. CASE UNCHANGED <<listVars, cpc>>
  BY <1>3, <1>4 DEF Suspended
<1>5. ASSUME Built, UNCHANGED listVars, spc # "built" PROVE ListInv'
  <2>1. Suspended = {} /\ Suspended' = {}
    BY <1>1, <1>5 DEF Built, BuildInv, Suspended
  <2> QED
    BY <1>3, <1>5, <2>1
<1>6. CASE Construct
  BY <1>4, <1>5, <1>6 DEF Construct, ShareLoad, ShareCas
<1>7. CASE CompleteProducer \/ ProducerStep \/ FinishStore \/ Destroy
  BY <1>4, <1>7 DEF CompleteProducer, ProducerStep, ResumeConsumer,
     ProducerDelete, FinishStore, Destroy, RewindLoad, RewindCas,
     CompleteConsumer, ConsumerDelete, DestroyMove
<1>8. CASE FinishNotify
  <2>1. Suspended' = Suspended
    BY <1>2, <1>8 DEF FinishNotify, Woken, Suspended
  <2> QED
    BY <1>3, <1>8, <2>1 DEF FinishNotify
<1>9. CASE FinishExchange
  <2>1. ~ready /\ ready' /\ awaiters' = <<>> /\ calling' = Reverse(awaiters)
    BY <1>1, <1>9 DEF FinishInv, FinishExchange, CallOrder
  <2>2. called = <<>> /\ ToSet(awaiters) = Suspended /\ pushed = Reverse(awaiters)
    BY <1>1, <2>1 DEF ListInv
  <2>3. called' = called /\ pushed' = pushed /\ Suspended' = Suspended
    BY <1>9 DEF FinishExchange, Suspended
  <2>4. /\ Reverse(awaiters) \in Seq(Client)
        /\ ToSet(calling') = Suspended' /\ IsInjective(calling')
    BY <1>1, <1>2, <2>1, <2>2, <2>3, ReverseProperties DEF ListInv
  <2>5. pushed' = called' \o calling'
    BY <2>1, <2>2, <2>3, <2>4, ConcatEmptySeq
  <2>6. IsInjective(awaiters')
    BY <2>1 DEF IsInjective
  <2> QED
    BY <2>1, <2>4, <2>5, <2>6 DEF ListInv
<1>10. CASE CallAwaiter
  <2>1. ready /\ calling # <<>> /\ UNCHANGED <<ready, awaiters, pushed>>
    BY <1>1, <1>10 DEF FinishInv, CallAwaiter
  <2>2. /\ IsInjective(calling) /\ IsInjective(awaiters) /\ awaiters = <<>>
        /\ ToSet(calling) = Suspended /\ pushed = called \o calling
    BY <1>1, <2>1 DEF ListInv
  <2>3. /\ Head(calling) \in Suspended /\ IsInjective(Tail(calling))
        /\ ToSet(Tail(calling)) = Suspended \ {Head(calling)}
    BY <1>2, <2>1, <2>2, TailSet
  <2>4. Suspended' = Suspended \ {Head(calling)}
    BY <1>2, <1>10, <2>3 DEF CallAwaiter, Suspended
  <2>5. called' \o calling' = called \o calling
    BY <1>2, <1>10, <2>1, MoveHead DEF CallAwaiter
  <2> QED
    BY <1>10, <2>1, <2>2, <2>3, <2>4, <2>5 DEF CallAwaiter, ListInv
<1>11. CASE FinishReturn
  <2>1. CASE ppc = "finishing" /\ UNCHANGED <<spc, cpc>>
    BY <1>4, <1>11, <2>1 DEF FinishReturn
  <2>2. CASE spc = "finishing" /\ Built
    BY <1>5, <1>11, <2>2 DEF FinishReturn
  <2> QED
    BY <1>11, <2>1, <2>2 DEF FinishReturn
<1>12. ASSUME NEW c \in Client,
              Wait(c) \/ WaitCheck(c) \/ WaitWake(c) \/ Await(c) \/ AwaitLoad(c)
                \/ GetRef(c) \/ DropCopy(c)
       PROVE  ListInv'
  <2>1. /\ UNCHANGED listVars
        /\ \E pc \in ClientPc \ {"suspended"} : cpc' = [cpc EXCEPT ![c] = pc]
        /\ cpc[c] # "suspended"
    BY <1>12 DEF Wait, WaitCheck, WaitWake, AfterWake, Await, AwaitLoad, GetRef,
       DropCopy, ClientMove, ClientPc
  <2>2. Suspended' = Suspended
    BY <1>2, <2>1 DEF Suspended
  <2> QED
    BY <1>3, <2>1, <2>2
<1>13. ASSUME NEW c \in Client, AwaitCas(c) PROVE ListInv'
  <2>1. CASE ~HeadUnchanged(c)
    <3>1. /\ UNCHANGED listVars /\ cpc[c] = "pushCas"
          /\ cpc' = [cpc EXCEPT ![c] = "pushLoad"]
      BY <1>13, <2>1 DEF AwaitCas, ClientMove, listVars
    <3>2. Suspended' = Suspended
      BY <1>2, <3>1 DEF Suspended
    <3> QED
      BY <1>3, <3>1, <3>2
  <2>2. CASE HeadUnchanged(c)
    <3>1. /\ ~ready /\ awaiters' = <<c>> \o awaiters /\ pushed' = Append(pushed, c)
          /\ cpc[c] = "pushCas" /\ cpc' = [cpc EXCEPT ![c] = "suspended"]
          /\ UNCHANGED <<ready, calling, called>>
      BY <1>13, <2>2 DEF AwaitCas, HeadUnchanged, ClientMove
    <3>2. /\ calling = <<>> /\ called = <<>> /\ ToSet(awaiters) = Suspended
          /\ IsInjective(awaiters) /\ IsInjective(calling)
          /\ pushed = Reverse(awaiters)
      BY <1>1, <3>1 DEF ListInv
    <3>3. Suspended' = Suspended \cup {c} /\ c \notin Suspended
      BY <1>2, <3>1 DEF Suspended
    <3>4. ToSet(awaiters') = Suspended' /\ IsInjective(awaiters')
      BY <1>2, <3>1, <3>2, <3>3, ConsSet
    <3>5. pushed' = Reverse(awaiters')
      BY <1>2, <3>1, <3>2, ReverseCons
    <3> QED
      BY <3>1, <3>2, <3>4, <3>5 DEF ListInv
  <2> QED
    BY <2>1, <2>2
<1>14. CASE UNCHANGED vars
  BY <1>4, <1>14 DEF vars
<1> QED
  BY <1>6, <1>7, <1>8, <1>9, <1>10, <1>11, <1>12, <1>13, <1>14
     DEF Next, OnFinished, ClientChoice, ClientStep, Finished

(* Every step keeps PhaseInv.                                                *)
LEMMA PhaseInductive == SharedInv /\ [Next]_vars => PhaseInv'
<1> SUFFICES ASSUME SharedInv, [Next]_vars
             PROVE  PhaseInv'
  OBVIOUS
<1>1. PhaseInv /\ ListInv
  BY DEF SharedInv
<1>2. /\ processStatus \in {"Idle", "ConsumerSet", "ConsumerDone", "ProducerDone"}
      /\ freed \in BOOLEAN /\ ready \in BOOLEAN /\ status \in {"Idle", "Ready"}
      /\ ppc \in ProducerPc /\ spc \in SharePc /\ fin \in FinishPc
      /\ dpc \in DestroyPc /\ cpc \in [Client -> ClientPc]
  BY DEF SharedInv, TypeOK
<1>3. /\ ready => ToSet(calling) = Suspended
      /\ calling \in Seq(Client) /\ IsInjective(calling)
  BY DEF SharedInv, TypeOK, ListInv
<1> USE <1>1, <1>2 DEF PhaseInv, BuildInv, ProducerInv, FinishInv, DestroyInv,
    SatisfiedInv, Holders, ProducerPc, SharePc, FinishPc, ClientPc, DestroyPc,
    innerVars, listVars
<1>4. CASE ShareLoad
  BY <1>4 DEF ShareLoad
<1>5. CASE ShareCas
  BY <1>5 DEF ShareCas, Built
<1>6. CASE CompleteProducer
  BY <1>6 DEF CompleteProducer
<1>7. CASE ResumeConsumer
  BY <1>7 DEF ResumeConsumer
<1>8. CASE ProducerDelete
  BY <1>8 DEF ProducerDelete
<1>9. CASE FinishStore
  BY <1>9 DEF FinishStore, FinalStatus
<1>10. CASE FinishNotify
  BY <1>10 DEF FinishNotify, Woken
<1>11. CASE FinishExchange
  BY <1>11 DEF FinishExchange, CallOrder
<1>12. CASE CallAwaiter
  <2>1. Head(calling) \in Suspended
    BY <1>3, <1>12, TailSet DEF CallAwaiter
  <2>2. Head(calling) \in Client /\ cpc[Head(calling)] = "suspended"
    BY <2>1 DEF Suspended
  <2>3. calling' # <<>> => fin' = "call"
    BY <1>12 DEF CallAwaiter
  <2> HIDE <1>1
  <2> QED
    <3> DEFINE h == Head(calling)
    <3>1. /\ fin = "call" /\ cpc' = [cpc EXCEPT ![h] = "satisfied"]
          /\ UNCHANGED <<innerVars, ppc, spc, fin, status, ready, dpc>>
          /\ h \in Client /\ cpc[h] = "suspended"
      BY <1>12, <2>2 DEF CallAwaiter
    <3> HIDE DEF h
    <3> QED
      BY <1>1, <2>3, <3>1
<1>13. CASE FinishReturn
  BY <1>13 DEF FinishReturn, Built
<1>14. ASSUME NEW c \in Client, Wait(c) PROVE PhaseInv'
  BY <1>14 DEF Wait, ClientMove
<1>15. ASSUME NEW c \in Client, WaitCheck(c) PROVE PhaseInv'
  BY <1>15 DEF WaitCheck, ClientMove
<1>16. ASSUME NEW c \in Client, WaitWake(c) PROVE PhaseInv'
  BY <1>16 DEF WaitWake, AfterWake, ClientMove
<1>17. ASSUME NEW c \in Client, Await(c) PROVE PhaseInv'
  BY <1>17 DEF Await, ClientMove
<1>18. ASSUME NEW c \in Client, AwaitLoad(c) PROVE PhaseInv'
  BY <1>18 DEF AwaitLoad, ClientMove
<1>19. ASSUME NEW c \in Client, AwaitCas(c) PROVE PhaseInv'
  BY <1>19 DEF AwaitCas, HeadUnchanged, ClientMove
<1>20. ASSUME NEW c \in Client, GetRef(c) PROVE PhaseInv'
  BY <1>20 DEF GetRef, ClientMove
<1>21. ASSUME NEW c \in Client, DropCopy(c) PROVE PhaseInv'
  BY <1>21 DEF DropCopy, LastReference
<1>22. CASE RewindLoad
  BY <1>22 DEF RewindLoad, MustRewind, DestroyMove
<1>23. CASE RewindCas
  BY <1>23 DEF RewindCas, DestroyMove
<1>24. CASE CompleteConsumer
  BY <1>24 DEF CompleteConsumer, DestroyMove
<1>25. CASE ConsumerDelete
  BY <1>25 DEF ConsumerDelete, DestroyMove
<1>26. CASE UNCHANGED vars
  BY <1>26 DEF vars
<1> HIDE <1>1, <1>2 DEF PhaseInv, BuildInv, ProducerInv, FinishInv, DestroyInv,
    SatisfiedInv, Holders, ProducerPc, SharePc, FinishPc, ClientPc, DestroyPc,
    innerVars, listVars
<1> QED
  BY <1>4, <1>5, <1>6, <1>7, <1>8, <1>9, <1>10, <1>11, <1>12, <1>13, <1>14,
     <1>15, <1>16, <1>17, <1>18, <1>19, <1>20, <1>21, <1>22, <1>23, <1>24,
     <1>25, <1>26
  DEF Next, Construct, ProducerStep, OnFinished, ClientChoice, ClientStep,
      Destroy, Finished

(* SharedInv holds in every state of every behaviour: of the list of         *)
(* awaiters, the clients, the helper coroutine and the inner result state.   *)
THEOREM SharedInvariance == Spec => []SharedInv
<1>1. SharedInv /\ [Next]_vars => SharedInv'
  BY TypeInductive, ListInductive, PhaseInductive DEF SharedInv
<1> QED
  BY <1>1, SharedInitial, PTL DEF Spec

-----------------------------------------------------------------------------
(* The places a pushed coroutine can be in exclude losing it, and calling it *)
(* twice or out of order.                                                    *)
LEMMA InvKeepsAwaiters == SharedInv => AwaitersKept
<1> SUFFICES ASSUME SharedInv PROVE AwaitersKept
  OBVIOUS
<1>1. /\ awaiters \in Seq(Client) /\ calling \in Seq(Client)
      /\ called \in Seq(Client) /\ ListInv /\ ready \in BOOLEAN
  BY DEF SharedInv, TypeOK
<1>2. CASE ready
  <2>1. /\ awaiters = <<>> /\ IsInjective(calling)
        /\ ToSet(calling) = Suspended /\ pushed = called \o calling
    BY <1>1, <1>2 DEF ListInv
  <2>2. awaiters \o calling = calling
    BY <1>1, <2>1, ConcatEmptySeq
  <2>3. IsPrefix(called, pushed)
    BY <1>1, <2>1, ConcatPrefix
  <2> QED
    BY <2>1, <2>2, <2>3 DEF AwaitersKept, Suspended
<1>3. CASE ~ready
  <2>1. /\ calling = <<>> /\ called = <<>> /\ IsInjective(awaiters)
        /\ ToSet(awaiters) = Suspended /\ pushed = Reverse(awaiters)
    BY <1>1, <1>3 DEF ListInv
  <2>2. awaiters \o calling = awaiters
    BY <1>1, <2>1, ConcatEmptySeq
  <2>3. /\ Reverse(awaiters) \in Seq(Client)
        /\ <<>> \o Reverse(awaiters) = Reverse(awaiters)
    BY <1>1, ReverseProperties, ConcatEmptySeq
  <2>4. IsPrefix(called, pushed)
    BY <1>1, <2>1, <2>3, ConcatPrefix, Zenon
  <2> QED
    BY <2>1, <2>2, <2>4 DEF AwaitersKept, Suspended
<1> QED
  BY <1>1, <1>2, <1>3

(* The phases exclude a use of the inner state once it is freed.             *)
LEMMA InvKeepsStates == SharedInv => StateLifetime
<1> SUFFICES ASSUME SharedInv PROVE StateLifetime
  OBVIOUS
<1>1. BuildInv /\ ProducerInv /\ FinishInv /\ DestroyInv /\ SatisfiedInv
  BY DEF SharedInv, PhaseInv
<1>2. ASSUME NEW c \in Client, cpc[c] = "satisfied"
      PROVE  processStatus = "ProducerDone" /\ ~freed
  <2>1. dpc = "none"
    BY <1>1, <1>2 DEF DestroyInv, Holders
  <2> QED
    BY <1>1, <1>2, <2>1 DEF SatisfiedInv, ProducerInv, DestroyInv
<1> QED
  BY <1>1, <1>2 DEF StateLifetime, FinishInv, DestroyInv, ProducerInv

-----------------------------------------------------------------------------
(* Whatever the number of clients, and however they push themselves while    *)
(* on_finished exchanges and calls the list: no awaiter is lost or called    *)
(* twice, and they are called in the order they were pushed; on_finished     *)
(* runs once and on a shared state that is there, a client that comes back   *)
(* from wait() or co_await finds the result, and the inner state is freed by *)
(* the side that ends last, not before (SharedStateBasic::await,             *)
(* SharedState::on_finished, ~SharedState).                                  *)
THEOREM SharedSafety == Spec => []SharedSafe
<1>1. SharedInv => SharedSafe
  BY InvKeepsAwaiters, InvKeepsStates DEF SharedInv, SharedSafe
<1> QED
  BY <1>1, SharedInvariance, PTL

(* A coroutine that was called back stays called back: on_finished never     *)
(* takes a call back or makes one out of turn, it only appends to them.      *)
THEOREM CallsOnlyAppend ==
  Spec => [][called' = called \/ \E c \in Suspended : called' = Append(called, c)]_vars
<1>1. SharedInv /\ [Next]_vars =>
        [called' = called \/ \E c \in Suspended : called' = Append(called, c)]_vars
  <2> SUFFICES ASSUME SharedInv, Next
               PROVE  called' = called \/ \E c \in Suspended : called' = Append(called, c)
    OBVIOUS
  <2>1. CASE CallAwaiter
    <3>1. Head(calling) \in Suspended
      BY <2>1, TailSet DEF SharedInv, TypeOK, PhaseInv, FinishInv, ListInv, CallAwaiter
    <3> QED
      BY <2>1, <3>1 DEF CallAwaiter
  <2>2. CASE ~CallAwaiter
    BY <2>2, Zenon DEF Next, Construct, ShareLoad, ShareCas, CompleteProducer,
       ProducerStep, ResumeConsumer, ProducerDelete, OnFinished, FinishStore,
       FinishNotify, FinishExchange, FinishReturn, ClientChoice, ClientStep,
       Wait, Await, WaitWake, DropCopy, WaitCheck, AwaitLoad, AwaitCas, GetRef,
       Destroy, RewindLoad, RewindCas, CompleteConsumer, ConsumerDelete,
       DestroyMove, Finished, vars, listVars
  <2> QED
    BY <2>1, <2>2
<1> QED
  BY <1>1, SharedInvariance, PTL DEF Spec
=============================================================================
