---------------------- MODULE DependencyEvaluatorProofs ---------------------
(***************************************************************************)
(* Theorems about DependencyEvaluator, for every graph, every number of    *)
(* clients and of healing iterations, and whatever changes and fails.      *)
(***************************************************************************)
EXTENDS DependencyEvaluator, SequenceTheorems, WellFoundedInduction, TLAPS

LastOf(c, n) == MaxIterations(Len(CacheTrailOf(c, n)))

(* a says of every fact what is true in w, if it is about the fact. *)
Current(w, n, a) ==
  \A f \in Fact : a[f] = IF f \in Claims(n) THEN w[f] ELSE LastVersion[f]

(* The i-th frame has the results of the preassertions and dependencies    *)
(* before its place, and the frame above it is that of the node at it.     *)
FrameOK(stack, done, i) ==
  LET n == stack[i].node
      k == stack[i].next
  IN
  /\ k <= CallAt(n)
  /\ \A j \in 1 .. k - 1 : j # LookupAt(n) => NodeAt(n, j) \in done
  /\ i < Len(stack) =>
       k # LookupAt(n) /\ k # CallAt(n) /\ stack[i + 1].node = NodeAt(n, k)

StackOK(stack, done, target) ==
  /\ Len(stack) > 0
  /\ stack[1].node = target
  /\ \A i \in 1 .. Len(stack) : FrameOK(stack, done, i)

Walking(e) == e.pc \in {"run", "store"}

(* In the last iteration nothing is believed that is not so, unless there  *)
(* is an excuse.                                                           *)
Strict(c, e) == e.iteration = LastOf(c, e.target) /\ ~e.excused

Trusts(w, c, e) ==
  Strict(c, e) =>
    /\ Walking(e) => \A m \in e.done : Current(w, m, e.about[m])
    /\ e.pc = "store" => Current(w, Last(e.stack).node, e.hold)
    /\ e.pc = "use" => Current(w, e.target, e.hold)

Sound(c, e) ==
  /\ e \in Evaluation
  /\ e.iteration <= LastOf(c, e.target)
  /\ Walking(e) => StackOK(e.stack, e.done, e.target)

IInv ==
  /\ TypeOK
  /\ \A f \in Fact : world[f] <= LastVersion[f]
  /\ \A c \in Client : Sound(c, ev[c]) /\ Trusts(world, c, ev[c])

-----------------------------------------------------------------------------
(* Numbers.                                                                *)

LEMMA MinExists ==
  ASSUME NEW S \in SUBSET Nat, S # {}
  PROVE  \E x \in S : \A y \in S : x <= y
  <1> DEFINE R == {ss \in Nat \X Nat : ss[1] < ss[2]}
  <1>1. IsWellFoundedOn(R, Nat)
    BY NatLessThanWellFounded DEF OpToRel
  <1>2. \A x, y \in Nat : <<y, x>> \in R \/ x <= y
    OBVIOUS
  <1> HIDE DEF R
  <1>3. \E x \in S : \A y \in S : ~(<<y, x>> \in R)
    BY <1>1, WFMin
  <1> QED BY <1>2, <1>3

LEMMA IterationsNat ==
  ASSUME NEW c \in Client, NEW n \in Node
  PROVE  LastOf(c, n) \in Nat /\ Len(CacheTrailOf(c, n)) \in Nat
  <1>1. Trail[n] \in Seq(Name) /\ n \in Name
    BY GraphAssumption
  <1>2. CacheTrailOf(c, n) \in Seq(Name)
    BY <1>1, AppendProperties, EmptySeq DEF CacheTrailOf
  <1>3. Len(CacheTrailOf(c, n)) \in Nat
    BY <1>2, LenProperties
  <1> QED BY <1>3, ClientAssumption DEF LastOf, MaxIterations

(* The last iteration keeps none of the caches. *)
LEMMA LastKeepsNone ==
  ASSUME NEW len \in Nat
  PROVE  Kept(len, MaxIterations(len)) = 0
  <1> DEFINE m == MaxIterations(len)
  <1>1. CASE len = 0
    BY <1>1 DEF Kept
  <1>2. CASE len # 0
    <2>1. m \in Nat /\ m > 0
      BY <1>2, ClientAssumption DEF MaxIterations
    <2> HIDE DEF m
    <2>2. (len * m + m - 1) \div m = len
      BY <2>1
    <2>3. Kept(len, m) = len - ((len * m + MaxIterations(len) - 1) \div MaxIterations(len))
      BY <1>2 DEF Kept
    <2> QED BY <2>1, <2>2, <2>3 DEF m
  <1> QED BY <1>1, <1>2

LEMMA LastUsesNoCache ==
  ASSUME NEW c \in Client, NEW n \in Node
  PROVE  CachingDependencies(c, n, LastOf(c, n)) = {}
  <1>1. Kept(Len(CacheTrailOf(c, n)), LastOf(c, n)) = 0
    BY IterationsNat, LastKeepsNone DEF LastOf
  <1>2. SubSeq(CacheTrailOf(c, n), 1, 0) = <<>>
    BY SubSeqEmpty
  <1>3. CachingDependencies(c, n, LastOf(c, n)) = ToSet(<<>>)
    BY <1>1, <1>2 DEF CachingDependencies
  <1> QED BY <1>3 DEF ToSet

-----------------------------------------------------------------------------
(* The places of a node.                                                   *)

LEMMA Arithmetic ==
  ASSUME NEW p \in Nat, NEW d \in Nat
  PROVE  /\ p + 1 \in Nat \ {0} /\ (p + 1) + d + 1 \in Nat \ {0}
         /\ p + 1 < (p + 1) + d + 1
         /\ \A k \in 1 .. ((p + 1) + d + 1) - 1 :
              /\ k < p + 1 => k \in 1 .. p
              /\ ~(k < p + 1) /\ k # p + 1 => k - (p + 1) \in 1 .. d
         /\ \A i \in 1 .. d :
              /\ (p + 1) + i \in (p + 1) + 1 .. ((p + 1) + d + 1) - 1
              /\ ~((p + 1) + i < p + 1)
              /\ ((p + 1) + i) - (p + 1) = i
         /\ \A i \in 1 .. p : i < p + 1 /\ i \in 1 .. (p + 1) - 1
  OBVIOUS

LEMMA Places ==
  ASSUME NEW n \in Node
  PROVE  /\ LookupAt(n) \in Nat \ {0} /\ CallAt(n) \in Nat \ {0}
         /\ LookupAt(n) < CallAt(n)
         /\ \A k \in 1 .. CallAt(n) - 1 : k # LookupAt(n) => NodeAt(n, k) \in Node
         /\ \A m \in ToSet(Dependencies[n]) :
              \E k \in LookupAt(n) + 1 .. CallAt(n) - 1 : NodeAt(n, k) = m
         /\ \A m \in ToSet(Preassertions[n]) :
              \E k \in 1 .. LookupAt(n) - 1 : NodeAt(n, k) = m
         /\ ToSet(Dependencies[n]) \subseteq Node
         /\ ToSet(Preassertions[n]) \subseteq Node
  <1> DEFINE p == Len(Preassertions[n])
             d == Len(Dependencies[n])
  <1>1. /\ Preassertions[n] \in Seq(Node) /\ Dependencies[n] \in Seq(Node)
        /\ p \in Nat /\ d \in Nat
    BY GraphAssumption, LenProperties
  <1>2. /\ \A k \in 1 .. p : Preassertions[n][k] \in Node
        /\ \A k \in 1 .. d : Dependencies[n][k] \in Node
    BY <1>1, ElementOfSeq
  <1>3. /\ ToSet(Dependencies[n]) = {Dependencies[n][i] : i \in 1 .. d}
        /\ ToSet(Preassertions[n]) = {Preassertions[n][i] : i \in 1 .. p}
    BY <1>1 DEF ToSet
  <1>4. LookupAt(n) = p + 1 /\ CallAt(n) = (p + 1) + d + 1
    BY DEF LookupAt, CallAt
  <1>5. \A k : NodeAt(n, k) = IF k < LookupAt(n) THEN Preassertions[n][k]
                                  ELSE Dependencies[n][k - LookupAt(n)]
    BY DEF NodeAt
  <1>6. p \in Nat /\ d \in Nat
    BY <1>1
  <1> HIDE DEF p, d
  <1>7. ASSUME NEW k \in 1 .. CallAt(n) - 1, k # LookupAt(n)
        PROVE  NodeAt(n, k) \in Node
    <2>1. CASE k < LookupAt(n)
      <3>1. k \in 1 .. p
        BY <1>4, <1>6, <1>7, <2>1, Arithmetic
      <3> QED BY <1>2, <1>5, <2>1, <3>1
    <2>2. CASE ~(k < LookupAt(n))
      <3>1. k - LookupAt(n) \in 1 .. d
        BY <1>4, <1>6, <1>7, <2>2, Arithmetic
      <3> QED BY <1>2, <1>5, <2>2, <3>1
    <2> QED BY <2>1, <2>2
  <1>8. ASSUME NEW m \in ToSet(Dependencies[n])
        PROVE  \E k \in LookupAt(n) + 1 .. CallAt(n) - 1 : NodeAt(n, k) = m
    <2>1. PICK i \in 1 .. d : m = Dependencies[n][i]
      BY <1>3, <1>8
    <2>2. /\ LookupAt(n) + i \in LookupAt(n) + 1 .. CallAt(n) - 1
          /\ ~(LookupAt(n) + i < LookupAt(n))
          /\ (LookupAt(n) + i) - LookupAt(n) = i
      BY <1>4, <1>6, <2>1, Arithmetic
    <2>3. NodeAt(n, LookupAt(n) + i) = m
      BY <1>5, <2>1, <2>2
    <2> QED BY <2>2, <2>3
  <1>9. ToSet(Dependencies[n]) \subseteq Node /\ ToSet(Preassertions[n]) \subseteq Node
    BY <1>2, <1>3
  <1>10. LookupAt(n) \in Nat \ {0} /\ CallAt(n) \in Nat \ {0} /\ LookupAt(n) < CallAt(n)
    BY <1>4, <1>6, Arithmetic
  <1>11. ASSUME NEW m \in ToSet(Preassertions[n])
         PROVE  \E k \in 1 .. LookupAt(n) - 1 : NodeAt(n, k) = m
    <2>1. PICK i \in 1 .. p : m = Preassertions[n][i]
      BY <1>3, <1>11
    <2>2. i < LookupAt(n) /\ i \in 1 .. LookupAt(n) - 1
      BY <1>4, <1>6, <2>1, Arithmetic
    <2> QED BY <1>5, <2>1, <2>2
  <1> QED BY <1>7, <1>8, <1>9, <1>10, <1>11

-----------------------------------------------------------------------------
(* The stack of a walk.                                                    *)

LEMMA FrameFields ==
  ASSUME NEW n \in Node, NEW k \in Nat \ {0}
  PROVE  /\ [node |-> n, next |-> k] \in Frame
         /\ [node |-> n, next |-> k].node = n
         /\ [node |-> n, next |-> k].next = k
  BY DEF Frame

LEMMA StackFrames ==
  ASSUME NEW s \in Seq(Frame)
  PROVE  /\ Len(s) \in Nat
         /\ \A i \in 1 .. Len(s) :
              s[i].node \in Node /\ s[i].next \in Nat \ {0}
         /\ Last(s) = s[Len(s)]
  <1>1. Len(s) \in Nat
    BY LenProperties
  <1>2. \A i \in 1 .. Len(s) : s[i] \in Frame
    BY ElementOfSeq
  <1> QED BY <1>1, <1>2 DEF Frame, Last

LEMMA AdvancedStack ==
  ASSUME NEW s \in Seq(Frame), Len(s) > 0
  PROVE  /\ Advance(s) \in Seq(Frame)
         /\ Len(Advance(s)) = Len(s)
         /\ \A i \in 1 .. Len(s) :
              /\ Advance(s)[i].node = s[i].node
              /\ Advance(s)[i].next = IF i = Len(s) THEN s[i].next + 1
                                      ELSE s[i].next
  <1> DEFINE l == Len(s)
             new == [s[l] EXCEPT !.next = s[l].next + 1]
  <1>1. l \in Nat /\ l \in 1 .. l /\ s[l] \in Frame
    BY StackFrames, ElementOfSeq
  <1>2. new \in Frame /\ new.node = s[l].node /\ new.next = s[l].next + 1
    BY <1>1 DEF Frame
  <1>3. Advance(s) = [s EXCEPT ![l] = new]
    BY DEF Advance, Last
  <1> HIDE DEF new
  <1>4. /\ [s EXCEPT ![l] = new] \in Seq(Frame)
        /\ Len([s EXCEPT ![l] = new]) = Len(s)
        /\ \A i \in 1 .. l : [s EXCEPT ![l] = new][i] = IF i = l THEN new ELSE s[i]
    BY <1>1, <1>2, ExceptSeq
  <1> QED BY <1>2, <1>3, <1>4

LEMMA FrontStack ==
  ASSUME NEW s \in Seq(Frame), Len(s) > 0
  PROVE  /\ Front(s) \in Seq(Frame)
         /\ Len(Front(s)) = Len(s) - 1
         /\ \A i \in 1 .. Len(s) - 1 : Front(s)[i] = s[i]
         /\ Front(s) = <<>> => Len(s) = 1
         /\ Front(s) # <<>> => Len(s) > 1
  <1> DEFINE l == Len(s) - 1
  <1>1. Len(s) \in Nat /\ l \in Nat /\ l \in Int /\ 1 \in Int
    BY LenProperties
  <1>2. \A i \in 1 .. l : s[i] \in Frame
    BY <1>1, ElementOfSeq
  <1>3. Front(s) = SubSeq(s, 1, l)
    BY DEF Front
  <1> HIDE DEF l
  <1>4. /\ SubSeq(s, 1, l) \in Seq(Frame)
        /\ Len(SubSeq(s, 1, l)) = IF 1 <= l THEN l - 1 + 1 ELSE 0
        /\ \A i \in 1 .. l - 1 + 1 : SubSeq(s, 1, l)[i] = s[1 + i - 1]
    BY <1>1, <1>2, SubSeqProperties
  <1>5. Len(Front(s)) = l /\ \A i \in 1 .. l : Front(s)[i] = s[i]
    BY <1>1, <1>3, <1>4
  <1>6. Front(s) = <<>> <=> l = 0
    BY <1>1, <1>3, <1>4, <1>5, EmptySeq
  <1> QED BY <1>1, <1>3, <1>4, <1>5, <1>6 DEF l

(* A walk begins with the frame of its target. *)
LEMMA StackBegins ==
  ASSUME NEW n \in Node
  PROVE  /\ <<[node |-> n, next |-> 1]>> \in Seq(Frame)
         /\ StackOK(<<[node |-> n, next |-> 1]>>, {}, n)
  <1> DEFINE f == [node |-> n, next |-> 1]
  <1>1. f \in Frame /\ f.node = n /\ f.next = 1
    BY FrameFields
  <1> HIDE DEF f
  <1>2. <<f>> \in Seq(Frame) /\ Len(<<f>>) = 1 /\ <<f>>[1] = f
    BY <1>1
  <1>3. 1 <= CallAt(n) /\ 1 .. 1 - 1 = {}
    BY Places
  <1>4. FrameOK(<<f>>, {}, 1)
    BY <1>1, <1>2, <1>3 DEF FrameOK
  <1>5. StackOK(<<f>>, {}, n)
    BY <1>1, <1>2, <1>4 DEF StackOK
  <1> QED BY <1>2, <1>5 DEF f

(* The node at the place of the last frame is begun. *)
LEMMA StackDescends ==
  ASSUME NEW s \in Seq(Frame), NEW done, NEW t, StackOK(s, done, t),
         Last(s).next # LookupAt(Last(s).node), Last(s).next # CallAt(Last(s).node)
  PROVE  LET f == [node |-> NodeAt(Last(s).node, Last(s).next), next |-> 1]
         IN  Append(s, f) \in Seq(Frame) /\ StackOK(Append(s, f), done, t)
  <1> DEFINE l == Len(s)
             m == NodeAt(Last(s).node, Last(s).next)
             f == [node |-> m, next |-> 1]
             r == Append(s, f)
  <1>1. /\ l \in Nat /\ l > 0 /\ l \in 1 .. l
        /\ \A i \in 1 .. l : s[i].node \in Node /\ s[i].next \in Nat \ {0}
        /\ Last(s) = s[l]
    BY StackFrames DEF StackOK
  <1>2. Last(s).next \in 1 .. CallAt(Last(s).node) - 1
    BY <1>1, Places DEF StackOK, FrameOK
  <1>3. m \in Node
    BY <1>1, <1>2, Places
  <1>4. f \in Frame /\ f.node = m /\ f.next = 1
    BY <1>3, FrameFields
  <1> HIDE DEF f
  <1>5. /\ r \in Seq(Frame) /\ Len(r) = l + 1
        /\ \A i \in 1 .. l : r[i] = s[i]
        /\ r[l + 1] = f
    BY <1>4, AppendProperties
  <1> HIDE DEF r, m
  <1>6. ASSUME NEW i \in 1 .. l PROVE FrameOK(r, done, i)
    <2>1. FrameOK(s, done, i) /\ r[i] = s[i]
      BY <1>5 DEF StackOK
    <2>2. CASE i = l
      <3>1. r[i + 1].node = NodeAt(r[i].node, r[i].next)
        BY <1>1, <1>4, <1>5, <2>1, <2>2 DEF m
      <3> QED BY <1>1, <2>1, <2>2, <3>1 DEF FrameOK
    <2>3. CASE i # l
      <3>1. i + 1 \in 1 .. l /\ i < l
        BY <1>1, <2>3
      <3>2. r[i + 1] = s[i + 1]
        BY <1>5, <3>1
      <3> QED BY <2>1, <3>1, <3>2 DEF FrameOK
    <2> QED BY <2>2, <2>3
  <1>7. FrameOK(r, done, l + 1)
    <2>1. 1 <= CallAt(m) /\ 1 .. 1 - 1 = {}
      BY <1>3, Places
    <2> QED BY <1>1, <1>4, <1>5, <2>1 DEF FrameOK
  <1>8. \A i \in 1 .. l + 1 : FrameOK(r, done, i)
    <2>1. \A i \in 1 .. l + 1 : i \in 1 .. l \/ i = l + 1
      BY <1>1
    <2> QED BY <1>6, <1>7, <2>1
  <1>9. r[1].node = t /\ Len(r) > 0
    BY <1>1, <1>5 DEF StackOK
  <1>10. StackOK(r, done, t)
    BY <1>5, <1>8, <1>9 DEF StackOK
  <1> QED BY <1>5, <1>10 DEF r, f, m

(* The look into the caches is over. *)
LEMMA StackAdvances ==
  ASSUME NEW s \in Seq(Frame), NEW done, NEW t, StackOK(s, done, t),
         Last(s).next = LookupAt(Last(s).node)
  PROVE  Advance(s) \in Seq(Frame) /\ StackOK(Advance(s), done, t)
  <1> DEFINE l == Len(s)
             r == Advance(s)
  <1>1. /\ l \in Nat /\ l > 0 /\ l \in 1 .. l /\ 1 \in 1 .. l
        /\ \A i \in 1 .. l : s[i].node \in Node /\ s[i].next \in Nat \ {0}
        /\ Last(s) = s[l]
    BY StackFrames DEF StackOK
  <1>2. /\ r \in Seq(Frame) /\ Len(r) = l
        /\ \A i \in 1 .. l :
             /\ r[i].node = s[i].node
             /\ r[i].next = IF i = l THEN s[i].next + 1 ELSE s[i].next
    BY <1>1, AdvancedStack
  <1> HIDE DEF r
  <1>3. ASSUME NEW i \in 1 .. l PROVE FrameOK(r, done, i)
    <2>1. FrameOK(s, done, i)
      BY DEF StackOK
    <2>2. CASE i = l
      <3>1. /\ r[i].node = s[l].node /\ r[i].next = LookupAt(s[l].node) + 1
            /\ s[l].node \in Node
        BY <1>1, <1>2, <2>2
      <3>2. LookupAt(s[l].node) \in Nat /\ r[i].next <= CallAt(s[l].node)
        BY <3>1, Places
      <3>3. ASSUME NEW j \in 1 .. r[i].next - 1, j # LookupAt(s[l].node)
            PROVE  NodeAt(s[l].node, j) \in done
        <4>1. j \in 1 .. s[l].next - 1
          BY <1>1, <3>1, <3>2, <3>3
        <4> QED BY <2>1, <2>2, <3>3, <4>1 DEF FrameOK
      <3> QED BY <1>1, <1>2, <2>2, <3>1, <3>2, <3>3 DEF FrameOK
    <2>3. CASE i # l
      <3>1. i + 1 \in 1 .. l /\ i < l
        BY <1>1, <2>3
      <3>2. /\ r[i].node = s[i].node /\ r[i].next = s[i].next
            /\ r[i + 1].node = s[i + 1].node
        BY <1>2, <2>3, <3>1
      <3> QED BY <1>2, <2>1, <3>1, <3>2 DEF FrameOK
    <2> QED BY <2>2, <2>3
  <1>4. r[1].node = t /\ Len(r) > 0
    BY <1>1, <1>2 DEF StackOK
  <1>5. StackOK(r, done, t)
    BY <1>2, <1>3, <1>4 DEF StackOK
  <1> QED BY <1>2, <1>5 DEF r

(* The last node returns to the one below it, if there is one. *)
LEMMA StackReturns ==
  ASSUME NEW s \in Seq(Frame), NEW done, NEW t, StackOK(s, done, t)
  PROVE  /\ Last(s).node \in Node
         /\ Front(s) = <<>> => Last(s).node = t
         /\ Front(s) # <<>> =>
              /\ Advance(Front(s)) \in Seq(Frame)
              /\ StackOK(Advance(Front(s)), done \cup {Last(s).node}, t)
  <1> DEFINE l == Len(s) - 1
             o == Front(s)
             r == Advance(o)
             more == done \cup {Last(s).node}
  <1>1. /\ Len(s) \in Nat /\ Len(s) > 0 /\ Len(s) = l + 1 /\ l \in Nat
        /\ \A i \in 1 .. Len(s) : s[i].node \in Node /\ s[i].next \in Nat \ {0}
        /\ Last(s) = s[Len(s)]
    BY StackFrames DEF StackOK
  <1>2. /\ o \in Seq(Frame) /\ Len(o) = l
        /\ \A i \in 1 .. l : o[i] = s[i]
        /\ o = <<>> => Len(s) = 1
        /\ o # <<>> => Len(s) > 1
    BY <1>1, FrontStack
  <1>3. Last(s).node \in Node
    BY <1>1
  <1>4. ASSUME o = <<>> PROVE Last(s).node = t
    BY <1>1, <1>2, <1>4 DEF StackOK
  <1>5. ASSUME o # <<>>
        PROVE  r \in Seq(Frame) /\ StackOK(r, more, t)
    <2>1. l > 0 /\ l \in 1 .. l /\ 1 \in 1 .. l
      BY <1>1, <1>2, <1>5
    <2>2. o \in Seq(Frame) /\ Len(o) = l /\ Len(o) > 0
      BY <1>2, <2>1
    <2> HIDE DEF o, l, more
    <2>3. /\ r \in Seq(Frame) /\ Len(r) = l
          /\ \A i \in 1 .. l :
               /\ r[i].node = o[i].node
               /\ r[i].next = IF i = l THEN o[i].next + 1 ELSE o[i].next
      BY <2>2, AdvancedStack
    <2> HIDE DEF r
    <2>4. /\ Last(s).node \in more /\ \A j \in done : j \in more
      BY DEF more
    <2>5. ASSUME NEW i \in 1 .. l PROVE FrameOK(r, more, i)
      <3> DEFINE n == s[i].node
                 k == s[i].next
      <3>1. /\ i \in 1 .. Len(s) /\ i < Len(s) /\ i + 1 \in 1 .. Len(s)
        BY <1>1
      <3>2. /\ n \in Node /\ k \in Nat \ {0}
        BY <1>1, <3>1
      <3>3. /\ k <= CallAt(n)
            /\ \A j \in 1 .. k - 1 : j # LookupAt(n) => NodeAt(n, j) \in done
            /\ k # LookupAt(n) /\ k # CallAt(n)
            /\ s[i + 1].node = NodeAt(n, k)
        BY <3>1 DEF StackOK, FrameOK
      <3>4. r[i].node = n /\ r[i].next = IF i = l THEN k + 1 ELSE k
        BY <1>2, <2>3
      <3> HIDE DEF n, k
      <3>5. LookupAt(n) \in Nat /\ CallAt(n) \in Nat
        BY <3>2, Places
      <3>6. CASE i = l
        <4>1. NodeAt(n, k) \in more
          BY <1>1, <2>4, <3>3, <3>6
        <4>2. k + 1 <= CallAt(n)
          BY <3>2, <3>3, <3>5
        <4>3. ASSUME NEW j \in 1 .. (k + 1) - 1, j # LookupAt(n)
              PROVE  NodeAt(n, j) \in more
          <5>1. j = k \/ j \in 1 .. k - 1
            BY <3>2, <3>5, <4>3
          <5> QED BY <2>4, <3>3, <4>1, <4>3, <5>1
        <4>4. r[i].next = k + 1 /\ ~(i < Len(r))
          BY <2>1, <2>3, <3>4, <3>6
        <4> QED BY <3>4, <4>2, <4>3, <4>4 DEF FrameOK
      <3>7. CASE i # l
        <4>1. i + 1 \in 1 .. l /\ r[i].next = k
          BY <1>1, <3>4, <3>7
        <4>2. r[i + 1].node = s[i + 1].node
          BY <1>2, <2>3, <4>1
        <4>3. \A j \in 1 .. k - 1 : j # LookupAt(n) => NodeAt(n, j) \in more
          BY <2>4, <3>3
        <4> QED BY <3>3, <3>4, <4>1, <4>2, <4>3 DEF FrameOK
      <3> QED BY <3>6, <3>7
    <2>6. r[1].node = t /\ Len(r) > 0
      BY <1>2, <2>1, <2>3 DEF StackOK
    <2>7. StackOK(r, more, t)
      BY <2>3, <2>5, <2>6 DEF StackOK
    <2> QED BY <2>3, <2>7
  <1> QED BY <1>3, <1>4, <1>5

(* From the look into the caches on, the preassertions have been           *)
(* evaluated, and when an evaluator is called, all that it depends on.     *)
LEMMA StackComplete ==
  ASSUME NEW s \in Seq(Frame), NEW done, NEW t, StackOK(s, done, t)
  PROVE  /\ Last(s).node \in Node
         /\ Last(s).next \in {LookupAt(Last(s).node), CallAt(Last(s).node)} =>
              ToSet(Preassertions[Last(s).node]) \subseteq done
         /\ Last(s).next = CallAt(Last(s).node) =>
              ToSet(Dependencies[Last(s).node]) \subseteq done
  <1> DEFINE l == Len(s)
             n == Last(s).node
             k == Last(s).next
  <1>1. /\ l \in Nat /\ l \in 1 .. l /\ Last(s) = s[l]
        /\ n \in Node
    BY StackFrames DEF StackOK
  <1>2. \A j \in 1 .. k - 1 : j # LookupAt(n) => NodeAt(n, j) \in done
    BY <1>1 DEF StackOK, FrameOK
  <1> HIDE DEF n, k
  <1>3. /\ LookupAt(n) \in Nat \ {0} /\ CallAt(n) \in Nat \ {0}
        /\ LookupAt(n) < CallAt(n)
    BY <1>1, Places
  <1>4. ASSUME k \in {LookupAt(n), CallAt(n)}, NEW m \in ToSet(Preassertions[n])
        PROVE  m \in done
    <2>1. PICK j \in 1 .. LookupAt(n) - 1 : NodeAt(n, j) = m
      BY <1>1, <1>4, Places
    <2>2. j \in 1 .. k - 1 /\ j # LookupAt(n)
      BY <1>3, <1>4
    <2> QED BY <1>2, <2>1, <2>2
  <1>5. ASSUME k = CallAt(n), NEW m \in ToSet(Dependencies[n])
        PROVE  m \in done
    <2>1. PICK j \in LookupAt(n) + 1 .. CallAt(n) - 1 : NodeAt(n, j) = m
      BY <1>1, <1>5, Places
    <2>2. j \in 1 .. k - 1 /\ j # LookupAt(n)
      BY <1>3, <1>5
    <2> QED BY <1>2, <2>1, <2>2
  <1> QED BY <1>1, <1>4, <1>5 DEF n, k

-----------------------------------------------------------------------------
(* What results say of the facts.                                          *)

LEMMA VersionsNat ==
  /\ Version \subseteq Nat
  /\ \A f \in Fact : LastVersion[f] \in Version
  /\ NoClaim \in Claim
  <1>1. \A f \in Fact : LastVersion[f] \in Nat
    BY FactAssumption
  <1>2. \A f \in Fact : LastVersion[f] \in 0 .. LastVersion[f]
    BY <1>1
  <1>3. Version \subseteq Nat
    BY <1>1 DEF Version
  <1>4. \A f \in Fact : LastVersion[f] \in Version
    BY <1>2 DEF Version
  <1>5. LastVersion \in [Fact -> Version]
    BY <1>4, FactAssumption
  <1> QED BY <1>3, <1>4, <1>5 DEF NoClaim, Claim

(* Known is the least of what the dependencies say, or says nothing. *)
LEMMA KnownIsLeast ==
  ASSUME NEW c \in Client, NEW n \in Node, NEW f \in Fact,
         ev[c].about \in [Node -> Claim]
  PROVE  LET versions == {ev[c].about[m][f] : m \in ToSet(Dependencies[n])}
         IN  /\ Known(c, n, f) \in versions \cup {LastVersion[f]}
             /\ \A w \in versions : Known(c, n, f) <= w
             /\ Known(c, n, f) \in Version
  <1> DEFINE versions == {ev[c].about[m][f] : m \in ToSet(Dependencies[n])}
             all == versions \cup {LastVersion[f]}
  <1>1. versions \subseteq Version
    BY Places DEF Claim
  <1>2. all \subseteq Version /\ all \subseteq Nat /\ all # {}
    BY <1>1, VersionsNat
  <1>3. Known(c, n, f) = CHOOSE v \in all : \A w \in versions : v <= w
    BY DEF Known
  <1>4. versions \subseteq all
    OBVIOUS
  <1> HIDE DEF versions, all
  <1>5. \E v \in all : \A w \in all : v <= w
    BY <1>2, MinExists
  <1>6. \E v \in all : \A w \in versions : v <= w
    BY <1>4, <1>5
  <1>7. /\ Known(c, n, f) \in all
        /\ \A w \in versions : Known(c, n, f) <= w
    BY <1>3, <1>6
  <1> QED BY <1>2, <1>7 DEF versions, all

LEMMA ResultIsClaim ==
  ASSUME NEW c \in Client, NEW n \in Node,
         ev[c].about \in [Node -> Claim], world \in [Fact -> Version]
  PROVE  ResultOf(c, n) \in Claim
  <1>1. \A f \in Fact : /\ world[f] \in Version /\ LastVersion[f] \in Version
                        /\ Known(c, n, f) \in Version
    BY KnownIsLeast, VersionsNat
  <1> QED BY <1>1 DEF ResultOf, Claim

(* From results that are true, the truth is known. *)
LEMMA KnownIsWorld ==
  ASSUME NEW c \in Client, NEW n \in Node, NEW f \in Fact,
         ev[c].about \in [Node -> Claim], world \in [Fact -> Version],
         \A g \in Fact : world[g] <= LastVersion[g],
         \A m \in ToSet(Dependencies[n]) : Current(world, m, ev[c].about[m]),
         f \in Judges[n] \cup Calls[n] \cup (Carries[n] \ Reads[n])
  PROVE  Known(c, n, f) = world[f]
  <1> DEFINE versions == {ev[c].about[m][f] : m \in ToSet(Dependencies[n])}
             k == Known(c, n, f)
             wf == world[f]
             lf == LastVersion[f]
  <1>1. PICK m \in ToSet(Dependencies[n]) : f \in Claims(m)
    BY InformedAssumption
  <1>2. ev[c].about[m][f] = wf
    BY <1>1 DEF Current
  <1>3. wf \in versions
    BY <1>1, <1>2
  <1>4. \A v \in versions : v = wf \/ v = lf
    BY DEF Current
  <1>5. /\ k \in versions \cup {lf} /\ k <= wf /\ k \in Nat
    BY <1>3, KnownIsLeast, VersionsNat
  <1>6. wf \in Nat /\ lf \in Nat /\ wf <= lf
    BY VersionsNat
  <1>7. k = wf \/ k = lf
    BY <1>4, <1>5
  <1> HIDE DEF k, wf, lf
  <1>8. k = wf
    BY <1>5, <1>6, <1>7
  <1> QED BY <1>8 DEF k, wf

LEMMA ResultIsCurrent ==
  ASSUME NEW c \in Client, NEW n \in Node,
         ev[c].about \in [Node -> Claim], world \in [Fact -> Version],
         \A g \in Fact : world[g] <= LastVersion[g],
         \A m \in ToSet(Dependencies[n]) : Current(world, m, ev[c].about[m])
  PROVE  Current(world, n, ResultOf(c, n))
  <1>1. ASSUME NEW f \in Fact, f \in Carries[n] \ Reads[n]
        PROVE  Known(c, n, f) = world[f]
    BY <1>1, KnownIsWorld
  <1>2. ASSUME NEW f \in Fact
        PROVE  ResultOf(c, n)[f] = IF f \in Claims(n) THEN world[f] ELSE LastVersion[f]
    <2>1. ResultOf(c, n)[f] = IF f \in Reads[n] THEN world[f]
                              ELSE IF f \in Carries[n] THEN Known(c, n, f)
                              ELSE LastVersion[f]
      BY DEF ResultOf
    <2> QED BY <1>1, <2>1 DEF Claims
  <1> QED BY <1>2 DEF Current

(* Then an evaluator throws for nothing but a bad status. *)
LEMMA RefusedHasReason ==
  ASSUME NEW c \in Client, NEW n \in Node,
         ev[c].about \in [Node -> Claim], world \in [Fact -> Version],
         \A g \in Fact : world[g] <= LastVersion[g],
         \A m \in ToSet(Dependencies[n]) : Current(world, m, ev[c].about[m]),
         Refused(c, n)
  PROVE  ~Healthy
  <1>1. \A f \in Judges[n] \cup Calls[n] : f \in Fact
    BY FactAssumption DEF Fact
  <1>2. \A f \in Judges[n] \cup Calls[n] : Known(c, n, f) = world[f]
    BY <1>1, KnownIsWorld
  <1>3. PICK f \in Judges[n] : world[f] % 2 # 0
    BY <1>2 DEF Refused
  <1>4. f \in Status
    BY FactAssumption
  <1> QED BY <1>3, <1>4 DEF Healthy

-----------------------------------------------------------------------------
(* The states of an evaluation.                                            *)

LEMMA EvaluationFields ==
  ASSUME NEW e \in Evaluation
  PROVE  /\ e.pc \in {"idle", "run", "store", "use", "ok", "failed"}
         /\ e.target \in Node /\ e.iteration \in Nat /\ e.done \subseteq Node
         /\ e.about \in [Node -> Claim] /\ e.stack \in Seq(Frame)
         /\ e.hold \in Claim /\ e.excused \in BOOLEAN
  BY DEF Evaluation

LEMMA NothingSaid == [m \in Node |-> NoClaim] \in [Node -> Claim]
  BY VersionsNat

(* An iteration begins well. *)
LEMMA WalkIsGood ==
  ASSUME NEW w, NEW c \in Client, NEW n \in Node, NEW i \in Nat,
         i <= LastOf(c, n)
  PROVE  Sound(c, Walk(n, i)) /\ Trusts(w, c, Walk(n, i))
  <1> DEFINE s == <<[node |-> n, next |-> 1]>>
             e == Walk(n, i)
  <1>1. s \in Seq(Frame) /\ StackOK(s, {}, n)
    BY StackBegins
  <1> HIDE DEF s
  <1>2. NoClaim \in Claim
    BY VersionsNat
  <1>3. /\ e \in Evaluation
        /\ e.pc = "run" /\ e.target = n /\ e.iteration = i /\ e.done = {}
        /\ e.stack = s
    <2>1. e = Begin("run", n, i, s, NoClaim, FALSE)
      BY DEF Walk, s
    <2>2. "run" \in {"idle", "run", "store", "use", "ok", "failed"} /\ FALSE \in BOOLEAN
      OBVIOUS
    <2> HIDE DEF e
    <2> QED BY <1>1, <1>2, <2>1, <2>2, NothingSaid DEF Begin, Evaluation
  <1> HIDE DEF e
  <1>4. Sound(c, e)
    BY <1>1, <1>3 DEF Sound
  <1>5. Trusts(w, c, e)
    BY <1>3 DEF Trusts
  <1> QED BY <1>4, <1>5 DEF e

(* It ends well: with a result that has still to be used, or for good. *)
LEMMA LeaveIsGood ==
  ASSUME NEW w, NEW c \in Client, NEW e \in Evaluation, Sound(c, e),
         NEW pc \in {"use", "ok", "failed"}, NEW hold \in Claim,
         NEW excused \in BOOLEAN, e.excused => excused
  PROVE  /\ Sound(c, Leave(e, pc, hold, excused))
         /\ (pc = "use" /\ Strict(c, e) => Current(w, e.target, hold))
              => Trusts(w, c, Leave(e, pc, hold, excused))
         /\ Leave(e, pc, hold, excused).pc = pc
         /\ Leave(e, pc, hold, excused).excused = excused
  <1> DEFINE i == IF pc = "use" THEN e.iteration ELSE 0
             r == Leave(e, pc, hold, excused)
  <1>1. i \in Nat /\ i <= LastOf(c, e.target) /\ e.target \in Node
    BY EvaluationFields, IterationsNat DEF Sound
  <1>2. r = Begin(pc, e.target, i, <<>>, hold, excused)
    BY DEF Leave
  <1>3. pc = "use" => i = e.iteration
    OBVIOUS
  <1> HIDE DEF i
  <1>4. <<>> \in Seq(Frame)
    OBVIOUS
  <1>5. /\ r \in Evaluation
        /\ r.pc = pc /\ r.target = e.target /\ r.iteration = i
        /\ r.hold = hold /\ r.excused = excused
    <2>1. pc \in {"idle", "run", "store", "use", "ok", "failed"}
      OBVIOUS
    <2> HIDE DEF r
    <2> QED BY <1>1, <1>2, <1>4, <2>1, NothingSaid DEF Begin, Evaluation
  <1> HIDE DEF r
  <1>6. Sound(c, r)
    BY <1>1, <1>5 DEF Sound, Walking
  <1>7. ASSUME pc = "use" /\ Strict(c, e) => Current(w, e.target, hold)
        PROVE  Trusts(w, c, r)
    <2>1. SUFFICES ASSUME Strict(c, r)
                   PROVE  /\ ~Walking(r) /\ r.pc # "store"
                          /\ r.pc = "use" => Current(w, r.target, r.hold)
      BY DEF Trusts
    <2>2. ~Walking(r) /\ r.pc # "store"
      BY <1>5 DEF Walking
    <2>3. ASSUME r.pc = "use" PROVE Current(w, r.target, r.hold)
      <3>1. pc = "use" /\ Strict(c, e)
        BY <1>3, <1>5, <2>1, <2>3, EvaluationFields DEF Strict
      <3>2. Current(w, e.target, hold)
        BY <1>7, <3>1
      <3> QED BY <1>5, <3>2
    <2> QED BY <2>2, <2>3
  <1> QED BY <1>5, <1>6, <1>7 DEF r

(* An excuse changes nothing else, and with one nothing is trusted. *)
LEMMA ExcusedIsGood ==
  ASSUME NEW w, NEW c \in Client, NEW e \in Evaluation, Sound(c, e),
         NEW excused \in BOOLEAN, excused \/ e.pc \notin {"run", "store", "use"}
  PROVE  /\ Sound(c, [e EXCEPT !.excused = excused])
         /\ Trusts(w, c, [e EXCEPT !.excused = excused])
  <1> DEFINE r == [e EXCEPT !.excused = excused]
  <1>1. /\ r \in Evaluation
        /\ r.pc = e.pc /\ r.target = e.target /\ r.iteration = e.iteration
        /\ r.done = e.done /\ r.about = e.about /\ r.stack = e.stack
        /\ r.hold = e.hold /\ r.excused = excused
    BY DEF Evaluation
  <1> HIDE DEF r
  <1>2. Sound(c, r)
    BY <1>1 DEF Sound, Walking
  <1>3. Trusts(w, c, r)
    BY <1>1 DEF Trusts, Strict, Walking
  <1> QED BY <1>2, <1>3 DEF r

(* A walk whose stack alone has changed goes on. *)
LEMMA StackIsGood ==
  ASSUME NEW w, NEW c \in Client, NEW e \in Evaluation, Sound(c, e),
         Trusts(w, c, e), e.pc = "run",
         NEW stack \in Seq(Frame), StackOK(stack, e.done, e.target)
  PROVE  /\ Sound(c, [e EXCEPT !.stack = stack])
         /\ Trusts(w, c, [e EXCEPT !.stack = stack])
  <1> DEFINE r == [e EXCEPT !.stack = stack]
  <1>1. /\ r \in Evaluation
        /\ r.pc = "run" /\ r.target = e.target /\ r.iteration = e.iteration
        /\ r.done = e.done /\ r.about = e.about /\ r.stack = stack
        /\ r.excused = e.excused
    BY DEF Evaluation
  <1> HIDE DEF r
  <1>2. Sound(c, r)
    BY <1>1 DEF Sound
  <1>3. Trusts(w, c, r)
    BY <1>1 DEF Trusts, Strict, Walking
  <1> QED BY <1>2, <1>3 DEF r

(* A result is held until it is stored. *)
LEMMA HoldIsGood ==
  ASSUME NEW w, NEW c \in Client, NEW e \in Evaluation, Sound(c, e),
         Trusts(w, c, e), e.pc = "run", NEW hold \in Claim,
         Strict(c, e) => Current(w, Last(e.stack).node, hold)
  PROVE  /\ Sound(c, [e EXCEPT !.pc = "store", !.hold = hold])
         /\ Trusts(w, c, [e EXCEPT !.pc = "store", !.hold = hold])
  <1> DEFINE r == [e EXCEPT !.pc = "store", !.hold = hold]
  <1>1. /\ r \in Evaluation
        /\ r.pc = "store" /\ r.target = e.target /\ r.iteration = e.iteration
        /\ r.done = e.done /\ r.about = e.about /\ r.stack = e.stack
        /\ r.excused = e.excused /\ r.hold = hold
    BY DEF Evaluation
  <1> HIDE DEF r
  <1>2. Sound(c, r)
    BY <1>1 DEF Sound, Walking
  <1>3. Trusts(w, c, r)
    BY <1>1 DEF Trusts, Strict, Walking
  <1> QED BY <1>2, <1>3 DEF r

(* A result is remembered, and the node that needs it goes on. *)
LEMMA ReturnIsGood ==
  ASSUME NEW w, NEW c \in Client, NEW e \in Evaluation, Sound(c, e),
         Walking(e), NEW n, n = Last(e.stack).node, NEW about \in Claim
  PROVE  /\ Sound(c, Return(e, n, about))
         /\ Return(e, n, about).pc # "failed"
         /\ Trusts(w, c, e) /\ (Strict(c, e) => Current(w, n, about))
              => Trusts(w, c, Return(e, n, about))
  <1> DEFINE outer == Front(e.stack)
             r == Return(e, n, about)
  <1>1. /\ e.target \in Node /\ e.stack \in Seq(Frame) /\ e.excused \in BOOLEAN
        /\ StackOK(e.stack, e.done, e.target) /\ NoClaim \in Claim
    BY EvaluationFields, VersionsNat DEF Sound
  <1>2. /\ n \in Node
        /\ outer = <<>> => n = e.target
        /\ outer # <<>> =>
             /\ Advance(outer) \in Seq(Frame)
             /\ StackOK(Advance(outer), e.done \cup {n}, e.target)
    BY <1>1, StackReturns
  <1>3. CASE outer = <<>> /\ Forwards[e.target] = {}
    <2>1. r = Leave(e, "ok", NoClaim, e.excused)
      BY <1>3 DEF Return
    <2>2. "ok" \in {"use", "ok", "failed"} /\ "ok" # "use" /\ "ok" # "failed"
      OBVIOUS
    <2> HIDE DEF r
    <2>3. Sound(c, r) /\ Trusts(w, c, r) /\ r.pc # "failed"
      BY <1>1, <2>1, <2>2, LeaveIsGood
    <2> QED BY <2>3 DEF r
  <1>4. CASE outer = <<>> /\ Forwards[e.target] # {}
    <2>1. r = Leave(e, "use", about, e.excused)
      BY <1>4 DEF Return
    <2>2. "use" \in {"use", "ok", "failed"} /\ "use" # "failed"
      OBVIOUS
    <2> HIDE DEF r
    <2>3. /\ Sound(c, r) /\ r.pc # "failed"
          /\ (Strict(c, e) => Current(w, e.target, about)) => Trusts(w, c, r)
      BY <1>1, <2>1, <2>2, LeaveIsGood
    <2> QED BY <1>2, <1>4, <2>3 DEF r
  <1>5. CASE outer # <<>>
    <2> DEFINE stack == Advance(outer)
               done == e.done \cup {n}
    <2>1. r = [e EXCEPT !.pc = "run", !.done = done, !.about[n] = about,
                        !.hold = NoClaim, !.stack = stack]
      BY <1>5 DEF Return
    <2>2. stack \in Seq(Frame) /\ StackOK(stack, done, e.target)
      BY <1>2, <1>5
    <2>3. done \subseteq Node /\ e.about \in [Node -> Claim]
      BY <1>2, EvaluationFields
    <2> DEFINE said == [e.about EXCEPT ![n] = about]
    <2>4. /\ said \in [Node -> Claim] /\ said[n] = about
          /\ \A m \in Node : m # n => said[m] = e.about[m]
      BY <1>2, <2>3
    <2>5. r = [e EXCEPT !.pc = "run", !.done = done, !.about = said,
                        !.hold = NoClaim, !.stack = stack]
      BY <2>1
    <2> HIDE DEF stack, done, said
    <2>6. /\ r \in Evaluation
          /\ r.pc = "run" /\ r.target = e.target /\ r.iteration = e.iteration
          /\ r.done = done /\ r.about = said /\ r.stack = stack
          /\ r.excused = e.excused
      BY <1>1, <2>2, <2>3, <2>4, <2>5 DEF Evaluation
    <2> HIDE DEF r
    <2>7. Sound(c, r)
      BY <2>2, <2>6 DEF Sound
    <2>8. ASSUME Trusts(w, c, e), Strict(c, e) => Current(w, n, about)
          PROVE  Trusts(w, c, r)
      <3>1. SUFFICES ASSUME Strict(c, r), NEW m \in r.done
                     PROVE  Current(w, m, r.about[m])
        BY <2>6 DEF Trusts
      <3>2. Strict(c, e)
        BY <2>6, <3>1 DEF Strict
      <3>3. CASE m = n
        BY <2>4, <2>6, <2>8, <3>2, <3>3
      <3>4. CASE m # n
        <4>1. m \in e.done /\ m \in Node
          BY <2>3, <2>6, <3>1, <3>4 DEF done
        <4>2. Current(w, m, e.about[m])
          BY <2>8, <3>2, <4>1 DEF Trusts
        <4> QED BY <2>4, <2>6, <3>4, <4>1, <4>2
      <3> QED BY <3>3, <3>4
    <2> QED BY <2>6, <2>7, <2>8 DEF r
  <1> QED BY <1>3, <1>4, <1>5

(* The next iteration, or none. *)
LEMMA FailIsGood ==
  ASSUME NEW w, NEW c \in Client, ev[c] \in Evaluation, Sound(c, ev[c]),
         NEW excused \in BOOLEAN
  PROVE  /\ Sound(c, Fail(c, excused)) /\ Trusts(w, c, Fail(c, excused))
         /\ Fail(c, excused).pc = "failed" =>
              Fail(c, excused).excused \/ (Strict(c, ev[c]) /\ ~excused)
  <1> DEFINE e == ev[c]
             r == Fail(c, excused)
             last == LastIteration(c)
  <1>1. /\ e.target \in Node /\ e.iteration \in Nat /\ e.excused \in BOOLEAN
        /\ NoClaim \in Claim /\ e.iteration <= LastOf(c, e.target)
    BY EvaluationFields, VersionsNat DEF Sound
  <1>2. LastIteration(c) = LastOf(c, e.target) /\ LastOf(c, e.target) \in Nat
    BY <1>1, IterationsNat DEF LastIteration, LastOf
  <1>3. CASE e.iteration < LastIteration(c)
    <2>1. r = Walk(e.target, e.iteration + 1)
      BY <1>3 DEF Fail
    <2>2. e.iteration + 1 \in Nat /\ e.iteration + 1 <= LastOf(c, e.target)
      BY <1>1, <1>2, <1>3
    <2>3. Sound(c, r) /\ Trusts(w, c, r)
      BY <1>1, <2>1, <2>2, WalkIsGood
    <2>4. r.pc = "run"
      BY <2>1 DEF Walk, Begin
    <2> QED BY <2>3, <2>4
  <1>4. CASE ~(e.iteration < LastIteration(c))
    <2>1. r = Leave(e, "failed", NoClaim, e.excused \/ excused)
      BY <1>4 DEF Fail
    <2>2. "failed" \in {"use", "ok", "failed"} /\ "failed" # "use"
      OBVIOUS
    <2> DEFINE x == e.excused \/ excused
    <2>3. x \in BOOLEAN /\ (e.excused => x) /\ (excused => x)
      BY <1>1
    <2>4. r = Leave(e, "failed", NoClaim, x)
      BY <2>1
    <2>5. e \in Evaluation /\ Sound(c, e)
      OBVIOUS
    <2> HIDE DEF r, x, e
    <2>6. Sound(c, r) /\ Trusts(w, c, r) /\ r.excused = x
      BY <1>1, <2>2, <2>3, <2>4, <2>5, LeaveIsGood
    <2>7. e.iteration = LastOf(c, e.target)
      BY <1>1, <1>2, <1>4
    <2>8. r.excused \/ (Strict(c, e) /\ ~excused)
      <3>1. CASE x = TRUE
        <4>1. r.excused = TRUE
          BY <2>6, <3>1
        <4> QED BY <4>1
      <3>2. CASE x = FALSE
        <4>1. ~e.excused /\ ~excused
          BY <2>3, <3>2
        <4> QED BY <2>7, <4>1 DEF Strict
      <3> QED BY <2>3, <3>1, <3>2
    <2> QED BY <2>6, <2>8 DEF r, e
  <1> QED BY <1>3, <1>4

-----------------------------------------------------------------------------
(* The steps of one client.                                                *)

(* What is left when an evaluation has made a step: it is sound, and has   *)
(* not failed without a reason.                                            *)
Good(c, e) ==
  /\ Sound(c, e) /\ Trusts(world, c, e)
  /\ e.pc = "failed" => e.excused \/ ~Healthy

GoodStep(c) == \E e : Evaluates(c, e) /\ Good(c, e)

LEMMA InvariantOfOne ==
  ASSUME IInv, NEW c \in Client
  PROVE  /\ ev[c] \in Evaluation /\ Sound(c, ev[c]) /\ Trusts(world, c, ev[c])
         /\ ev[c].about \in [Node -> Claim] /\ ev[c].target \in Node
         /\ ev[c].excused \in BOOLEAN /\ ev[c].stack \in Seq(Frame)
         /\ ev[c].hold \in Claim /\ ev[c].done \subseteq Node
         /\ Top(c) = Last(ev[c].stack)
         /\ Walking(ev[c]) => StackOK(ev[c].stack, ev[c].done, ev[c].target)
         /\ world \in [Fact -> Version] /\ cache \in [Node -> Entry]
         /\ \A g \in Fact : world[g] <= LastVersion[g]
  <1>1. ev[c] \in Evaluation /\ Sound(c, ev[c]) /\ Trusts(world, c, ev[c])
    BY DEF IInv, TypeOK
  <1>2. /\ world \in [Fact -> Version] /\ cache \in [Node -> Entry]
        /\ \A g \in Fact : world[g] <= LastVersion[g]
    BY DEF IInv, TypeOK
  <1> QED BY <1>1, <1>2, EvaluationFields DEF Top, Sound

LEMMA StartGood ==
  ASSUME IInv, NEW c \in Client, NEW n \in Target[c], Start(c, n)
  PROVE  GoodStep(c)
  <1>1. n \in Node /\ 0 <= LastOf(c, n)
    BY ClientAssumption, IterationsNat
  <1>2. Sound(c, Walk(n, 0)) /\ Trusts(world, c, Walk(n, 0))
    BY <1>1, WalkIsGood
  <1>3. Walk(n, 0).pc # "failed"
    BY DEF Walk, Begin
  <1>4. Good(c, Walk(n, 0))
    BY <1>2, <1>3 DEF Good
  <1> QED BY <1>4 DEF Start, GoodStep

LEMMA DescendGood ==
  ASSUME IInv, NEW c \in Client, Descend(c)
  PROVE  GoodStep(c)
  <1> DEFINE e == ev[c]
             f == [node |-> NodeAt(Last(e.stack).node, Last(e.stack).next),
                   next |-> 1]
             r == [e EXCEPT !.stack = Append(e.stack, f)]
  <1>1. /\ e \in Evaluation /\ Sound(c, e) /\ Trusts(world, c, e)
        /\ e.stack \in Seq(Frame) /\ Top(c) = Last(e.stack) /\ e.pc = "run"
        /\ StackOK(e.stack, e.done, e.target)
    BY InvariantOfOne DEF Descend, Walking
  <1>2. /\ Last(e.stack).next # LookupAt(Last(e.stack).node)
        /\ Last(e.stack).next # CallAt(Last(e.stack).node)
        /\ Evaluates(c, r)
    BY <1>1 DEF Descend, AtLookup, AtCall
  <1>3. /\ Append(e.stack, f) \in Seq(Frame)
        /\ StackOK(Append(e.stack, f), e.done, e.target)
    BY <1>1, <1>2, StackDescends
  <1>4. r.pc = "run"
    BY <1>1 DEF Evaluation
  <1> HIDE DEF e, f
  <1>5. Sound(c, r) /\ Trusts(world, c, r)
    BY <1>1, <1>3, StackIsGood
  <1>6. Good(c, r)
    BY <1>4, <1>5 DEF Good
  <1> QED BY <1>2, <1>6 DEF GoodStep

(* The last iteration is served from no cache that it may do without. *)
LEMMA ServedHasExcuse ==
  ASSUME NEW c \in Client, NEW n, ev[c] \in Evaluation, ServedEnabled(c, n)
  PROVE  ~Strict(c, ev[c])
  <1>1. SUFFICES ASSUME ev[c].iteration = LastOf(c, ev[c].target)
                 PROVE  FALSE
    BY DEF Strict
  <1>2. CachingDependencies(c, ev[c].target, ev[c].iteration) = {}
    BY <1>1, EvaluationFields, LastUsesNoCache
  <1> QED BY <1>2 DEF ServedEnabled

LEMMA LookupGood ==
  ASSUME IInv, NEW c \in Client, Lookup(c)
  PROVE  GoodStep(c)
  <1> DEFINE e == ev[c]
             n == Top(c).node
  <1>1. /\ e \in Evaluation /\ Sound(c, e) /\ Trusts(world, c, e)
        /\ e.stack \in Seq(Frame) /\ Top(c) = Last(e.stack) /\ e.pc = "run"
        /\ StackOK(e.stack, e.done, e.target)
        /\ e.about \in [Node -> Claim] /\ e.done \subseteq Node
        /\ cache \in [Node -> Entry] /\ Walking(e)
    BY InvariantOfOne DEF Lookup, AtLookup, Walking
  <1>2. n \in Node /\ n = Last(e.stack).node
    BY <1>1, StackReturns
  <1>3. cache[n].about \in Claim /\ e.about[n] \in Claim
    BY <1>1, <1>2 DEF Entry
  <1>4. CASE n \in e.done
    <2> DEFINE r == Return(e, n, e.about[n])
    <2>1. Evaluates(c, r)
      BY <1>4 DEF Lookup
    <2>2. Strict(c, e) => Current(world, n, e.about[n])
      BY <1>1, <1>4 DEF Trusts
    <2> HIDE DEF e, n
    <2>3. Sound(c, r) /\ Trusts(world, c, r) /\ r.pc # "failed"
      BY <1>1, <1>2, <1>3, <2>2, ReturnIsGood
    <2>4. Good(c, r)
      BY <2>3 DEF Good
    <2> QED BY <2>1, <2>4 DEF GoodStep
  <1>5. CASE n \notin e.done /\ ServedFresh(n)
    <2> DEFINE b == Return(e, n, cache[n].about)
               r == [b EXCEPT !.excused = TRUE]
    <2>1. Evaluates(c, r)
      BY <1>5 DEF Lookup
    <2> HIDE DEF e, n
    <2>2. Sound(c, b) /\ b.pc # "failed"
      BY <1>1, <1>2, <1>3, ReturnIsGood
    <2> HIDE DEF b
    <2>3. b \in Evaluation /\ TRUE \in BOOLEAN
      BY <2>2 DEF Sound
    <2>4. Sound(c, r) /\ Trusts(world, c, r)
      BY <2>2, <2>3, ExcusedIsGood
    <2>5. r.excused
      BY <2>3 DEF Evaluation
    <2>6. Good(c, r)
      BY <2>4, <2>5 DEF Good
    <2> QED BY <2>1, <2>6 DEF GoodStep
  <1>6. CASE n \notin e.done /\ ~ServedFresh(n) /\ ServedEnabled(c, n)
    <2> DEFINE r == Return(e, n, cache[n].about)
    <2>1. Evaluates(c, r)
      BY <1>6 DEF Lookup
    <2>2. ~Strict(c, e)
      BY <1>1, <1>6, ServedHasExcuse
    <2> HIDE DEF e, n
    <2>3. Sound(c, r) /\ Trusts(world, c, r) /\ r.pc # "failed"
      BY <1>1, <1>2, <1>3, <2>2, ReturnIsGood
    <2>4. Good(c, r)
      BY <2>3 DEF Good
    <2> QED BY <2>1, <2>4 DEF GoodStep
  <1>7. CASE n \notin e.done /\ ~ServedFresh(n) /\ ~ServedEnabled(c, n)
    <2> DEFINE r == [e EXCEPT !.stack = Advance(e.stack)]
    <2>1. Evaluates(c, r)
      BY <1>7 DEF Lookup
    <2>2. Last(e.stack).next = LookupAt(Last(e.stack).node)
      BY <1>1 DEF Lookup, AtLookup
    <2>3. /\ Advance(e.stack) \in Seq(Frame)
          /\ StackOK(Advance(e.stack), e.done, e.target)
      BY <1>1, <2>2, StackAdvances
    <2>4. r.pc = "run"
      BY <1>1 DEF Evaluation
    <2> HIDE DEF e, n
    <2>5. Sound(c, r) /\ Trusts(world, c, r)
      BY <1>1, <2>3, StackIsGood
    <2>6. Good(c, r)
      BY <2>4, <2>5 DEF Good
    <2> QED BY <2>1, <2>6 DEF GoodStep
  <1> QED BY <1>4, <1>5, <1>6, <1>7

(* A failed iteration is good if it had an excuse, or must have one. *)
LEMMA FailGood ==
  ASSUME IInv, NEW c \in Client, NEW excused \in BOOLEAN,
         Evaluates(c, Fail(c, excused)),
         Strict(c, ev[c]) /\ ~excused => ~Healthy
  PROVE  GoodStep(c)
  <1> DEFINE r == Fail(c, excused)
  <1>1. ev[c] \in Evaluation /\ Sound(c, ev[c])
    BY InvariantOfOne
  <1>2. /\ Sound(c, r) /\ Trusts(world, c, r)
        /\ r.pc = "failed" => r.excused \/ (Strict(c, ev[c]) /\ ~excused)
    BY <1>1, FailIsGood
  <1> HIDE DEF r
  <1>3. Good(c, r)
    BY <1>2 DEF Good
  <1> QED BY <1>3 DEF GoodStep, r

(* When an evaluator is called, its dependencies have been evaluated. *)
LEMMA AtCallComplete ==
  ASSUME IInv, NEW c \in Client, AtCall(c)
  PROVE  /\ Top(c).node \in Node /\ Top(c).node = Last(ev[c].stack).node
         /\ ev[c].pc = "run"
         /\ Strict(c, ev[c]) =>
              \A m \in ToSet(Dependencies[Top(c).node]) :
                Current(world, m, ev[c].about[m])
  <1>1. /\ Trusts(world, c, ev[c]) /\ Top(c) = Last(ev[c].stack)
        /\ ev[c].stack \in Seq(Frame) /\ ev[c].pc = "run" /\ Walking(ev[c])
        /\ StackOK(ev[c].stack, ev[c].done, ev[c].target)
    BY InvariantOfOne DEF AtCall, Walking
  <1>2. Last(ev[c].stack).next = CallAt(Last(ev[c].stack).node)
    BY <1>1 DEF AtCall
  <1>3. /\ Top(c).node \in Node
        /\ ToSet(Dependencies[Top(c).node]) \subseteq ev[c].done
    BY <1>1, <1>2, StackComplete
  <1> QED BY <1>1, <1>3 DEF Trusts

LEMMA ThrowGood ==
  ASSUME IInv, NEW c \in Client, Throw(c)
  PROVE  GoodStep(c)
  <1> DEFINE n == Top(c).node
  <1>1. /\ n \in Node
        /\ Strict(c, ev[c]) =>
             \A m \in ToSet(Dependencies[n]) : Current(world, m, ev[c].about[m])
    BY AtCallComplete DEF Throw
  <1>2. Refused(c, n) /\ Evaluates(c, Fail(c, FALSE))
    BY DEF Throw
  <1>3. /\ ev[c].about \in [Node -> Claim] /\ world \in [Fact -> Version]
        /\ \A g \in Fact : world[g] <= LastVersion[g]
    BY InvariantOfOne
  <1> HIDE DEF n
  <1>4. Strict(c, ev[c]) => ~Healthy
    BY <1>1, <1>2, <1>3, RefusedHasReason
  <1> QED BY <1>2, <1>4, FailGood

LEMMA CallGood ==
  ASSUME IInv, NEW c \in Client, Call(c)
  PROVE  GoodStep(c)
  <1> DEFINE e == ev[c]
             n == Top(c).node
             about == ResultOf(c, n)
  <1>1. /\ n \in Node /\ n = Last(e.stack).node /\ e.pc = "run" /\ Walking(e)
        /\ Strict(c, e) =>
             \A m \in ToSet(Dependencies[n]) : Current(world, m, e.about[m])
    BY AtCallComplete DEF Call, Walking
  <1>2. /\ e \in Evaluation /\ Sound(c, e) /\ Trusts(world, c, e)
        /\ e.about \in [Node -> Claim] /\ world \in [Fact -> Version]
        /\ \A g \in Fact : world[g] <= LastVersion[g]
    BY InvariantOfOne
  <1>3. about \in Claim
    BY <1>1, <1>2, ResultIsClaim
  <1>4. Strict(c, e) => Current(world, n, about)
    BY <1>1, <1>2, ResultIsCurrent
  <1>5. CASE n \in Cached
    <2> DEFINE r == [e EXCEPT !.pc = "store", !.hold = about]
    <2>1. Evaluates(c, r)
      BY <1>5 DEF Call
    <2> HIDE DEF e, n, about
    <2>2. Sound(c, r) /\ Trusts(world, c, r)
      BY <1>1, <1>2, <1>3, <1>4, HoldIsGood
    <2>3. r.pc # "failed"
      BY <1>2 DEF Evaluation
    <2>4. Good(c, r)
      BY <2>2, <2>3 DEF Good
    <2> QED BY <2>1, <2>4 DEF GoodStep
  <1>6. CASE n \notin Cached
    <2> DEFINE r == Return(e, n, about)
    <2>1. Evaluates(c, r)
      BY <1>6 DEF Call
    <2> HIDE DEF e, n, about
    <2>2. Sound(c, r) /\ Trusts(world, c, r) /\ r.pc # "failed"
      BY <1>1, <1>2, <1>3, <1>4, ReturnIsGood
    <2>3. Good(c, r)
      BY <2>2 DEF Good
    <2> QED BY <2>1, <2>3 DEF GoodStep
  <1> QED BY <1>5, <1>6

LEMMA StoreGood ==
  ASSUME IInv, NEW c \in Client, Store(c) \/ StoreFails(c)
  PROVE  GoodStep(c) /\ Top(c).node \in Node /\ ev[c].hold \in Claim
  <1> DEFINE e == ev[c]
             n == Top(c).node
             r == Return(e, n, e.hold)
  <1>1. e.pc = "store" /\ Evaluates(c, r)
    BY DEF Store, StoreFails
  <1>2. /\ e \in Evaluation /\ Sound(c, e) /\ Trusts(world, c, e)
        /\ e.hold \in Claim /\ Walking(e) /\ n = Last(e.stack).node
        /\ e.stack \in Seq(Frame) /\ StackOK(e.stack, e.done, e.target)
    BY <1>1, InvariantOfOne DEF Walking
  <1>3. n \in Node
    BY <1>2, StackReturns
  <1>4. Strict(c, e) => Current(world, n, e.hold)
    BY <1>1, <1>2 DEF Trusts
  <1>5. Sound(c, r) /\ Trusts(world, c, r) /\ r.pc # "failed"
    BY <1>2, <1>4, ReturnIsGood
  <1> HIDE DEF r
  <1>6. Good(c, r)
    BY <1>5 DEF Good
  <1> QED BY <1>1, <1>2, <1>3, <1>6 DEF GoodStep

LEMMA InvalidGood ==
  ASSUME IInv, NEW c \in Client, Invalid(c)
  PROVE  GoodStep(c)
  <1> DEFINE e == ev[c]
  <1>1. e.pc = "use" /\ OutOfDate(c) /\ Evaluates(c, Fail(c, FALSE))
    BY DEF Invalid
  <1>2. Trusts(world, c, e) /\ e.target \in Node
    BY InvariantOfOne
  <1>3. ASSUME Strict(c, e) PROVE FALSE
    <2>1. Current(world, e.target, e.hold)
      BY <1>1, <1>2, <1>3 DEF Trusts
    <2>2. PICK f \in Forwards[e.target] : e.hold[f] # world[f]
      BY <1>1 DEF OutOfDate
    <2>3. f \in Claims(e.target) /\ f \in Fact
      BY <1>2, <2>2, InformedAssumption
    <2> QED BY <2>1, <2>2, <2>3 DEF Current
  <1> QED BY <1>1, <1>3, FailGood

LEMMA ValidGood ==
  ASSUME IInv, NEW c \in Client, Valid(c)
  PROVE  GoodStep(c)
  <1> DEFINE e == ev[c]
             r == Leave(e, "ok", NoClaim, e.excused)
  <1>1. Evaluates(c, r)
    BY DEF Valid
  <1>2. /\ e \in Evaluation /\ Sound(c, e) /\ e.excused \in BOOLEAN
        /\ NoClaim \in Claim
    BY InvariantOfOne, VersionsNat
  <1>3. "ok" \in {"use", "ok", "failed"} /\ "ok" # "use" /\ "ok" # "failed"
    OBVIOUS
  <1>4. Sound(c, r) /\ Trusts(world, c, r) /\ r.pc # "failed"
    BY <1>2, <1>3, LeaveIsGood
  <1> HIDE DEF r
  <1>5. Good(c, r)
    BY <1>4 DEF Good
  <1> QED BY <1>1, <1>5 DEF GoodStep

-----------------------------------------------------------------------------
(* All clients, and what happens around them.                              *)

FailsWithReason ==
  \A c \in Client :
    Running(c) /\ ev'[c].pc = "failed" => ev'[c].excused \/ ~Healthy

AllGood(w) ==
  /\ ev' \in [Client -> Evaluation]
  /\ \A c \in Client : Sound(c, ev'[c]) /\ Trusts(w, c, ev'[c])

(* Who has made no step is as good as before. *)
LEMMA OneStepIsGood ==
  ASSUME IInv, NEW c \in Client, GoodStep(c)
  PROVE  AllGood(world) /\ FailsWithReason
  <1>1. PICK e : ev' = [ev EXCEPT ![c] = e] /\ Good(c, e)
    BY DEF GoodStep, Evaluates
  <1>2. /\ ev \in [Client -> Evaluation] /\ e \in Evaluation
        /\ Sound(c, e) /\ Trusts(world, c, e)
        /\ e.pc = "failed" => e.excused \/ ~Healthy
    BY <1>1 DEF Good, Sound, IInv, TypeOK
  <1>3. \A d \in Client : Sound(d, ev[d]) /\ Trusts(world, d, ev[d])
    BY DEF IInv
  <1>4. ASSUME NEW d \in Client
        PROVE  /\ Sound(d, ev'[d]) /\ Trusts(world, d, ev'[d])
               /\ Running(d) /\ ev'[d].pc = "failed" => ev'[d].excused \/ ~Healthy
    <2>1. CASE d = c
      <3>1. ev'[d] = e
        BY <1>1, <1>2, <2>1
      <3> QED BY <1>2, <2>1, <3>1
    <2>2. CASE d # c
      <3>1. ev'[d] = ev[d]
        BY <1>1, <1>2, <2>2
      <3> QED BY <1>3, <3>1 DEF Running
    <2> QED BY <2>1, <2>2
  <1>5. ev' \in [Client -> Evaluation]
    BY <1>1, <1>2
  <1> QED BY <1>4, <1>5 DEF AllGood, FailsWithReason

LEMMA OlderIsAge ==
  ASSUME NEW age \in Age, NEW limit \in Nat, limit <= AgeCap
  PROVE  Older(age, limit) \in Age
  BY GraphAssumption DEF Older, Age

LEMMA ChangeGood ==
  ASSUME IInv, NEW f \in Fact, Change(f)
  PROVE  AllGood(world') /\ FailsWithReason
  <1>1. ev \in [Client -> Evaluation]
    BY DEF IInv, TypeOK
  <1>2. ev' = [c \in Client |-> [ev[c] EXCEPT !.excused = ev[c].excused \/ Running(c)]]
    BY DEF Change
  <1>3. ASSUME NEW c \in Client
        PROVE  /\ Sound(c, ev'[c]) /\ Trusts(world', c, ev'[c])
               /\ ev'[c] \in Evaluation
               /\ Running(c) /\ ev'[c].pc = "failed" => ev'[c].excused \/ ~Healthy
    <2> DEFINE e == ev[c]
               x == e.excused \/ Running(c)
               r == [e EXCEPT !.excused = x]
    <2>1. ev'[c] = r
      BY <1>2
    <2>2. e \in Evaluation /\ Sound(c, e)
      BY InvariantOfOne
    <2>3. x \in BOOLEAN /\ (x \/ e.pc \notin {"run", "store", "use"})
      BY <2>2 DEF Running
    <2>4. Running(c) => x
      OBVIOUS
    <2>5. r.pc = e.pc
      BY <2>2 DEF Evaluation
    <2>6. Running(c) => e.pc # "failed"
      BY DEF Running
    <2> HIDE DEF e, x
    <2>7. Sound(c, r) /\ Trusts(world', c, r)
      BY <2>2, <2>3, ExcusedIsGood
    <2>8. r \in Evaluation
      BY <2>7 DEF Sound
    <2> QED BY <2>1, <2>5, <2>6, <2>7, <2>8
  <1>4. ev' \in [Client -> Evaluation]
    <2>1. ev' = [c \in Client |-> ev'[c]]
      BY <1>2
    <2> QED BY <1>3, <2>1
  <1> QED BY <1>3, <1>4 DEF AllGood, FailsWithReason

LEMMA InitIInv == Init => IInv
  <1> SUFFICES ASSUME Init PROVE IInv
    OBVIOUS
  <1>1. NoClaim \in Claim /\ \A f \in Fact : 0 \in Version /\ 0 <= LastVersion[f]
    <2>1. \A f \in Fact : LastVersion[f] \in Nat /\ 0 \in 0 .. LastVersion[f]
      BY FactAssumption
    <2> QED BY <2>1, VersionsNat DEF Version
  <1>2. 0 \in Age
    BY GraphAssumption DEF Age
  <1>3. cache \in [Node -> Entry] /\ world \in [Fact -> Version]
        /\ badFor \in [Fact -> Age]
    BY <1>1, <1>2 DEF Init, Entry
  <1>4. changes \in 0 .. MaxChanges /\ failures \in 0 .. MaxFailures
    BY FactAssumption DEF Init
  <1>5. ASSUME NEW c \in Client
        PROVE  /\ ev[c] \in Evaluation /\ ev[c].pc = "idle"
               /\ ev[c].iteration <= LastOf(c, ev[c].target)
    <2> DEFINE n == CHOOSE n \in Target[c] : TRUE
               e == Begin("idle", n, 0, <<>>, NoClaim, FALSE)
    <2>1. n \in Node
      BY ClientAssumption
    <2>2. ev[c] = e
      BY DEF Init
    <2>3. <<>> \in Seq(Frame)
      OBVIOUS
    <2> HIDE DEF n
    <2>4. /\ e \in Evaluation /\ e.pc = "idle" /\ e.iteration = 0
          /\ e.target = n
      BY <1>1, <2>1, <2>3, NothingSaid DEF Begin, Evaluation
    <2>5. 0 <= LastOf(c, n)
      BY <2>1, IterationsNat
    <2> HIDE DEF e
    <2> QED BY <2>2, <2>4, <2>5
  <1>6. ev \in [Client -> Evaluation]
    <2>1. ev = [c \in Client |-> ev[c]]
      BY DEF Init
    <2> QED BY <1>5, <2>1
  <1>7. \A c \in Client : Sound(c, ev[c]) /\ Trusts(world, c, ev[c])
    BY <1>5 DEF Sound, Trusts, Walking
  <1>8. \A f \in Fact : world[f] <= LastVersion[f]
    BY <1>1 DEF Init
  <1> QED BY <1>3, <1>4, <1>6, <1>7, <1>8 DEF IInv, TypeOK

(* Who asks, is asked, or fails. *)
LEMMA StepsAreGood ==
  ASSUME IInv, NEW c \in Client,
         \/ \E n \in Target[c] : Start(c, n)
         \/ Step(c) \/ CallFails(c) \/ StoreFails(c) \/ ForwardFails(c)
  PROVE  GoodStep(c)
  <1>1. ASSUME CallFails(c) \/ ForwardFails(c) PROVE GoodStep(c)
    <2>1. Evaluates(c, Fail(c, TRUE)) /\ TRUE \in BOOLEAN
      BY <1>1 DEF CallFails, ForwardFails
    <2> QED BY <2>1, FailGood
  <1> QED
    BY <1>1, StartGood, DescendGood, LookupGood, ThrowGood, CallGood,
       StoreGood, InvalidGood, ValidGood DEF Step

LEMMA StepKeepsRest ==
  ASSUME IInv, NEW c \in Client,
         \/ \E n \in Target[c] : Start(c, n)
         \/ Step(c) \/ CallFails(c) \/ StoreFails(c) \/ ForwardFails(c)
  PROVE  /\ cache' \in [Node -> Entry] /\ failures' \in 0 .. MaxFailures
         /\ UNCHANGED <<world, badFor, changes>>
  <1>1. /\ cache \in [Node -> Entry] /\ failures \in 0 .. MaxFailures
        /\ MaxFailures \in Nat
    BY FactAssumption DEF IInv, TypeOK
  <1>2. ASSUME Store(c)
        PROVE  cache' \in [Node -> Entry]
    <2>1. Top(c).node \in Node /\ ev[c].hold \in Claim
      BY <1>2, StoreGood
    <2>2. 0 \in Age
      BY GraphAssumption DEF Age
    <2>3. [in |-> TRUE, age |-> 0, about |-> ev[c].hold] \in Entry
      BY <2>1, <2>2 DEF Entry
    <2> QED BY <1>1, <1>2, <2>1, <2>3 DEF Store
  <1>3. \/ UNCHANGED cache
        \/ Store(c)
    BY DEF Start, Step, Descend, Lookup, Throw, Call, Invalid, Valid,
           CallFails, StoreFails, ForwardFails
  <1>4. UNCHANGED failures \/ (failures < MaxFailures /\ failures' = failures + 1)
    BY DEF Start, Step, Descend, Lookup, Throw, Call, Store, Invalid, Valid,
           CallFails, StoreFails, ForwardFails
  <1>5. failures' \in 0 .. MaxFailures
    BY <1>1, <1>4
  <1>6. UNCHANGED <<world, badFor, changes>>
    BY DEF Start, Step, Descend, Lookup, Throw, Call, Store, Invalid, Valid,
           CallFails, StoreFails, ForwardFails
  <1> QED BY <1>1, <1>2, <1>3, <1>5, <1>6

LEMMA NextIInv == IInv /\ [Next]_vars => IInv' /\ FailsWithReason
  <1> SUFFICES ASSUME IInv, [Next]_vars PROVE IInv' /\ FailsWithReason
    OBVIOUS
  <1>1. /\ cache \in [Node -> Entry] /\ world \in [Fact -> Version]
        /\ badFor \in [Fact -> Age] /\ ev \in [Client -> Evaluation]
        /\ changes \in 0 .. MaxChanges /\ failures \in 0 .. MaxFailures
        /\ \A f \in Fact : world[f] <= LastVersion[f]
        /\ \A c \in Client : Sound(c, ev[c]) /\ Trusts(world, c, ev[c])
    BY DEF IInv, TypeOK
  <1>2. SUFFICES
          /\ cache' \in [Node -> Entry] /\ world' \in [Fact -> Version]
          /\ badFor' \in [Fact -> Age]
          /\ changes' \in 0 .. MaxChanges /\ failures' \in 0 .. MaxFailures
          /\ \A f \in Fact : world'[f] <= LastVersion[f]
          /\ AllGood(world') /\ FailsWithReason
    BY DEF IInv, TypeOK, AllGood
  <1>3. ASSUME NEW c \in Client,
               \/ \E n \in Target[c] : Start(c, n)
               \/ Step(c) \/ CallFails(c) \/ StoreFails(c) \/ ForwardFails(c)
        PROVE  <1>2!1
    <2>1. AllGood(world) /\ FailsWithReason
      BY <1>3, StepsAreGood, OneStepIsGood
    <2>2. /\ cache' \in [Node -> Entry] /\ failures' \in 0 .. MaxFailures
          /\ UNCHANGED <<world, badFor, changes>>
      BY <1>3, StepKeepsRest
    <2> QED BY <1>1, <2>1, <2>2
  <1>4. ASSUME NEW f \in Fact, Change(f)
        PROVE  <1>2!1
    <2>1. AllGood(world') /\ FailsWithReason
      BY <1>4, ChangeGood
    <2>2. /\ cache' = cache /\ failures' = failures
          /\ world' = [world EXCEPT ![f] = world[f] + 1]
          /\ world[f] < LastVersion[f]
          /\ badFor' = [badFor EXCEPT ![f] = 0]
          /\ changes' = changes + 1 /\ changes < MaxChanges
      BY <1>4 DEF Change
    <2>3. world[f] \in Version /\ LastVersion[f] \in Version
      BY <1>1, VersionsNat
    <2>4. world[f] \in Nat /\ LastVersion[f] \in Nat /\ 0 \in Age
      <3>1. 0 \in Age
        BY GraphAssumption DEF Age
      <3> QED BY <2>3, <3>1, VersionsNat
    <2>5. world[f] + 1 \in 0 .. LastVersion[f] /\ world[f] + 1 <= LastVersion[f]
      BY <2>2, <2>4
    <2>6. world[f] + 1 \in Version
      BY <2>5 DEF Version
    <2>7. world' \in [Fact -> Version] /\ badFor' \in [Fact -> Age]
      BY <1>1, <2>2, <2>4, <2>6
    <2>8. \A g \in Fact : world'[g] <= LastVersion[g]
      BY <1>1, <2>2, <2>5
    <2>9. changes' \in 0 .. MaxChanges
      BY <1>1, <2>2, FactAssumption
    <2> QED BY <1>1, <2>1, <2>2, <2>7, <2>8, <2>9
  <1>5. ASSUME Tick PROVE <1>2!1
    <2>1. UNCHANGED <<world, ev, changes, failures>>
      BY <1>5 DEF Tick
    <2>2. AllGood(world') /\ FailsWithReason
      BY <1>1, <1>5, <2>1 DEF AllGood, FailsWithReason, Tick
    <2>3. ASSUME NEW n \in Node
          PROVE  (IF cache[n].in
                  THEN [cache[n] EXCEPT !.age = Older(cache[n].age, TooOld(n))]
                  ELSE cache[n]) \in Entry
      <3>1. cache[n] \in Entry /\ cache[n].age \in Age
        BY <1>1 DEF Entry
      <3>2. TooOld(n) \in Nat /\ TooOld(n) <= AgeCap
        BY GraphAssumption DEF TooOld
      <3>3. Older(cache[n].age, TooOld(n)) \in Age
        BY <3>1, <3>2, OlderIsAge
      <3> QED BY <3>1, <3>3 DEF Entry
    <2>4. cache' \in [Node -> Entry]
      BY <1>5, <2>3 DEF Tick
    <2>5. ASSUME NEW f \in Fact
          PROVE  (IF f \in Status /\ world[f] % 2 # 0
                  THEN Older(badFor[f], AgeCap) ELSE 0) \in Age
      <3>1. badFor[f] \in Age /\ AgeCap \in Nat /\ AgeCap <= AgeCap /\ 0 \in Age
        BY <1>1, GraphAssumption DEF Age
      <3> QED BY <3>1, OlderIsAge
    <2>6. badFor' \in [Fact -> Age]
      BY <1>5, <2>5 DEF Tick
    <2> QED BY <1>1, <2>1, <2>2, <2>4, <2>6
  <1>6. ASSUME UNCHANGED vars PROVE <1>2!1
    <2>1. AllGood(world') /\ FailsWithReason
      BY <1>1, <1>6 DEF vars, AllGood, FailsWithReason, Running
    <2> QED BY <1>1, <1>6, <2>1 DEF vars
  <1> QED BY <1>3, <1>4, <1>5, <1>6 DEF Next

(* The variables keep their types, for every graph of dependencies, number *)
(* of clients, and bound on what changes and fails.                        *)
THEOREM TypeCorrect == Spec => []TypeOK
  <1>1. IInv => TypeOK
    BY DEF IInv
  <1> QED BY InitIInv, NextIInv, <1>1, PTL DEF Spec

(* An evaluation that gives up does so for a reason: in its last iteration *)
(* no stale copy is left to mislead it, whatever is cached where.          *)
THEOREM StaleCopiesHeal == Spec => FailureHasReason
  <1>1. IInv /\ [Next]_vars => [\A c \in Client :
             Running(c) /\ ev'[c].pc = "failed" => ev'[c].excused \/ ~Healthy]_vars
    BY NextIInv DEF FailsWithReason
  <1> QED BY InitIInv, NextIInv, <1>1, PTL DEF Spec, FailureHasReason
-----------------------------------------------------------------------------
(* How late a bad status is noticed.  Of a world w and the ticks b for     *)
(* which its statuses have been bad, a result of n never tells a version   *)
(* that is still to come.                                                  *)
Tells(w, n, a) ==
  \A f \in Fact : IF f \in Claims(n) THEN a[f] <= w[f] ELSE a[f] = LastVersion[f]

(* What it tells is not out of date by more than its delay, and will not   *)
(* be for another s ticks.                                                 *)
Recent(b, n, a, s) ==
  \A f \in DOMAIN Delay[n] : a[f] % 2 = 0 => b[f] + s <= Delay[n][f]

(* It vouches for the statuses: now; and for another s ticks for those     *)
(* that no preassertion vouches for.                                       *)
Vouches(b, n) == \A f \in DOMAIN Unnoticed[n] : b[f] <= Unnoticed[n][f]
VouchesOn(b, n, s) ==
  \A f \in DOMAIN Unnoticed[n] :
    ~AssertedBefore(n, f) => b[f] + s <= Unnoticed[n][f]

Lasts(w, b, n, a, s) == Tells(w, n, a) /\ Recent(b, n, a, s) /\ VouchesOn(b, n, s)
Believed(w, b, n, a) == Tells(w, n, a) /\ Recent(b, n, a, 0) /\ Vouches(b, n)

Told(w, b, e) ==
  /\ Walking(e) => \A m \in e.done : Believed(w, b, m, e.about[m])
  /\ e.pc = "store" =>
       /\ Lasts(w, b, Last(e.stack).node, e.hold, Served(Last(e.stack).node))
       /\ Vouches(b, Last(e.stack).node)
  /\ e.pc = "use" => Vouches(b, e.target)

BadForBad(w, b) == \A f \in Fact : b[f] # 0 => f \in Status /\ w[f] % 2 # 0

CacheDated(w, b, ca) ==
  \A n \in Node : ca[n].in =>
    /\ Tells(w, n, ca[n].about)
    /\ ca[n].age < TooOld(n) =>
         Lasts(w, b, n, ca[n].about, Served(n) - ca[n].age)

NInv ==
  /\ IInv
  /\ BadForBad(world, badFor)
  /\ CacheDated(world, badFor, cache)
  /\ \A c \in Client : Told(world, badFor, ev[c])

-----------------------------------------------------------------------------
(* The ages.                                                               *)

LEMMA AgesNat ==
  ASSUME NEW n \in Node
  PROVE  /\ MinAge[n] \in Nat /\ MaxAge[n] \in Nat
         /\ TooOld(n) \in Nat /\ Served(n) \in Nat
         /\ n \in Cached => Served(n) = TooOld(n) - 1
  BY GraphAssumption DEF TooOld, Served

(* What is served from a cache of results that expire is not too old. *)
LEMMA ServedInTime ==
  ASSUME NEW c, NEW n \in Node, ServedFresh(n) \/ ServedEnabled(c, n),
         cache[n].age \in Nat, Expires(n)
  PROVE  cache[n].age < TooOld(n) /\ n \in Cached /\ cache[n].in
  BY AgesNat DEF ServedFresh, ServedEnabled, TooFresh, Expired, TooOld, Expires

LEMMA DelayFacts ==
  ASSUME NEW n \in Node, NEW f \in DOMAIN Delay[n]
  PROVE  /\ f \in Fact /\ f \in Status /\ f \in Claims(n) /\ Expires(n)
         /\ Delay[n][f] \in Nat
         /\ f \in Reads[n] => Served(n) <= Delay[n][f]
         /\ f \notin Reads[n] =>
              \A m \in ToSet(Dependencies[n]) :
                f \in Claims(m) => /\ f \in DOMAIN Delay[m]
                                  /\ Delay[m][f] + Served(n) <= Delay[n][f]
  BY DelayAssumption DEF Fact

LEMMA UnnoticedFacts ==
  ASSUME NEW n \in Node, NEW f \in DOMAIN Unnoticed[n]
  PROVE  /\ f \in Fact /\ f \in Status /\ Unnoticed[n][f] \in Nat
         /\ \/ AssertedBefore(n, f)
            \/ Expires(n) /\ (VouchedFor(n, f) \/ Judged(n, f))
  BY UnnoticedAssumption DEF Fact

(* Time that passes makes less of what lasts. *)
LEMMA LastsLess ==
  ASSUME NEW w, NEW b \in [Fact -> Age], NEW n \in Node, NEW a,
         NEW s \in Int, NEW t \in Int, t <= s, Lasts(w, b, n, a, s)
  PROVE  Lasts(w, b, n, a, t)
  <1>1. \A f \in Fact : b[f] \in Nat
    BY GraphAssumption DEF Age
  <1>2. Recent(b, n, a, t)
    <2>1. SUFFICES ASSUME NEW f \in DOMAIN Delay[n], a[f] % 2 = 0
                   PROVE  b[f] + t <= Delay[n][f]
      BY DEF Recent
    <2>2. b[f] + s <= Delay[n][f]
      BY <2>1 DEF Lasts, Recent
    <2>3. b[f] \in Nat /\ Delay[n][f] \in Nat
      BY <1>1, DelayFacts
    <2> QED BY <2>2, <2>3
  <1>3. VouchesOn(b, n, t)
    <2>1. SUFFICES ASSUME NEW f \in DOMAIN Unnoticed[n], ~AssertedBefore(n, f)
                   PROVE  b[f] + t <= Unnoticed[n][f]
      BY DEF VouchesOn
    <2>2. b[f] + s <= Unnoticed[n][f]
      BY <2>1 DEF Lasts, VouchesOn
    <2>3. b[f] \in Nat /\ Unnoticed[n][f] \in Nat
      BY <1>1, UnnoticedFacts
    <2> QED BY <2>2, <2>3
  <1> QED BY <1>2, <1>3 DEF Lasts

(* A result that is taken from the cache, or has just been made, is        *)
(* believed if the preassertions of its node are.                          *)
LEMMA LastsIsBelieved ==
  ASSUME NEW w, NEW b \in [Fact -> Age], NEW n \in Node, NEW a,
         NEW s \in Nat, Lasts(w, b, n, a, s),
         \A m \in ToSet(Preassertions[n]) : Vouches(b, m)
  PROVE  Believed(w, b, n, a)
  <1>1. \A f \in Fact : b[f] \in Nat
    BY GraphAssumption DEF Age
  <1>2. Lasts(w, b, n, a, 0)
    BY LastsLess
  <1>3. ASSUME NEW f \in DOMAIN Unnoticed[n]
        PROVE  b[f] <= Unnoticed[n][f]
    <2>1. b[f] \in Nat /\ Unnoticed[n][f] \in Nat
      BY <1>1, UnnoticedFacts
    <2>2. CASE ~AssertedBefore(n, f)
      <3>1. b[f] + 0 <= Unnoticed[n][f]
        BY <1>2, <2>2 DEF Lasts, VouchesOn
      <3> QED BY <2>1, <3>1
    <2>3. CASE AssertedBefore(n, f)
      <3>1. PICK m \in ToSet(Preassertions[n]) :
              f \in DOMAIN Unnoticed[m] /\ Unnoticed[m][f] <= Unnoticed[n][f]
        BY <2>3 DEF AssertedBefore
      <3>2. m \in Node
        BY Places
      <3>3. b[f] <= Unnoticed[m][f] /\ Unnoticed[m][f] \in Nat
        BY <3>1, <3>2, UnnoticedFacts DEF Vouches
      <3> QED BY <2>1, <3>1, <3>3
    <2> QED BY <2>2, <2>3
  <1> QED BY <1>2, <1>3 DEF Believed, Lasts, Vouches

(* If a node's results do not expire, nothing is asked of them but that    *)
(* they tell no version to come.                                           *)
LEMMA NotExpiring ==
  ASSUME NEW w, NEW b, NEW n \in Node, NEW a, NEW s, ~Expires(n), Tells(w, n, a)
  PROVE  Lasts(w, b, n, a, s)
  <1>1. Recent(b, n, a, s)
    BY DelayFacts DEF Recent
  <1>2. VouchesOn(b, n, s)
    BY UnnoticedFacts DEF VouchesOn
  <1> QED BY <1>1, <1>2 DEF Lasts

LEMMA ServedLasts ==
  ASSUME NEW c, NEW n \in Node, ServedFresh(n) \/ ServedEnabled(c, n),
         cache[n] \in Entry, badFor \in [Fact -> Age],
         CacheDated(world, badFor, cache)
  PROVE  Lasts(world, badFor, n, cache[n].about, 0)
  <1>1. cache[n].age \in Nat /\ cache[n].in
    BY GraphAssumption DEF Entry, Age, ServedFresh, ServedEnabled
  <1>2. Tells(world, n, cache[n].about)
    BY <1>1 DEF CacheDated
  <1>3. CASE ~Expires(n)
    BY <1>2, <1>3, NotExpiring
  <1>4. CASE Expires(n)
    <2>1. cache[n].age < TooOld(n) /\ n \in Cached
      BY <1>1, <1>4, ServedInTime
    <2>2. Lasts(world, badFor, n, cache[n].about, Served(n) - cache[n].age)
      BY <1>1, <2>1 DEF CacheDated
    <2>3. Served(n) - cache[n].age \in Int /\ 0 <= Served(n) - cache[n].age
      BY <1>1, <2>1, AgesNat
    <2> QED BY <2>2, <2>3, LastsLess
  <1> QED BY <1>3, <1>4

-----------------------------------------------------------------------------
(* What an evaluator makes of what it is told.                             *)

(* What is known of a fact is what some dependency has told. *)
LEMMA KnownFrom ==
  ASSUME NEW c \in Client, NEW n \in Node, NEW f \in Fact,
         ev[c].about \in [Node -> Claim], world \in [Fact -> Version],
         \A g \in Fact : world[g] <= LastVersion[g],
         \A m \in ToSet(Dependencies[n]) : Tells(world, m, ev[c].about[m]),
         f \in Judges[n] \cup Calls[n] \cup (Carries[n] \ Reads[n])
  PROVE  /\ Known(c, n, f) <= world[f]
         /\ \E m \in ToSet(Dependencies[n]) :
              f \in Claims(m) /\ ev[c].about[m][f] = Known(c, n, f)
  <1> DEFINE deps == ToSet(Dependencies[n])
             versions == {ev[c].about[m][f] : m \in deps}
             k == Known(c, n, f)
             wf == world[f]
             lf == LastVersion[f]
  <1>1. PICK m \in deps : f \in Claims(m)
    BY InformedAssumption
  <1>2. /\ k \in versions \cup {lf} /\ k \in Nat
        /\ \A v \in versions : k <= v
    BY KnownIsLeast, VersionsNat
  <1>3. ev[c].about[m][f] <= wf /\ ev[c].about[m][f] \in versions
    BY <1>1 DEF Tells
  <1>4. wf \in Nat /\ lf \in Nat /\ wf <= lf
    BY VersionsNat
  <1>5. m \in Node /\ ev[c].about[m] \in Claim
    BY <1>1, Places
  <1>6. ev[c].about[m][f] \in Nat
    BY <1>5, VersionsNat DEF Claim
  <1> DEFINE am == ev[c].about[m][f]
  <1>7. am \in versions /\ am <= wf /\ am \in Nat
    BY <1>3, <1>6
  <1> HIDE DEF k, wf, lf, am, versions
  <1>8. k <= am /\ k <= wf
    BY <1>2, <1>4, <1>7
  <1>9. ASSUME k # am
        PROVE  \E d \in deps : f \in Claims(d) /\ ev[c].about[d][f] = k
    <2>1. k # lf
      BY <1>2, <1>4, <1>8, <1>9, <1>7
    <2>2. PICK d \in deps : ev[c].about[d][f] = k
      BY <1>2, <2>1 DEF versions
    <2>3. f \in Claims(d)
      BY <2>1, <2>2 DEF Tells, lf
    <2> QED BY <2>2, <2>3
  <1>10. \E d \in deps : f \in Claims(d) /\ ev[c].about[d][f] = k
    BY <1>1, <1>9 DEF am
  <1> QED BY <1>8, <1>10 DEF k, wf

LEMMA ResultTells ==
  ASSUME NEW c \in Client, NEW n \in Node,
         ev[c].about \in [Node -> Claim], world \in [Fact -> Version],
         \A g \in Fact : world[g] <= LastVersion[g],
         \A m \in ToSet(Dependencies[n]) : Tells(world, m, ev[c].about[m])
  PROVE  Tells(world, n, ResultOf(c, n))
  <1>1. SUFFICES ASSUME NEW f \in Fact
                 PROVE  IF f \in Claims(n) THEN ResultOf(c, n)[f] <= world[f]
                        ELSE ResultOf(c, n)[f] = LastVersion[f]
    BY DEF Tells
  <1>2. ResultOf(c, n)[f] = IF f \in Reads[n] THEN world[f]
                            ELSE IF f \in Carries[n] THEN Known(c, n, f)
                            ELSE LastVersion[f]
    BY DEF ResultOf
  <1>3. world[f] \in Nat
    BY VersionsNat
  <1>4. f \in Carries[n] \ Reads[n] => Known(c, n, f) <= world[f]
    BY KnownFrom
  <1> QED BY <1>2, <1>3, <1>4 DEF Claims

(* A result is as recent as what it was made of. *)
LEMMA ResultRecent ==
  ASSUME NEW c \in Client, NEW n \in Node,
         ev[c].about \in [Node -> Claim], world \in [Fact -> Version],
         badFor \in [Fact -> Age], BadForBad(world, badFor),
         \A g \in Fact : world[g] <= LastVersion[g],
         \A m \in ToSet(Dependencies[n]) :
           /\ Tells(world, m, ev[c].about[m])
           /\ Recent(badFor, m, ev[c].about[m], 0)
  PROVE  Recent(badFor, n, ResultOf(c, n), Served(n))
  <1>1. SUFFICES ASSUME NEW f \in DOMAIN Delay[n], ResultOf(c, n)[f] % 2 = 0
                 PROVE  badFor[f] + Served(n) <= Delay[n][f]
    BY DEF Recent
  <1>2. f \in Fact /\ f \in Claims(n) /\ Delay[n][f] \in Nat /\ Served(n) \in Nat
    BY DelayFacts, AgesNat
  <1>3. badFor[f] \in Nat
    BY <1>2, GraphAssumption DEF Age
  <1>4. ResultOf(c, n)[f] = IF f \in Reads[n] THEN world[f]
                            ELSE IF f \in Carries[n] THEN Known(c, n, f)
                            ELSE LastVersion[f]
    BY <1>2 DEF ResultOf
  <1>5. CASE f \in Reads[n]
    <2>1. badFor[f] = 0
      BY <1>1, <1>2, <1>4, <1>5 DEF BadForBad
    <2>2. Served(n) <= Delay[n][f]
      BY <1>5, DelayFacts
    <2> QED BY <1>2, <2>1, <2>2
  <1>6. CASE f \notin Reads[n]
    <2>1. f \in Carries[n] \ Reads[n] /\ ResultOf(c, n)[f] = Known(c, n, f)
      BY <1>2, <1>4, <1>6 DEF Claims
    <2>2. PICK m \in ToSet(Dependencies[n]) :
            f \in Claims(m) /\ ev[c].about[m][f] = Known(c, n, f)
      BY <1>2, <2>1, KnownFrom
    <2>3. f \in DOMAIN Delay[m] /\ Delay[m][f] + Served(n) <= Delay[n][f]
      BY <1>6, <2>2, DelayFacts
    <2>4. badFor[f] + 0 <= Delay[m][f]
      BY <1>1, <2>1, <2>2, <2>3 DEF Recent
    <2>5. m \in Node
      BY Places
    <2>6. Delay[m][f] \in Nat
      BY <2>3, <2>5, DelayFacts
    <2> QED BY <1>2, <1>3, <2>3, <2>4, <2>6
  <1> QED BY <1>5, <1>6

(* Who is told of a bad status does not vouch for it. *)
LEMMA ResultVouches ==
  ASSUME NEW c \in Client, NEW n \in Node, ~Refused(c, n),
         ev[c].about \in [Node -> Claim], world \in [Fact -> Version],
         badFor \in [Fact -> Age],
         \A g \in Fact : world[g] <= LastVersion[g],
         \A m \in ToSet(Dependencies[n]) : Believed(world, badFor, m, ev[c].about[m])
  PROVE  VouchesOn(badFor, n, Served(n))
  <1>1. SUFFICES ASSUME NEW f \in DOMAIN Unnoticed[n], ~AssertedBefore(n, f)
                 PROVE  badFor[f] + Served(n) <= Unnoticed[n][f]
    BY DEF VouchesOn
  <1>2. /\ f \in Fact /\ Unnoticed[n][f] \in Nat /\ Served(n) \in Nat
        /\ VouchedFor(n, f) \/ Judged(n, f)
    BY <1>1, UnnoticedFacts, AgesNat
  <1>3. badFor[f] \in Nat
    BY <1>2, GraphAssumption DEF Age
  <1>4. CASE VouchedFor(n, f)
    <2>1. PICK m \in ToSet(Dependencies[n]) :
            /\ f \in DOMAIN Unnoticed[m]
            /\ Unnoticed[m][f] + Served(n) <= Unnoticed[n][f]
      BY <1>4 DEF VouchedFor
    <2>2. m \in Node /\ badFor[f] <= Unnoticed[m][f]
      BY <2>1, Places DEF Believed, Vouches
    <2>3. Unnoticed[m][f] \in Nat
      BY <2>1, <2>2, UnnoticedFacts
    <2> QED BY <1>2, <1>3, <2>1, <2>2, <2>3
  <1>5. CASE Judged(n, f)
    <2>1. f \in Judges[n] /\ Known(c, n, f) % 2 = 0
      BY <1>5 DEF Judged, Refused
    <2>2. \A m \in ToSet(Dependencies[n]) : Tells(world, m, ev[c].about[m])
      BY DEF Believed
    <2>3. PICK m \in ToSet(Dependencies[n]) :
            f \in Claims(m) /\ ev[c].about[m][f] = Known(c, n, f)
      BY <1>2, <2>1, <2>2, KnownFrom
    <2>4. f \in DOMAIN Delay[m] /\ Delay[m][f] + Served(n) <= Unnoticed[n][f]
      BY <1>5, <2>3 DEF Judged
    <2>5. badFor[f] + 0 <= Delay[m][f]
      BY <2>1, <2>3, <2>4 DEF Believed, Recent
    <2>6. m \in Node
      BY Places
    <2>7. Delay[m][f] \in Nat
      BY <2>4, <2>6, DelayFacts
    <2> QED BY <1>2, <1>3, <2>4, <2>5, <2>7
  <1> QED BY <1>2, <1>4, <1>5

-----------------------------------------------------------------------------
(* The states of an evaluation.                                            *)

LEMMA WalkTold ==
  ASSUME NEW w, NEW b, NEW n, NEW i
  PROVE  Told(w, b, Walk(n, i))
  BY DEF Told, Walk, Begin

LEMMA LeaveTold ==
  ASSUME NEW w, NEW b, NEW e, NEW pc, NEW hold, NEW excused,
         pc \in {"use", "ok", "failed"},
         pc = "use" => Vouches(b, e.target)
  PROVE  Told(w, b, Leave(e, pc, hold, excused))
  <1> DEFINE r == Leave(e, pc, hold, excused)
  <1>1. r.pc = pc /\ r.target = e.target
    BY DEF Leave, Begin
  <1> HIDE DEF r
  <1>2. Told(w, b, r)
    BY <1>1 DEF Told, Walking
  <1> QED BY <1>2 DEF r

LEMMA FailTold ==
  ASSUME NEW w, NEW b, NEW c, NEW excused
  PROVE  Told(w, b, Fail(c, excused))
  BY WalkTold, LeaveTold DEF Fail

LEMMA StackTold ==
  ASSUME NEW w, NEW b, NEW e \in Evaluation, Told(w, b, e), e.pc = "run", NEW stack
  PROVE  Told(w, b, [e EXCEPT !.stack = stack])
  <1> DEFINE r == [e EXCEPT !.stack = stack]
  <1>1. r.pc = "run" /\ r.done = e.done /\ r.about = e.about
    BY DEF Evaluation
  <1> HIDE DEF r
  <1>2. Told(w, b, r)
    BY <1>1 DEF Told, Walking
  <1> QED BY <1>2 DEF r

LEMMA ExcusedTold ==
  ASSUME NEW w, NEW b, NEW e \in Evaluation, Told(w, b, e), NEW excused
  PROVE  Told(w, b, [e EXCEPT !.excused = excused])
  <1> DEFINE r == [e EXCEPT !.excused = excused]
  <1>1. /\ r.pc = e.pc /\ r.done = e.done /\ r.about = e.about /\ r.hold = e.hold
        /\ r.stack = e.stack /\ r.target = e.target
    BY DEF Evaluation
  <1> HIDE DEF r
  <1>2. Told(w, b, r)
    BY <1>1 DEF Told, Walking
  <1> QED BY <1>2 DEF r

LEMMA HoldTold ==
  ASSUME NEW w, NEW b, NEW e \in Evaluation, Told(w, b, e), e.pc = "run", NEW hold,
         Lasts(w, b, Last(e.stack).node, hold, Served(Last(e.stack).node)),
         Vouches(b, Last(e.stack).node)
  PROVE  Told(w, b, [e EXCEPT !.pc = "store", !.hold = hold])
  <1> DEFINE r == [e EXCEPT !.pc = "store", !.hold = hold]
  <1>1. /\ r.pc = "store" /\ r.done = e.done /\ r.about = e.about /\ r.hold = hold
        /\ r.stack = e.stack
    BY DEF Evaluation
  <1> HIDE DEF r
  <1>2. Told(w, b, r)
    BY <1>1 DEF Told, Walking
  <1> QED BY <1>2 DEF r

LEMMA ReturnTold ==
  ASSUME NEW w, NEW b, NEW c \in Client, NEW e \in Evaluation, Sound(c, e),
         Walking(e), Told(w, b, e), NEW n, n = Last(e.stack).node, NEW about,
         Believed(w, b, n, about)
  PROVE  Told(w, b, Return(e, n, about))
  <1> DEFINE outer == Front(e.stack)
             r == Return(e, n, about)
  <1>1. /\ e.target \in Node /\ e.stack \in Seq(Frame)
        /\ StackOK(e.stack, e.done, e.target)
        /\ e.done \subseteq Node /\ e.about \in [Node -> Claim]
    BY EvaluationFields DEF Sound
  <1>2. /\ n \in Node
        /\ outer = <<>> => n = e.target
        /\ outer # <<>> =>
             /\ Advance(outer) \in Seq(Frame)
             /\ StackOK(Advance(outer), e.done \cup {n}, e.target)
    BY <1>1, StackReturns
  <1>3. CASE outer = <<>>
    <2>1. Vouches(b, e.target)
      BY <1>2, <1>3 DEF Believed
    <2> QED BY <1>3, <2>1, LeaveTold DEF Return
  <1>4. CASE outer # <<>>
    <2> DEFINE done == e.done \cup {n}
               said == [e.about EXCEPT ![n] = about]
    <2>1. r = [e EXCEPT !.pc = "run", !.done = done, !.about = said,
                        !.hold = NoClaim, !.stack = Advance(outer)]
      BY <1>4 DEF Return
    <2>2. said[n] = about /\ \A m \in Node : m # n => said[m] = e.about[m]
      BY <1>1, <1>2
    <2> HIDE DEF done, said
    <2>3. r.pc = "run" /\ r.done = done /\ r.about = said
      BY <2>1 DEF Evaluation
    <2> HIDE DEF r
    <2>4. ASSUME NEW m \in done PROVE Believed(w, b, m, said[m])
      <3>1. CASE m = n
        BY <2>2, <3>1
      <3>2. CASE m # n
        <4>1. m \in e.done /\ m \in Node
          BY <1>1, <2>4, <3>2 DEF done
        <4> QED BY <2>2, <3>2, <4>1 DEF Told
      <3> QED BY <3>1, <3>2
    <2>5. Told(w, b, r)
      BY <2>3, <2>4 DEF Told
    <2> QED BY <2>5 DEF r
  <1> QED BY <1>3, <1>4
-----------------------------------------------------------------------------
(* The steps of one client.                                                *)

ToldStep(c) == \E e : Evaluates(c, e) /\ Told(world, badFor, e)

LEMMA NoticesOfOne ==
  ASSUME NInv, NEW c \in Client
  PROVE  /\ IInv /\ Told(world, badFor, ev[c])
         /\ badFor \in [Fact -> Age] /\ BadForBad(world, badFor)
         /\ CacheDated(world, badFor, cache)
  BY DEF NInv, IInv, TypeOK

(* When an evaluator is called, what it depends on is believed, and what   *)
(* its node asserts before.                                                *)
LEMMA AtCallBelieved ==
  ASSUME NInv, NEW c \in Client, AtCall(c)
  PROVE  /\ Top(c).node \in Node /\ Top(c).node = Last(ev[c].stack).node
         /\ ev[c].pc = "run"
         /\ \A m \in ToSet(Dependencies[Top(c).node]) :
              Believed(world, badFor, m, ev[c].about[m])
         /\ \A m \in ToSet(Preassertions[Top(c).node]) : Vouches(badFor, m)
  <1>1. IInv /\ Told(world, badFor, ev[c])
    BY NoticesOfOne
  <1>2. /\ Top(c) = Last(ev[c].stack) /\ ev[c].pc = "run" /\ Walking(ev[c])
        /\ ev[c].stack \in Seq(Frame)
        /\ StackOK(ev[c].stack, ev[c].done, ev[c].target)
    BY <1>1, InvariantOfOne DEF AtCall, Walking
  <1>3. Last(ev[c].stack).next = CallAt(Last(ev[c].stack).node)
    BY <1>2 DEF AtCall
  <1>4. /\ Top(c).node \in Node
        /\ ToSet(Dependencies[Top(c).node]) \subseteq ev[c].done
        /\ ToSet(Preassertions[Top(c).node]) \subseteq ev[c].done
    BY <1>2, <1>3, StackComplete
  <1>5. \A m \in ev[c].done : Believed(world, badFor, m, ev[c].about[m])
    BY <1>1, <1>2 DEF Told
  <1> QED BY <1>2, <1>4, <1>5 DEF Believed

(* Then, if it does not throw, no status that its node vouches for has     *)
(* been bad for too long.                                                  *)
LEMMA CallNotices ==
  ASSUME NInv, NEW c \in Client, AtCall(c), ~Refused(c, Top(c).node)
  PROVE  LET n == Top(c).node
         IN  /\ Lasts(world, badFor, n, ResultOf(c, n), Served(n))
             /\ Believed(world, badFor, n, ResultOf(c, n))
  <1> DEFINE n == Top(c).node
  <1>1. /\ IInv /\ badFor \in [Fact -> Age] /\ BadForBad(world, badFor)
    BY NoticesOfOne
  <1>2. /\ ev[c].about \in [Node -> Claim] /\ world \in [Fact -> Version]
        /\ \A g \in Fact : world[g] <= LastVersion[g]
    BY <1>1, InvariantOfOne
  <1>3. /\ n \in Node
        /\ \A m \in ToSet(Dependencies[n]) : Believed(world, badFor, m, ev[c].about[m])
        /\ \A m \in ToSet(Preassertions[n]) : Vouches(badFor, m)
    BY AtCallBelieved
  <1>4. ~Refused(c, n)
    OBVIOUS
  <1> HIDE DEF n
  <1>5. \A m \in ToSet(Dependencies[n]) :
          /\ Tells(world, m, ev[c].about[m])
          /\ Recent(badFor, m, ev[c].about[m], 0)
    BY <1>3 DEF Believed
  <1>6. Tells(world, n, ResultOf(c, n))
    BY <1>2, <1>3, <1>5, ResultTells
  <1>7. Recent(badFor, n, ResultOf(c, n), Served(n))
    BY <1>1, <1>2, <1>3, <1>5, ResultRecent
  <1>8. VouchesOn(badFor, n, Served(n))
    BY <1>1, <1>2, <1>3, <1>4, ResultVouches
  <1>9. Lasts(world, badFor, n, ResultOf(c, n), Served(n))
    BY <1>6, <1>7, <1>8 DEF Lasts
  <1>10. Believed(world, badFor, n, ResultOf(c, n))
    BY <1>1, <1>3, <1>9, AgesNat, LastsIsBelieved
  <1> QED BY <1>9, <1>10 DEF n

LEMMA CallTold ==
  ASSUME NInv, NEW c \in Client, Call(c)
  PROVE  ToldStep(c)
  <1> DEFINE e == ev[c]
             n == Top(c).node
             about == ResultOf(c, n)
  <1>1. /\ n = Last(e.stack).node /\ e.pc = "run" /\ Walking(e)
    BY AtCallBelieved DEF Call, Walking
  <1>2. /\ Lasts(world, badFor, n, about, Served(n))
        /\ Believed(world, badFor, n, about)
    BY CallNotices DEF Call
  <1>3. /\ e \in Evaluation /\ Sound(c, e) /\ Told(world, badFor, e)
    BY NoticesOfOne, InvariantOfOne
  <1>4. Vouches(badFor, n)
    BY <1>2 DEF Believed
  <1>5. CASE n \in Cached
    <2> DEFINE r == [e EXCEPT !.pc = "store", !.hold = about]
    <2>1. Evaluates(c, r)
      BY <1>5 DEF Call
    <2> HIDE DEF e, n, about
    <2>2. Told(world, badFor, r)
      BY <1>1, <1>2, <1>3, <1>4, HoldTold
    <2> QED BY <2>1, <2>2 DEF ToldStep
  <1>6. CASE n \notin Cached
    <2> DEFINE r == Return(e, n, about)
    <2>1. Evaluates(c, r)
      BY <1>6 DEF Call
    <2> HIDE DEF e, n, about
    <2>2. Told(world, badFor, r)
      BY <1>1, <1>2, <1>3, ReturnTold
    <2> QED BY <2>1, <2>2 DEF ToldStep
  <1> QED BY <1>5, <1>6

LEMMA LookupTold ==
  ASSUME NInv, NEW c \in Client, Lookup(c)
  PROVE  ToldStep(c)
  <1> DEFINE e == ev[c]
             n == Top(c).node
  <1>1. /\ IInv /\ Told(world, badFor, e) /\ badFor \in [Fact -> Age]
        /\ CacheDated(world, badFor, cache)
    BY NoticesOfOne
  <1>2. /\ e \in Evaluation /\ Sound(c, e)
        /\ e.stack \in Seq(Frame) /\ Top(c) = Last(e.stack) /\ e.pc = "run"
        /\ StackOK(e.stack, e.done, e.target)
        /\ cache \in [Node -> Entry] /\ Walking(e)
    BY <1>1, InvariantOfOne DEF Lookup, AtLookup, Walking
  <1>3. n = Last(e.stack).node /\ Last(e.stack).next = LookupAt(Last(e.stack).node)
    BY <1>2 DEF Lookup, AtLookup
  <1>4. n \in Node /\ ToSet(Preassertions[n]) \subseteq e.done
    BY <1>2, <1>3, StackComplete
  <1>5. \A m \in e.done : Believed(world, badFor, m, e.about[m])
    BY <1>1, <1>2 DEF Told
  <1>6. \A m \in ToSet(Preassertions[n]) : Vouches(badFor, m)
    BY <1>4, <1>5 DEF Believed
  <1>7. CASE n \in e.done
    <2> DEFINE r == Return(e, n, e.about[n])
    <2>1. Evaluates(c, r)
      BY <1>7 DEF Lookup
    <2>2. Believed(world, badFor, n, e.about[n])
      BY <1>5, <1>7
    <2> HIDE DEF e, n
    <2>3. Told(world, badFor, r)
      BY <1>1, <1>2, <1>3, <2>2, ReturnTold
    <2> QED BY <2>1, <2>3 DEF ToldStep
  <1>8. CASE n \notin e.done /\ (ServedFresh(n) \/ ServedEnabled(c, n))
    <2> DEFINE b == Return(e, n, cache[n].about)
               r == [b EXCEPT !.excused = TRUE]
    <2>1. Evaluates(c, b) \/ Evaluates(c, r)
      BY <1>8 DEF Lookup
    <2>2. cache[n] \in Entry
      BY <1>2, <1>4
    <2> HIDE DEF e, n
    <2>3. Lasts(world, badFor, n, cache[n].about, 0)
      BY <1>1, <1>4, <1>8, <2>2, ServedLasts
    <2>4. Believed(world, badFor, n, cache[n].about)
      BY <1>1, <1>4, <1>6, <2>3, LastsIsBelieved
    <2>5. cache[n].about \in Claim
      BY <2>2 DEF Entry
    <2>6. Told(world, badFor, b)
      BY <1>1, <1>2, <1>3, <2>4, ReturnTold
    <2>7. b \in Evaluation
      BY <1>2, <1>3, <2>5, ReturnIsGood DEF Sound
    <2> HIDE DEF b
    <2>8. Told(world, badFor, r)
      BY <2>6, <2>7, ExcusedTold
    <2> QED BY <2>1, <2>6, <2>8 DEF ToldStep
  <1>9. CASE n \notin e.done /\ ~ServedFresh(n) /\ ~ServedEnabled(c, n)
    <2> DEFINE r == [e EXCEPT !.stack = Advance(e.stack)]
    <2>1. Evaluates(c, r)
      BY <1>9 DEF Lookup
    <2> HIDE DEF e, n
    <2>2. Told(world, badFor, r)
      BY <1>1, <1>2, StackTold
    <2> QED BY <2>1, <2>2 DEF ToldStep
  <1> QED BY <1>7, <1>8, <1>9

LEMMA StoreTold ==
  ASSUME NInv, NEW c \in Client, Store(c) \/ StoreFails(c)
  PROVE  /\ ToldStep(c) /\ Top(c).node \in Node
         /\ Lasts(world, badFor, Top(c).node, ev[c].hold, Served(Top(c).node))
  <1> DEFINE e == ev[c]
             n == Top(c).node
             r == Return(e, n, e.hold)
  <1>1. e.pc = "store" /\ Evaluates(c, r)
    BY DEF Store, StoreFails
  <1>2. /\ IInv /\ Told(world, badFor, e) /\ badFor \in [Fact -> Age]
    BY NoticesOfOne
  <1>3. /\ e \in Evaluation /\ Sound(c, e) /\ Walking(e)
        /\ n = Last(e.stack).node /\ n \in Node
    BY <1>1, <1>2, InvariantOfOne, StoreGood DEF Walking
  <1>4. /\ Lasts(world, badFor, n, e.hold, Served(n)) /\ Vouches(badFor, n)
    BY <1>1, <1>2, <1>3 DEF Told
  <1>5. Lasts(world, badFor, n, e.hold, 0)
    BY <1>2, <1>3, <1>4, AgesNat, LastsLess
  <1>6. Believed(world, badFor, n, e.hold)
    BY <1>4, <1>5 DEF Believed, Lasts
  <1>7. Told(world, badFor, r)
    BY <1>2, <1>3, <1>6, ReturnTold
  <1> QED BY <1>1, <1>3, <1>4, <1>7 DEF ToldStep

LEMMA StepsAreTold ==
  ASSUME NInv, NEW c \in Client,
         \/ \E n \in Target[c] : Start(c, n)
         \/ Step(c) \/ CallFails(c) \/ StoreFails(c) \/ ForwardFails(c)
  PROVE  ToldStep(c)
  <1>1. ev[c] \in Evaluation /\ Told(world, badFor, ev[c])
    BY NoticesOfOne, InvariantOfOne
  <1>2. CASE \E n \in Target[c] : Start(c, n)
    BY <1>2, WalkTold DEF Start, ToldStep
  <1>3. CASE Throw(c) \/ CallFails(c) \/ Invalid(c) \/ ForwardFails(c)
    BY <1>3, FailTold DEF Throw, CallFails, Invalid, ForwardFails, ToldStep
  <1>4. CASE Descend(c)
    BY <1>1, <1>4, StackTold DEF Descend, ToldStep
  <1>5. CASE Valid(c)
    <2>1. Told(world, badFor, Leave(ev[c], "ok", NoClaim, ev[c].excused))
      BY LeaveTold
    <2> QED BY <1>5, <2>1 DEF Valid, ToldStep
  <1> QED
    BY <1>2, <1>3, <1>4, <1>5, LookupTold, CallTold, StoreTold DEF Step
-----------------------------------------------------------------------------
(* All clients, the caches, and what happens around them.                  *)

(* What was told stays true when facts change and no status gets worse.    *)
LEMMA StaysTold ==
  ASSUME NEW w \in [Fact -> Nat], NEW v \in [Fact -> Nat],
         NEW b \in [Fact -> Nat], NEW d \in [Fact -> Nat],
         \A f \in Fact : w[f] <= v[f] /\ d[f] <= b[f],
         NEW n \in Node
  PROVE  /\ Vouches(b, n) => Vouches(d, n)
         /\ \A a \in Claim : Tells(w, n, a) => Tells(v, n, a)
         /\ \A a \in Claim, s \in Int : Lasts(w, b, n, a, s) => Lasts(v, d, n, a, s)
         /\ \A a \in Claim : Believed(w, b, n, a) => Believed(v, d, n, a)
  <1>1. ASSUME Vouches(b, n) PROVE Vouches(d, n)
    <2>1. SUFFICES ASSUME NEW f \in DOMAIN Unnoticed[n]
                   PROVE  d[f] <= Unnoticed[n][f]
      BY DEF Vouches
    <2>2. f \in Fact /\ Unnoticed[n][f] \in Nat /\ b[f] <= Unnoticed[n][f]
      BY <1>1, UnnoticedFacts DEF Vouches
    <2>3. b[f] \in Nat /\ d[f] \in Nat /\ d[f] <= b[f]
      BY <2>2
    <2> QED BY <2>2, <2>3
  <1>2. ASSUME NEW a \in Claim, Tells(w, n, a) PROVE Tells(v, n, a)
    <2>1. SUFFICES ASSUME NEW f \in Fact, f \in Claims(n) PROVE a[f] <= v[f]
      BY <1>2 DEF Tells
    <2>2. a[f] <= w[f]
      BY <1>2, <2>1 DEF Tells
    <2>3. a[f] \in Nat /\ w[f] \in Nat /\ v[f] \in Nat /\ w[f] <= v[f]
      BY VersionsNat DEF Claim
    <2> QED BY <2>2, <2>3
  <1>3. ASSUME NEW a \in Claim, NEW s \in Int, Recent(b, n, a, s)
        PROVE  Recent(d, n, a, s)
    <2>1. SUFFICES ASSUME NEW f \in DOMAIN Delay[n], a[f] % 2 = 0
                   PROVE  d[f] + s <= Delay[n][f]
      BY DEF Recent
    <2>2. f \in Fact /\ Delay[n][f] \in Nat /\ b[f] + s <= Delay[n][f]
      BY <1>3, <2>1, DelayFacts DEF Recent
    <2>3. b[f] \in Nat /\ d[f] \in Nat /\ d[f] <= b[f]
      BY <2>2
    <2> QED BY <2>2, <2>3
  <1>4. ASSUME NEW s \in Int, VouchesOn(b, n, s)
        PROVE  VouchesOn(d, n, s)
    <2>1. SUFFICES ASSUME NEW f \in DOMAIN Unnoticed[n], ~AssertedBefore(n, f)
                   PROVE  d[f] + s <= Unnoticed[n][f]
      BY DEF VouchesOn
    <2>2. f \in Fact /\ Unnoticed[n][f] \in Nat /\ b[f] + s <= Unnoticed[n][f]
      BY <1>4, <2>1, UnnoticedFacts DEF VouchesOn
    <2>3. b[f] \in Nat /\ d[f] \in Nat /\ d[f] <= b[f]
      BY <2>2
    <2> QED BY <2>2, <2>3
  <1>5. ASSUME NEW a \in Claim, Believed(w, b, n, a) PROVE Believed(v, d, n, a)
    BY <1>1, <1>2, <1>3, <1>5 DEF Believed
  <1>6. ASSUME NEW a \in Claim, NEW s \in Int, Lasts(w, b, n, a, s)
        PROVE  Lasts(v, d, n, a, s)
    BY <1>2, <1>3, <1>4, <1>6 DEF Lasts
  <1> QED BY <1>1, <1>2, <1>5, <1>6

(* The world of the next state.                                            *)
NoticedNext ==
  /\ BadForBad(world', badFor')
  /\ CacheDated(world', badFor', cache')
  /\ \A c \in Client : Told(world', badFor', ev'[c])

LEMMA TypesOfNInv ==
  ASSUME NInv
  PROVE  /\ cache \in [Node -> Entry] /\ ev \in [Client -> Evaluation]
         /\ world \in [Fact -> Version] /\ world \in [Fact -> Nat]
         /\ badFor \in [Fact -> Age] /\ badFor \in [Fact -> Nat]
         /\ \A n \in Node : /\ cache[n] \in Entry /\ cache[n].about \in Claim
                            /\ cache[n].age \in Nat
         /\ BadForBad(world, badFor) /\ CacheDated(world, badFor, cache)
         /\ \A c \in Client : /\ Told(world, badFor, ev[c]) /\ ev[c] \in Evaluation
                              /\ Sound(c, ev[c])
  <1>1. /\ cache \in [Node -> Entry] /\ ev \in [Client -> Evaluation]
        /\ world \in [Fact -> Version] /\ badFor \in [Fact -> Age]
        /\ \A c \in Client : Sound(c, ev[c])
    BY DEF NInv, IInv, TypeOK
  <1>2. Age \subseteq Nat
    BY GraphAssumption DEF Age
  <1>3. world \in [Fact -> Nat] /\ badFor \in [Fact -> Nat]
    BY <1>1, <1>2, VersionsNat
  <1>4. \A n \in Node : /\ cache[n] \in Entry /\ cache[n].about \in Claim
                        /\ cache[n].age \in Nat
    BY <1>1, <1>2 DEF Entry
  <1> QED BY <1>1, <1>3, <1>4 DEF NInv

LEMMA OneStepNotices ==
  ASSUME NInv, NEW c \in Client,
         \/ \E n \in Target[c] : Start(c, n)
         \/ Step(c) \/ CallFails(c) \/ StoreFails(c) \/ ForwardFails(c)
  PROVE  NoticedNext
  <1>1. PICK e : ev' = [ev EXCEPT ![c] = e] /\ Told(world, badFor, e)
    BY StepsAreTold DEF ToldStep, Evaluates
  <1>2. UNCHANGED <<world, badFor>>
    BY StepKeepsRest DEF NInv
  <1>3. ASSUME NEW d \in Client PROVE Told(world, badFor, ev'[d])
    <2>1. ev'[d] = IF d = c THEN e ELSE ev[d]
      BY <1>1, TypesOfNInv
    <2> QED BY <1>1, <2>1, TypesOfNInv
  <1>4. CacheDated(world, badFor, cache')
    <2>1. CASE Store(c)
      <3> DEFINE n == Top(c).node
                 new == [in |-> TRUE, age |-> 0, about |-> ev[c].hold]
      <3>1. n \in Node /\ Lasts(world, badFor, n, ev[c].hold, Served(n))
        BY <2>1, StoreTold
      <3>2. cache' = [cache EXCEPT ![n] = new]
        BY <2>1 DEF Store
      <3>3. new.about = ev[c].hold /\ new.age = 0
        OBVIOUS
      <3> HIDE DEF n, new
      <3>4. Served(n) - 0 = Served(n)
        BY <3>1, AgesNat
      <3>5. SUFFICES ASSUME NEW m \in Node, cache'[m].in
                     PROVE  /\ Tells(world, m, cache'[m].about)
                            /\ cache'[m].age < TooOld(m) =>
                                 Lasts(world, badFor, m, cache'[m].about,
                                       Served(m) - cache'[m].age)
        BY DEF CacheDated
      <3>6. CASE m = n
        <4>1. cache'[m] = new
          BY <3>1, <3>2, <3>6, TypesOfNInv
        <4> QED BY <3>1, <3>3, <3>4, <3>6, <4>1 DEF Lasts
      <3>7. CASE m # n
        <4>1. cache'[m] = cache[m]
          BY <3>2, <3>7, TypesOfNInv
        <4>2. CacheDated(world, badFor, cache)
          BY TypesOfNInv
        <4> QED BY <3>5, <4>1, <4>2 DEF CacheDated
      <3> QED BY <3>6, <3>7
    <2>2. CASE ~Store(c)
      <3>1. UNCHANGED cache
        BY <2>2 DEF Start, Step, Descend, Lookup, Throw, Call, Invalid, Valid,
                    CallFails, StoreFails, ForwardFails
      <3> QED BY <3>1, TypesOfNInv
    <2> QED BY <2>1, <2>2
  <1> QED BY <1>2, <1>3, <1>4, TypesOfNInv DEF NoticedNext

LEMMA ChangeNotices ==
  ASSUME NInv, NEW f \in Fact, Change(f)
  PROVE  NoticedNext
  <1> DEFINE w == world'
             b == badFor'
  <1>1. /\ w = [world EXCEPT ![f] = world[f] + 1]
        /\ b = [badFor EXCEPT ![f] = 0]
        /\ cache' = cache
        /\ ev' = [c \in Client |->
                    [ev[c] EXCEPT !.excused = ev[c].excused \/ Running(c)]]
    BY DEF Change
  <1> HIDE DEF w, b
  <1>2. /\ w \in [Fact -> Nat] /\ b \in [Fact -> Nat]
        /\ \A g \in Fact : world[g] <= w[g] /\ b[g] <= badFor[g]
        /\ b[f] = 0 /\ \A g \in Fact : g # f => b[g] = badFor[g] /\ w[g] = world[g]
    BY <1>1, TypesOfNInv
  <1>3. BadForBad(w, b)
    BY <1>2, TypesOfNInv DEF BadForBad
  <1>4. ASSUME NEW n \in Node
        PROVE  /\ Vouches(badFor, n) => Vouches(b, n)
               /\ \A a \in Claim : Tells(world, n, a) => Tells(w, n, a)
               /\ \A a \in Claim, s \in Int :
                    Lasts(world, badFor, n, a, s) => Lasts(w, b, n, a, s)
               /\ \A a \in Claim : Believed(world, badFor, n, a) => Believed(w, b, n, a)
    BY <1>2, TypesOfNInv, StaysTold
  <1>5. CacheDated(w, b, cache)
    <2>1. SUFFICES ASSUME NEW n \in Node, cache[n].in
                   PROVE  /\ Tells(w, n, cache[n].about)
                          /\ cache[n].age < TooOld(n) =>
                               Lasts(w, b, n, cache[n].about, Served(n) - cache[n].age)
      BY DEF CacheDated
    <2>2. /\ Tells(world, n, cache[n].about)
          /\ cache[n].age < TooOld(n) =>
               Lasts(world, badFor, n, cache[n].about, Served(n) - cache[n].age)
      BY <2>1, TypesOfNInv DEF CacheDated
    <2>3. cache[n].about \in Claim /\ Served(n) - cache[n].age \in Int
      BY TypesOfNInv, AgesNat
    <2> QED BY <1>4, <2>2, <2>3
  <1>6. ASSUME NEW c \in Client PROVE Told(w, b, ev'[c])
    <2> DEFINE e == ev[c]
               x == e.excused \/ Running(c)
    <2>1. /\ e \in Evaluation /\ Told(world, badFor, e) /\ Sound(c, e)
          /\ e.about \in [Node -> Claim] /\ e.done \subseteq Node
          /\ e.hold \in Claim /\ e.target \in Node /\ e.stack \in Seq(Frame)
      BY TypesOfNInv, EvaluationFields
    <2>2. ev'[c] = [e EXCEPT !.excused = x]
      BY <1>1
    <2> HIDE DEF e, x
    <2>3. Walking(e) => \A m \in e.done : Believed(w, b, m, e.about[m])
      <3>1. \A m \in e.done : m \in Node /\ e.about[m] \in Claim
        BY <2>1
      <3> QED BY <1>4, <2>1, <3>1 DEF Told
    <2>4. e.pc = "store" =>
            /\ Lasts(w, b, Last(e.stack).node, e.hold, Served(Last(e.stack).node))
            /\ Vouches(b, Last(e.stack).node)
      <3>1. SUFFICES ASSUME e.pc = "store" PROVE <2>4!2
        OBVIOUS
      <3>2. StackOK(e.stack, e.done, e.target)
        BY <2>1, <3>1 DEF Sound, Walking
      <3>3. Last(e.stack).node \in Node
        BY <2>1, <3>2, StackComplete
      <3>4. Served(Last(e.stack).node) \in Int
        BY <3>3, AgesNat
      <3> QED BY <1>4, <2>1, <3>1, <3>3, <3>4 DEF Told
    <2>5. e.pc = "use" => Vouches(b, e.target)
      BY <1>4, <2>1 DEF Told
    <2>6. Told(w, b, e)
      BY <2>3, <2>4, <2>5 DEF Told
    <2>7. Told(w, b, [e EXCEPT !.excused = x])
      <3>1. e \in Evaluation
        BY <2>1
      <3> QED BY <2>6, <3>1, ExcusedTold
    <2> QED BY <2>2, <2>7
  <1> QED BY <1>1, <1>3, <1>5, <1>6 DEF NoticedNext, w, b

(* A tick makes results older, and bad statuses worse by as much. *)
LEMMA TickLasts ==
  ASSUME NEW n \in Node, NEW a, NEW s \in Int,
         NEW w, NEW b \in [Fact -> Nat], NEW d \in [Fact -> Nat],
         \A f \in Fact : d[f] <= b[f] + 1,
         Lasts(w, b, n, a, s)
  PROVE  Lasts(w, d, n, a, s - 1)
  <1>1. Recent(d, n, a, s - 1)
    <2>1. SUFFICES ASSUME NEW f \in DOMAIN Delay[n], a[f] % 2 = 0
                   PROVE  d[f] + (s - 1) <= Delay[n][f]
      BY DEF Recent
    <2>2. f \in Fact /\ Delay[n][f] \in Nat /\ b[f] + s <= Delay[n][f]
      BY <2>1, DelayFacts DEF Lasts, Recent
    <2>3. b[f] \in Nat /\ d[f] \in Nat /\ d[f] <= b[f] + 1
      BY <2>2
    <2> QED BY <2>2, <2>3
  <1>2. VouchesOn(d, n, s - 1)
    <2>1. SUFFICES ASSUME NEW f \in DOMAIN Unnoticed[n], ~AssertedBefore(n, f)
                   PROVE  d[f] + (s - 1) <= Unnoticed[n][f]
      BY DEF VouchesOn
    <2>2. f \in Fact /\ Unnoticed[n][f] \in Nat /\ b[f] + s <= Unnoticed[n][f]
      BY <2>1, UnnoticedFacts DEF Lasts, VouchesOn
    <2>3. b[f] \in Nat /\ d[f] \in Nat /\ d[f] <= b[f] + 1
      BY <2>2
    <2> QED BY <2>2, <2>3
  <1> QED BY <1>1, <1>2 DEF Lasts

LEMMA TickNotices ==
  ASSUME NInv, Tick
  PROVE  NoticedNext
  <1> DEFINE d == badFor'
             old == cache'
  <1>1. /\ UNCHANGED <<world, ev>>
        /\ \A c \in Client : ~Running(c)
        /\ d = [f \in Fact |-> IF f \in Status /\ world[f] % 2 # 0
                               THEN Older(badFor[f], AgeCap) ELSE 0]
        /\ old = [n \in Node |-> IF cache[n].in
                    THEN [cache[n] EXCEPT !.age = Older(cache[n].age, TooOld(n))]
                    ELSE cache[n]]
    BY DEF Tick
  <1> HIDE DEF d, old
  <1>2. /\ d \in [Fact -> Nat] /\ \A f \in Fact : d[f] <= badFor[f] + 1
    <2>1. SUFFICES ASSUME NEW f \in Fact PROVE d[f] \in Nat /\ d[f] <= badFor[f] + 1
      BY <1>1
    <2>2. badFor[f] \in Nat /\ AgeCap \in Nat
      BY TypesOfNInv, GraphAssumption
    <2>3. d[f] \in {Older(badFor[f], AgeCap), 0}
      BY <1>1
    <2>4. Older(badFor[f], AgeCap) \in {badFor[f], badFor[f] + 1}
      BY DEF Older
    <2> QED BY <2>2, <2>3, <2>4
  <1>3. BadForBad(world, d)
    BY <1>1 DEF BadForBad
  <1>4. CacheDated(world, d, old)
    <2>1. SUFFICES ASSUME NEW n \in Node, old[n].in
                   PROVE  /\ Tells(world, n, old[n].about)
                          /\ old[n].age < TooOld(n) =>
                               Lasts(world, d, n, old[n].about, Served(n) - old[n].age)
      BY DEF CacheDated
    <2>2. cache[n] \in Entry /\ cache[n].age \in Nat /\ TooOld(n) \in Nat /\ Served(n) \in Nat
      BY TypesOfNInv, AgesNat
    <2>3. old[n] = IF cache[n].in
                   THEN [cache[n] EXCEPT !.age = Older(cache[n].age, TooOld(n))]
                   ELSE cache[n]
      BY <1>1
    <2>4. cache[n].in
      BY <2>1, <2>3
    <2>5. /\ old[n].about = cache[n].about
          /\ old[n].age = Older(cache[n].age, TooOld(n))
      BY <2>2, <2>3, <2>4 DEF Entry
    <2>6. /\ Tells(world, n, cache[n].about)
          /\ cache[n].age < TooOld(n) =>
               Lasts(world, badFor, n, cache[n].about, Served(n) - cache[n].age)
      BY <2>4, TypesOfNInv DEF CacheDated
    <2>7. ASSUME old[n].age < TooOld(n)
          PROVE  Lasts(world, d, n, old[n].about, Served(n) - old[n].age)
      <3>1. cache[n].age < TooOld(n) /\ old[n].age = cache[n].age + 1
        BY <2>2, <2>5, <2>7 DEF Older
      <3> DEFINE s == Served(n) - cache[n].age
      <3>2. s \in Int /\ s - 1 = Served(n) - old[n].age
        BY <2>2, <3>1
      <3>3. Lasts(world, badFor, n, cache[n].about, s)
        BY <2>6, <3>1
      <3> HIDE DEF s
      <3>4. Lasts(world, d, n, cache[n].about, s - 1)
        BY <1>2, <3>2, <3>3, TypesOfNInv, TickLasts
      <3> QED BY <2>5, <3>2, <3>4
    <2> QED BY <2>5, <2>6, <2>7
  <1>5. ASSUME NEW c \in Client PROVE Told(world, d, ev[c])
    BY <1>1 DEF Told, Running, Walking
  <1> QED BY <1>1, <1>3, <1>4, <1>5 DEF NoticedNext, d, old

LEMMA InitNInv == Init => NInv
  <1> SUFFICES ASSUME Init PROVE NInv
    OBVIOUS
  <1>1. IInv
    BY InitIInv
  <1>2. BadForBad(world, badFor) /\ CacheDated(world, badFor, cache)
    BY DEF Init, BadForBad, CacheDated
  <1>3. \A c \in Client : Told(world, badFor, ev[c])
    BY DEF Init, Told, Walking, Begin
  <1> QED BY <1>1, <1>2, <1>3 DEF NInv

LEMMA NextNInv == NInv /\ [Next]_vars => NInv'
  <1> SUFFICES ASSUME NInv, [Next]_vars PROVE NInv'
    OBVIOUS
  <1>1. IInv'
    BY NextIInv DEF NInv
  <1>2. NoticedNext
    <2>1. ASSUME UNCHANGED vars PROVE NoticedNext
      BY <2>1 DEF vars, NoticedNext, NInv
    <2> QED BY <2>1, OneStepNotices, ChangeNotices, TickNotices DEF Next
  <1> QED BY <1>1, <1>2 DEF NInv, NoticedNext

(* Whatever is cached where, and however the evaluations interleave: an    *)
(* evaluation that gets as far as the data holder has noticed a status     *)
(* that has been bad for longer than the caches on the way can add up to,  *)
(* in every graph with such delays.                                        *)
THEOREM CachesBoundIgnorance == Spec => []NoticedWithinMaxAges
  <1>1. ASSUME NInv PROVE NoticedWithinMaxAges
    <2>1. SUFFICES ASSUME NEW c \in Client, Contact(c)
                   PROVE  Vouches(badFor, ev[c].target)
      BY DEF NoticedWithinMaxAges, Vouches
    <2>2. CASE AtCall(c) /\ Top(c).node = ev[c].target /\ ~Refused(c, ev[c].target)
      BY <1>1, <2>2, CallNotices DEF Believed
    <2>3. CASE ev[c].pc = "use"
      BY <1>1, <2>3, NoticesOfOne DEF Told
    <2> QED BY <2>1, <2>2, <2>3 DEF Contact
  <1> QED BY InitNInv, NextNInv, <1>1, PTL DEF Spec
=============================================================================
