-------------------------- MODULE SimulatorProofs --------------------------
(***************************************************************************)
(* What is proved of Simulator, for every ruleset and packet, every number *)
(* of chains and every limit on the depth.                                 *)
(***************************************************************************)
EXTENDS Simulator, SequenceTheorems, WellFoundedInduction, TLAPS

-----------------------------------------------------------------------------
(* Numbers: the choices of first and last                                  *)

LEMMA Smallest ==
  ASSUME NEW S \in SUBSET Nat, S # {}
  PROVE  \E m \in S : \A k \in S : m <= k
<1> DEFINE R == {ss \in Nat \X Nat : ss[1] < ss[2]}
<1>1. IsWellFoundedOn(R, Nat)
  BY NatLessThanWellFounded DEF OpToRel
<1>2. \A k, m \in S : k < m => <<k, m>> \in R
  OBVIOUS
<1> HIDE DEF R
<1>3. PICK m \in S : \A k \in S : ~(<<k, m>> \in R)
  BY <1>1, WFMin
<1>4. \A k \in S : ~(k < m)
  BY <1>2, <1>3
<1>5. \A k \in S : m <= k
  BY <1>4
<1> QED BY <1>5

\* A set of numbers up to n has a largest member.
LEMMA Largest ==
  ASSUME NEW n \in Nat, NEW S \in SUBSET (1..n), S # {}
  PROVE  \E m \in S : \A k \in S : k <= m
<1> DEFINE T == {k \in Nat : n - k \in S}
<1>1. T # {}
  <2>1. PICK k \in S : TRUE
    OBVIOUS
  <2>2. n - k \in Nat /\ n - (n - k) = k
    BY <2>1
  <2> QED BY <2>1, <2>2
<1>2. PICK m \in T : \A k \in T : m <= k
  <2> T \in SUBSET Nat
    OBVIOUS
  <2> HIDE DEF T
  <2> QED BY <1>1, Smallest
<1>3. n - m \in S
  BY <1>2
<1>4. \A k \in S : n - k \in T
  OBVIOUS
<1>5. \A k \in S : k <= n - m
  BY <1>2, <1>4
<1> QED BY <1>3, <1>5
-----------------------------------------------------------------------------
(* Type correctness                                                        *)

At    == Chains \X (Nat \ {0})
Frame == [chain : Chains, next : Nat \ {0}, via : {"base", "jump", "goto"}]

\* The model and the packet are those the walk began with.
ModelInv ==
    /\ \E s \in Rulesets : rules = s.rules /\ bases = s.bases
    /\ pkt \in Packets

\* The walk began at the base chain that is first to see the packet; every call
\* above it is that of a jump or a goto.
FramesInv ==
    final = "none" =>
        /\ Seeing(pkt) # {}
        /\ frames # <<>>
        /\ frames[1].via = "base"
        /\ \A i \in 2..Len(frames) : frames[i].via # "base"

KernInv ==
    /\ kat # <<>> => kat \in At /\ kbase # 0
    /\ kat = <<>> => kstack = <<>>

IInv == ModelInv /\ SimTypeOK /\ FramesInv /\ KernInv

\* The ruleset and the described packet are of the types the walk reads.
LEMMA ModelTyped ==
  ASSUME ModelInv
  PROVE  /\ rules \in [Chains -> Seq(Rule)]
         /\ bases \in Seq(Base)
         /\ pkt \in Packet
BY RulesetsAssumption, PacketsAssumption DEF ModelInv

\* First picks one of the base chains it is given.
LEMMA FirstIsOne ==
  ASSUME bases \in Seq(Base), NEW S \in SUBSET (DOMAIN bases), S # {}
  PROVE  First(S) \in S
<1> DEFINE prios == {bases[i].prio : i \in S}
<1>1. \A i \in S : bases[i].prio \in Nat /\ i \in Nat
  <2>1. \A i \in S : i \in Nat /\ bases[i] \in Base
    OBVIOUS
  <2> QED BY <2>1 DEF Base
<1>2. PICK p \in prios : \A q \in prios : p <= q
  <2>1. prios \in SUBSET Nat /\ prios # {}
    BY <1>1
  <2> HIDE DEF prios
  <2> QED BY <2>1, Smallest
<1> DEFINE T == {i \in S : bases[i].prio = p}
<1>3. PICK i \in T : \A j \in T : i <= j
  <2>1. T \in SUBSET Nat /\ T # {}
    BY <1>1, <1>2
  <2> HIDE DEF T
  <2> QED BY <2>1, Smallest
<1>4. \A j \in S : \/ bases[i].prio < bases[j].prio
                   \/ bases[i].prio = bases[j].prio /\ i <= j
  <2> SUFFICES ASSUME NEW j \in S
               PROVE  \/ bases[i].prio < bases[j].prio
                      \/ bases[i].prio = bases[j].prio /\ i <= j
    OBVIOUS
  <2>1. bases[i].prio <= bases[j].prio
    BY <1>2, <1>3
  <2>2. bases[i].prio = bases[j].prio => i <= j
    BY <1>3
  <2> QED BY <2>1, <2>2, <1>1, <1>3
<1>5. i \in S
  BY <1>3
<1> QED BY <1>4, <1>5 DEF First

\* The base chain that decides is one of the ruleset's.
LEMMA FirstSeeing ==
  ASSUME bases \in Seq(Base), NEW p, Seeing(p) # {}
  PROVE  /\ First(Seeing(p)) \in DOMAIN bases
         /\ bases[First(Seeing(p))] \in Base
<1>1. Seeing(p) \in SUBSET (DOMAIN bases)
  BY DEF Seeing
<1>2. First(Seeing(p)) \in Seeing(p)
  BY <1>1, FirstIsOne
<1>3. First(Seeing(p)) \in DOMAIN bases
  BY <1>1, <1>2
<1> QED BY <1>3

\* A rule's verdict is a statement that decides.
LEMMA VerdictTyped ==
  ASSUME NEW r \in Rule
  PROVE  /\ RuleVerdict(r) \in Statement
         /\ RuleVerdict(r).key \notin {"limit", "vmap"}
<1> DEFINE deciding == {i \in DOMAIN r.stmts :
                          r.stmts[i].key \notin {"note", "limit", "vmap"}}
           first    == CHOOSE i \in deciding : \A j \in deciding : i <= j
<1>1. r.stmts \in Seq(Statement)
  BY DEF Rule
<1>2. CASE deciding = {}
  <2>1. RuleVerdict(r) = Passes
    BY <1>2 DEF RuleVerdict
  <2> QED BY <2>1 DEF Passes, Statement
<1>3. CASE deciding # {}
  <2>1. deciding \in SUBSET Nat
    BY <1>1
  <2>2. \E i \in deciding : \A j \in deciding : i <= j
    <3> HIDE DEF deciding
    <3> QED BY <1>3, <2>1, Smallest
  <2>3. first \in deciding
    <3> HIDE DEF deciding
    <3> QED BY <2>2
  <2>4. RuleVerdict(r) = r.stmts[first]
    BY <1>3 DEF RuleVerdict
  <2> HIDE DEF first
  <2> QED BY <1>1, <2>3, <2>4
<1> QED BY <1>2, <1>3

\* Going to the next rule moves the innermost frame by one and nothing else.
LEMMA AdvancedFrames ==
  ASSUME frames \in Seq(Frame), frames # <<>>
  PROVE  /\ Len(frames) \in Nat /\ Len(frames) >= 1
         /\ Advanced \in Seq(Frame)
         /\ Len(Advanced) = Len(frames)
         /\ \A i \in 1..Len(frames) : /\ Advanced[i].via = frames[i].via
                                      /\ Advanced[i].chain = frames[i].chain
         /\ \A i \in 1..(Len(frames) - 1) : Advanced[i] = frames[i]
         /\ Advanced[Len(frames)].next = Top.next + 1
<1> DEFINE n == Len(frames)
           g == [frames[n] EXCEPT !.next = @ + 1]
<1>1. n \in Nat \ {0}
  BY EmptySeq
<1>2. frames[n] \in Frame
  BY <1>1
<1>3. /\ g \in Frame /\ g.via = frames[n].via /\ g.chain = frames[n].chain
      /\ g.next = frames[n].next + 1
  BY <1>2 DEF Frame
<1>4. Advanced = [frames EXCEPT ![n] = g]
  BY DEF Advanced
<1> HIDE DEF g
<1>5. /\ Advanced \in Seq(Frame)
      /\ Len(Advanced) = n
      /\ \A i \in 1..n : Advanced[i] = IF i = n THEN g ELSE frames[i]
  BY <1>1, <1>3, <1>4, ExceptSeq
<1> QED BY <1>1, <1>3, <1>5 DEF Top

\* At the end of a chain either every frame was a goto from the base chain, and
\* its policy decides, or the walk is back in the caller of the innermost jump.
LEMMA UpEffect ==
  ASSUME frames \in Seq(Frame), frames # <<>>, frames[1].via = "base",
         \A i \in 2..Len(frames) : frames[i].via # "base",
         Up
  PROVE  \/ /\ \A i \in 2..Len(frames) : frames[i].via = "goto"
            /\ final' = bases[First(Seeing(pkt))].policy
            /\ frames' = frames
         \/ \E b \in 2..Len(frames) :
              /\ frames[b].via = "jump"
              /\ \A i \in (b + 1)..Len(frames) : frames[i].via = "goto"
              /\ frames' = SubSeq(frames, 1, b - 1)
              /\ final' = final
<1> DEFINE callers == {i \in DOMAIN frames : frames[i].via # "goto"}
           bottom  == CHOOSE i \in callers : \A j \in callers : j <= i
<1>1. Len(frames) \in Nat \ {0} /\ DOMAIN frames = 1..Len(frames)
  BY EmptySeq
<1>2. \E i \in callers : \A j \in callers : j <= i
  <2>1. callers \in SUBSET (1..Len(frames)) /\ 1 \in callers
    BY <1>1
  <2> HIDE DEF callers
  <2> QED BY <1>1, <2>1, Largest
<1>3. bottom \in callers /\ \A j \in callers : j <= bottom
  <2> HIDE DEF callers
  <2> QED BY <1>2
<1>4. IF frames[bottom].via = "base"
      THEN /\ final' = bases[First(Seeing(pkt))].policy
           /\ UNCHANGED frames
      ELSE /\ frames' = SubSeq(frames, 1, bottom - 1)
           /\ UNCHANGED final
  BY DEF Up
<1> HIDE DEF bottom
<1>5. bottom \in 1..Len(frames) /\ frames[bottom].via # "goto"
  BY <1>1, <1>3
<1>6. \A i \in (bottom + 1)..Len(frames) : frames[i].via = "goto"
  BY <1>1, <1>3, <1>5
<1>7. \A i \in 1..Len(frames) : frames[i].via \in {"base", "jump", "goto"}
  <2>1. \A i \in 1..Len(frames) : frames[i] \in Frame
    OBVIOUS
  <2> QED BY <2>1 DEF Frame
<1>8. CASE frames[bottom].via = "base"
  <2>1. bottom = 1
    BY <1>5, <1>8
  <2> QED BY <1>4, <1>6, <1>8, <2>1
<1>9. CASE frames[bottom].via # "base"
  <2>1. bottom \in 2..Len(frames) /\ frames[bottom].via = "jump"
    BY <1>5, <1>7, <1>9
  <2> QED BY <1>4, <1>6, <1>9, <2>1
<1> QED BY <1>8, <1>9
\* While there is no answer, the walk stands in a chain of the ruleset.
LEMMA WalkTyped ==
  ASSUME IInv, final = "none"
  PROVE  /\ frames \in Seq(Frame) /\ frames # <<>>
         /\ Len(frames) \in Nat /\ Len(frames) >= 1
         /\ Len(frames) <= MaxDepth + 1
         /\ Top \in Frame
         /\ rules[Top.chain] \in Seq(Rule)
         /\ AtRule => TheRule \in Rule
<1>1. frames \in Seq(Frame) /\ frames # <<>>
  BY DEF IInv, SimTypeOK, FramesInv, Frame
<1>7. Len(frames) <= MaxDepth + 1
  BY DEF IInv, SimTypeOK
<1>2. Len(frames) \in Nat /\ Len(frames) >= 1
  BY <1>1, EmptySeq
<1>3. Top \in Frame
  <2>1. Len(frames) \in 1..Len(frames)
    BY <1>2
  <2> QED BY <1>1, <2>1, ElementOfSeq DEF Top
<1>4. Top.chain \in Chains /\ Top.next \in Nat \ {0}
  BY <1>3 DEF Frame
<1>5. rules[Top.chain] \in Seq(Rule)
  BY <1>4, ModelTyped DEF IInv
<1>6. AtRule => TheRule \in Rule
  <2> SUFFICES ASSUME AtRule PROVE TheRule \in Rule
    OBVIOUS
  <2>1. Top.next \in 1..Len(rules[Top.chain])
    BY <1>4, <1>5 DEF AtRule
  <2> QED BY <1>5, <2>1, ElementOfSeq DEF TheRule
<1> QED BY <1>1, <1>2, <1>3, <1>5, <1>6, <1>7

\* Seeing is the same as long as the model is.
LEMMA SeeingKept ==
  ASSUME UNCHANGED <<bases, pkt>>
  PROVE  Seeing(pkt)' = Seeing(pkt)
BY DEF Seeing

\* A step of the walk that leaves frames of this form keeps the invariant.
LEMMA FramesTyped ==
  ASSUME IInv, final = "none", UNCHANGED <<model, kern>>,
         uncertain' \in BOOLEAN, final' \in Verdicts \cup {"none"},
         frames' \in Seq(Frame), Len(frames') <= MaxDepth + 1,
         final' = "none" => /\ frames' # <<>>
                        /\ frames'[1].via = "base"
                        /\ \A i \in 2..Len(frames') : frames'[i].via # "base"
  PROVE  IInv'
<1>1. ModelInv'
  BY DEF IInv, ModelInv, model
<1>2. SimTypeOK'
  BY DEF IInv, SimTypeOK, Frame, kern, model
<1>3. FramesInv'
  <2>1. Seeing(pkt) # {}
    BY DEF IInv, FramesInv
  <2>2. Seeing(pkt)' = Seeing(pkt)
    BY SeeingKept DEF model
  <2> QED BY <2>1, <2>2 DEF FramesInv
<1>4. KernInv'
  <2>1. Seeing(kpkt)' = Seeing(kpkt)
    BY DEF Seeing, model, kern
  <2> QED BY <2>1 DEF IInv, KernInv, kern
<1> QED BY <1>1, <1>2, <1>3, <1>4 DEF IInv

\* Going to the next rule keeps the invariant.
LEMMA AdvanceKeeps ==
  ASSUME IInv, final = "none", frames' = Advanced, uncertain' \in BOOLEAN,
         UNCHANGED <<model, final, kern>>
  PROVE  IInv'
<1>1. /\ frames \in Seq(Frame) /\ frames # <<>>
      /\ Len(frames) \in Nat /\ Len(frames) >= 1
  BY WalkTyped
<1>6. Len(frames) <= MaxDepth + 1
  BY WalkTyped
<1>2. /\ Advanced \in Seq(Frame) /\ Len(Advanced) = Len(frames)
      /\ \A i \in 1..Len(frames) : Advanced[i].via = frames[i].via
  BY <1>1, AdvancedFrames
<1>3. /\ frames[1].via = "base"
      /\ \A i \in 2..Len(frames) : frames[i].via # "base"
  BY DEF IInv, FramesInv
<1>4. Advanced # <<>>
  BY <1>1, <1>2
<1>5. /\ Advanced[1].via = "base"
      /\ \A i \in 2..Len(Advanced) : Advanced[i].via # "base"
  BY <1>1, <1>2, <1>3
<1> QED BY <1>1, <1>2, <1>4, <1>5, <1>6, FramesTyped

\* Going up keeps the invariant.
LEMMA UpKeeps ==
  ASSUME IInv, final = "none", Up, uncertain' \in BOOLEAN,
         UNCHANGED <<model, kern>>
  PROVE  IInv'
<1>1. /\ frames \in Seq(Frame) /\ frames # <<>>
      /\ Len(frames) \in Nat /\ Len(frames) >= 1
  BY WalkTyped
<1>6. Len(frames) <= MaxDepth + 1
  BY WalkTyped
<1>2. /\ frames[1].via = "base"
      /\ \A i \in 2..Len(frames) : frames[i].via # "base"
  BY DEF IInv, FramesInv
<1>3. CASE /\ final' = bases[First(Seeing(pkt))].policy
           /\ frames' = frames
  <2>1. bases[First(Seeing(pkt))] \in Base
    BY FirstSeeing, ModelTyped DEF IInv, FramesInv
  <2>2. final' \in Verdicts
    BY <1>3, <2>1 DEF Base, Verdicts
  <2> QED BY <1>1, <1>2, <1>3, <1>6, <2>2, FramesTyped
<1>4. CASE \E b \in 2..Len(frames) :
              /\ frames' = SubSeq(frames, 1, b - 1)
              /\ final' = final
  <2>1. PICK b \in 2..Len(frames) : /\ frames' = SubSeq(frames, 1, b - 1)
                                    /\ final' = final
    BY <1>4
  <2>2. \A i \in 1..(b - 1) : frames[i] \in Frame
    BY <1>1
  <2>3. /\ frames' \in Seq(Frame) /\ Len(frames') = b - 1
        /\ \A i \in 1..(b - 1) : frames'[i] = frames[i]
    BY <1>1, <2>1, <2>2, SubSeqProperties
  <2>4. Len(frames') <= MaxDepth + 1
    BY <1>1, <1>6, <2>3, MaxDepthAssumption
  <2>5. frames' # <<>>
    BY <2>3
  <2>6. /\ frames'[1].via = "base"
        /\ \A i \in 2..Len(frames') : frames'[i].via # "base"
    BY <1>1, <1>2, <2>3
  <2> QED BY <2>1, <2>3, <2>4, <2>5, <2>6, FramesTyped
<1> QED BY <1>1, <1>2, <1>3, <1>4, UpEffect

\* A call is made on top of the calls in progress, moved on or not.
LEMMA EnterKeeps ==
  ASSUME IInv, AtRule, CanEnter, NEW how \in {"jump", "goto"},
         NEW g \in {frames, Advanced},
         frames' = Append(g, [chain |-> Target, next |-> 1, via |-> how]),
         UNCHANGED <<model, uncertain, final, kern>>
  PROVE  IInv'
<1> DEFINE new == [chain |-> Target, next |-> 1, via |-> how]
<1>1. final = "none"
  BY DEF AtRule
<1>2. /\ frames \in Seq(Frame) /\ frames # <<>>
      /\ Len(frames) \in Nat /\ Len(frames) >= 1
  BY <1>1, WalkTyped
<1>3. /\ g \in Seq(Frame) /\ Len(g) = Len(frames)
      /\ \A i \in 1..Len(frames) : g[i].via = frames[i].via
  BY <1>2, AdvancedFrames
<1>4. /\ frames[1].via = "base"
      /\ \A i \in 2..Len(frames) : frames[i].via # "base"
  BY <1>1 DEF IInv, FramesInv
<1>5. new \in Frame /\ new.via = how
  BY DEF CanEnter, Frame
<1> HIDE DEF new
<1>6. /\ frames' \in Seq(Frame) /\ Len(frames') = Len(frames) + 1
      /\ \A i \in 1..Len(frames) : frames'[i] = g[i]
      /\ frames'[Len(frames) + 1] = new
  BY <1>2, <1>3, <1>5 DEF new
<1>7. Len(frames') <= MaxDepth + 1
  BY <1>2, <1>6, MaxDepthAssumption DEF CanEnter
<1>8. frames' # <<>> /\ frames'[1].via = "base"
  BY <1>2, <1>3, <1>4, <1>6
<1>9. \A i \in 2..Len(frames') : frames'[i].via # "base"
  BY <1>2, <1>3, <1>4, <1>5, <1>6
<1>10. uncertain' \in BOOLEAN /\ final' \in Verdicts \cup {"none"}
  BY DEF IInv, SimTypeOK
<1> QED BY <1>1, <1>6, <1>7, <1>8, <1>9, <1>10, FramesTyped

\* Every step of the walk keeps the invariant.
LEMMA WalkKeeps ==
  ASSUME IInv, Walk
  PROVE  IInv'
<1>1. uncertain \in BOOLEAN
  BY DEF IInv, SimTypeOK
<1>2. CASE RuleSkipped
  BY <1>1, <1>2, AdvanceKeeps DEF RuleSkipped, AtRule
<1>3. CASE RuleUnknown
  BY <1>3, AdvanceKeeps DEF RuleUnknown, AtRule
<1>4. CASE RuleDecides
  <2>1. final = "none"
    BY <1>4 DEF RuleDecides, Matched, AtRule
  <2>2. final' \in Verdicts /\ frames' = frames /\ uncertain' = uncertain
    BY <1>4 DEF RuleDecides, Matched
  <2>3. final' # "none"
    BY <2>2 DEF Verdicts
  <2> QED BY <1>1, <1>4, <2>1, <2>2, <2>3, WalkTyped, FramesTyped
          DEF RuleDecides
<1>5. CASE RulePasses
  BY <1>1, <1>5, AdvanceKeeps DEF RulePasses, Matched, AtRule
<1>6. CASE RuleJumps
  <2>1. AtRule /\ final = "none"
    BY <1>6 DEF RuleJumps, Matched, AtRule
  <2>2. CASE CanEnter
    BY <1>6, <2>1, <2>2, EnterKeeps DEF RuleJumps
  <2>3. CASE ~CanEnter
    BY <1>6, <2>1, <2>3, AdvanceKeeps DEF RuleJumps
  <2> QED BY <2>2, <2>3
<1>7. CASE RuleGoes
  <2>1. AtRule /\ final = "none"
    BY <1>7 DEF RuleGoes, Matched, AtRule
  <2>2. CASE CanEnter
    BY <1>7, <2>1, <2>2, EnterKeeps DEF RuleGoes
  <2>3. CASE ~CanEnter
    BY <1>7, <2>1, <2>3, UpKeeps DEF RuleGoes
  <2> QED BY <2>2, <2>3
<1>8. CASE RuleReturns
  BY <1>1, <1>8, UpKeeps DEF RuleReturns, Matched, AtRule
<1>9. CASE ChainEnds
  BY <1>1, <1>9, UpKeeps DEF ChainEnds
<1> QED BY <1>2, <1>3, <1>4, <1>5, <1>6, <1>7, <1>8, <1>9 DEF Walk, IInv
\* A packet in netfilter is in a chain of the ruleset, on its way through a base
\* chain.
LEMMA KernTyped ==
  ASSUME IInv, KRunning
  PROVE  /\ kat \in At /\ kat[1] \in Chains /\ kat[2] \in Nat /\ kat[2] >= 1
         /\ kstack \in Seq(At)
         /\ rules[kat[1]] \in Seq(Rule)
         /\ kbase # 0 /\ bases \in Seq(Base) /\ bases[kbase] \in Base
<1>1. kat \in At /\ kbase # 0
  BY DEF IInv, KernInv, KRunning
<1>2. kat[1] \in Chains /\ kat[2] \in Nat /\ kat[2] >= 1
  BY <1>1 DEF At
<1>3. kstack \in Seq(At) /\ kbase \in 0..Len(bases)
  BY DEF IInv, SimTypeOK, At
<1>4. rules[kat[1]] \in Seq(Rule) /\ bases \in Seq(Base)
  BY <1>2, ModelTyped DEF IInv
<1>5. kbase \in 1..Len(bases)
  BY <1>1, <1>3, <1>4
<1>6. bases[kbase] \in Base
  BY <1>4, <1>5
<1> QED BY <1>1, <1>2, <1>3, <1>4, <1>6

\* A step of netfilter that leaves a place of this form keeps the invariant.
LEMMA KernFrames ==
  ASSUME IInv, UNCHANGED <<model, walk>>,
         kpkt' \in Packet, kstack' \in Seq(At),
         kbase' \in 0..Len(bases), kleft' \subseteq DOMAIN bases,
         kfinal' \in Verdicts \cup {"none"},
         kat' # <<>> => kat' \in At /\ kbase' # 0,
         kat' = <<>> => kstack' = <<>>
  PROVE  IInv'
<1>1. ModelInv'
  BY DEF IInv, ModelInv, model
<1>2. SimTypeOK'
  BY DEF IInv, SimTypeOK, walk, model, At
<1>3. FramesInv'
  <2>1. Seeing(pkt)' = Seeing(pkt)
    BY SeeingKept DEF model
  <2> QED BY <2>1 DEF IInv, FramesInv, walk
<1>4. KernInv'
  BY DEF KernInv
<1> QED BY <1>1, <1>2, <1>3, <1>4 DEF IInv

\* A packet that fits the description has everything, and what was described.
LEMMA CompletionTyped ==
  ASSUME NEW p \in Packet, NEW q \in Completions(p)
  PROVE  /\ q \in Packet
         /\ q.proto \in Protos /\ q.port \in Ports /\ q.src \in V4 \cup V6
         /\ q.iif \in Ifaces /\ q.ct \in CtStates
         /\ p.proto # None => q.proto = p.proto
         /\ p.port # None => q.port = p.port
         /\ p.iif # None => q.iif = p.iif
         /\ p.ct # None => q.ct = p.ct
         /\ p.src # None => q.src = p.src
<1>1. q \in [proto : Protos, port : Ports, iif : Ifaces, ct : CtStates,
             src : V4 \cup V6]
  BY DEF Completions
<1>2. \A f \in DOMAIN p : p[f] # None => q[f] = p[f]
  BY DEF Completions
<1>3. DOMAIN p = {"proto", "port", "iif", "ct", "src"}
  BY DEF Packet
<1>4. q \in Packet
  BY <1>1 DEF Packet
<1>5. /\ p["proto"] # None => q["proto"] = p["proto"]
      /\ p["port"] # None => q["port"] = p["port"]
      /\ p["iif"] # None => q["iif"] = p["iif"]
      /\ p["ct"] # None => q["ct"] = p["ct"]
      /\ p["src"] # None => q["src"] = p["src"]
  BY <1>2, <1>3
<1> QED BY <1>1, <1>4, <1>5

\* Netfilter goes on with one of the base chains left, or is through with them.
LEMMA KEnterKeeps ==
  ASSUME IInv, UNCHANGED <<model, walk>>, kpkt' \in Packet,
         NEW left \in SUBSET (DOMAIN bases), kleft \subseteq DOMAIN bases,
         Enter(left)
  PROVE  IInv'
<1>1. bases \in Seq(Base)
  BY ModelTyped DEF IInv
<1>2. /\ kstack \in Seq(At) /\ kbase \in 0..Len(bases)
      /\ kfinal \in Verdicts \cup {"none"}
      /\ kat # <<>> => kat \in At /\ kbase # 0
      /\ kat = <<>> => kstack = <<>>
  BY DEF IInv, SimTypeOK, KernInv, At
<1>3. CASE left = {}
  <2>1. kfinal' = "accept" /\ UNCHANGED <<kbase, kleft, kat, kstack>>
    BY <1>3 DEF Enter
  <2>2. kfinal' \in Verdicts \cup {"none"}
    BY <2>1 DEF Verdicts
  <2> QED BY <1>2, <2>1, <2>2, KernFrames
<1>4. CASE left # {}
  <2>1. PICK i \in left : /\ kbase' = i /\ kleft' = left \ {i}
                          /\ kat' = <<bases[i].chain, 1>>
                          /\ kstack' = <<>> /\ kfinal' = kfinal
    BY <1>4 DEF Enter
  <2>2. i \in 1..Len(bases) /\ bases[i] \in Base
    BY <1>1
  <2>3. kat' \in At /\ kat' # <<>>
    BY <2>1, <2>2 DEF Base, At
  <2>4. kstack' \in Seq(At)
    BY <2>1, EmptySeq
  <2>5. kbase' \in 0..Len(bases) /\ kbase' # 0 /\ kleft' \subseteq DOMAIN bases
    BY <1>1, <2>1, <2>2
  <2> QED BY <1>2, <2>1, <2>3, <2>4, <2>5, KernFrames
<1> QED BY <1>3, <1>4

\* A base chain's verdict is netfilter's, or leads to the next base chain.
LEMMA KDecidedKeeps ==
  ASSUME IInv, KRunning, NEW v \in Verdicts, KDecided(v)
  PROVE  IInv'
<1>1. /\ kpkt \in Packet /\ kleft \in SUBSET (DOMAIN bases)
      /\ kbase \in 0..Len(bases)
  BY DEF IInv, SimTypeOK
<1>2. UNCHANGED <<model, walk>> /\ kpkt' = kpkt
  BY DEF KDecided
<1>3. CASE v = "accept"
  BY <1>1, <1>2, <1>3, KEnterKeeps DEF KDecided
<1>4. CASE v # "accept"
  <2>1. kfinal' = v /\ UNCHANGED <<kbase, kleft, kat, kstack>>
    BY <1>4 DEF KDecided
  <2>2. kat \in At /\ kat # <<>> /\ kbase # 0 /\ kstack \in Seq(At)
    BY KernTyped DEF KRunning
  <2> QED BY <1>1, <1>2, <2>1, <2>2, KernFrames
<1> QED BY <1>3, <1>4

\* Netfilter goes on within the base chain.
LEMMA KGoesKeeps ==
  ASSUME IInv, KRunning, kat' \in At, kstack' \in Seq(At),
         UNCHANGED <<model, walk, kpkt, kbase, kleft, kfinal>>
  PROVE  IInv'
<1>1. /\ kpkt \in Packet /\ kfinal \in Verdicts \cup {"none"}
      /\ kbase \in 0..Len(bases) /\ kleft \subseteq DOMAIN bases
  BY DEF IInv, SimTypeOK
<1>2. kat' # <<>> /\ kbase # 0
  <2>1. kbase # 0
    BY KernTyped
  <2> QED BY <2>1 DEF At
<1> QED BY <1>1, <1>2, KernFrames

\* From the end of a chain it goes back, or the policy decides.
LEMMA KUpKeeps ==
  ASSUME IInv, KRunning, KUp
  PROVE  IInv'
<1>1. kstack \in Seq(At) /\ bases[kbase] \in Base
  BY KernTyped
<1>2. CASE kstack = <<>>
  <2>1. PICK v : v = bases[kbase].policy
    OBVIOUS
  <2>2. v \in Verdicts
    BY <1>1, <2>1 DEF Base, Verdicts
  <2>3. KDecided(v)
    BY <1>2, <2>1 DEF KUp
  <2> QED BY <2>2, <2>3, KDecidedKeeps
<1>3. CASE kstack # <<>>
  <2>1. /\ kat' = kstack[Len(kstack)]
        /\ kstack' = SubSeq(kstack, 1, Len(kstack) - 1)
        /\ UNCHANGED <<model, walk, kpkt, kbase, kleft, kfinal>>
    BY <1>3 DEF KUp
  <2>2. Len(kstack) \in Nat /\ Len(kstack) >= 1
    BY <1>1, <1>3, EmptySeq
  <2>3. kat' \in At /\ kstack' \in Seq(At)
    BY <1>1, <2>1, <2>2
  <2> QED BY <2>1, <2>3, KGoesKeeps
<1> QED BY <1>2, <1>3

\* Every step of netfilter keeps the invariant.
LEMMA KernelKeeps ==
  ASSUME IInv, Kernel
  PROVE  IInv'
<1>1. CASE KStart
  <2>1. kpkt' \in Completions(pkt) /\ Enter(Seeing(kpkt'))
        /\ UNCHANGED <<model, walk>>
    BY <1>1 DEF KStart
  <2>2. kpkt' \in Packet
    BY <2>1, CompletionTyped, ModelTyped DEF IInv
  <2>3. PICK left : left = Seeing(kpkt')
    OBVIOUS
  <2>4. left \in SUBSET (DOMAIN bases) /\ kleft \subseteq DOMAIN bases
    BY <2>3 DEF Seeing, IInv, SimTypeOK
  <2> QED BY <2>1, <2>2, <2>3, <2>4, KEnterKeeps
<1>2. CASE KRunning /\ KEnd /\ KUp
  BY <1>2, KUpKeeps
<1>3. ASSUME KRunning, ~KEnd,
             NEW e \in Effects(rules[kat[1]][kat[2]], kpkt), KRule(e)
      PROVE  IInv'
  <2>1. /\ kat[1] \in Chains /\ kat[2] \in Nat /\ kat[2] >= 1
        /\ kstack \in Seq(At)
    BY <1>3, KernTyped
  <2> DEFINE after == <<kat[1], kat[2] + 1>>
  <2>2. after \in At
    BY <2>1 DEF At
  <2>3. CASE e.key \in {"note", "continue"} /\ KNext(after)
    BY <1>3, <2>1, <2>2, <2>3, KGoesKeeps DEF KNext
  <2>4. CASE e.key = "goto" /\ e.to \in Chains /\ KNext(<<e.to, 1>>)
    <3>1. <<e.to, 1>> \in At
      BY <2>4 DEF At
    <3> QED BY <1>3, <2>1, <2>4, <3>1, KGoesKeeps DEF KNext
  <2>5. CASE /\ e.key = "jump" /\ e.to \in Chains
             /\ kat' = <<e.to, 1>>
             /\ kstack' = Append(kstack, after)
             /\ UNCHANGED <<model, walk, kpkt, kbase, kleft, kfinal>>
    <3>1. <<e.to, 1>> \in At
      BY <2>5 DEF At
    <3>2. Append(kstack, after) \in Seq(At)
      BY <2>1, <2>2
    <3> QED BY <1>3, <2>5, <3>1, <3>2, KGoesKeeps
  <2>6. CASE e.key = "return" /\ KUp
    BY <1>3, <2>6, KUpKeeps
  <2>7. CASE e.key \in Verdicts /\ KDecided(e.key)
    BY <1>3, <2>7, KDecidedKeeps
  <2> QED BY <1>3, <2>3, <2>4, <2>5, <2>6, <2>7 DEF KRule
<1> QED BY <1>1, <1>2, <1>3 DEF Kernel

\* The invariant holds at first.
LEMMA InitTyped == Init => IInv
<1> SUFFICES ASSUME Init PROVE IInv
  OBVIOUS
<1>1. ModelInv
  BY DEF Init, ModelInv
<1>2. /\ bases \in Seq(Base) /\ pkt \in Packet
  BY <1>1, ModelTyped
<1>3. uncertain \in BOOLEAN /\ kpkt \in Packet /\ kstack \in Seq(At)
      /\ kbase \in 0..Len(bases) /\ kleft \subseteq DOMAIN bases
      /\ kfinal = "none" /\ kat = <<>> /\ kstack = <<>>
  <2>1. /\ uncertain = FALSE /\ kpkt = pkt /\ kbase = 0 /\ kleft = {}
        /\ kfinal = "none" /\ kat = <<>> /\ kstack = <<>>
    BY DEF Init
  <2>2. kstack \in Seq(At)
    BY <2>1, EmptySeq
  <2>3. uncertain \in BOOLEAN /\ kpkt \in Packet
    BY <1>2, <2>1
  <2>4. kbase \in 0..Len(bases) /\ kleft \subseteq DOMAIN bases
    BY <1>2, <2>1
  <2> QED BY <2>1, <2>2, <2>3, <2>4
<1>4. CASE Seeing(pkt) = {}
  <2>1. frames = <<>> /\ final = "accept"
    BY <1>4 DEF Init
  <2>2. SimTypeOK
    BY <1>3, <2>1, MaxDepthAssumption DEF SimTypeOK, Verdicts, At
  <2> QED BY <1>1, <1>3, <2>1, <2>2 DEF IInv, FramesInv, KernInv
<1>5. CASE Seeing(pkt) # {}
  <2> DEFINE one == [chain |-> bases[First(Seeing(pkt))].chain,
                     next |-> 1, via |-> "base"]
  <2>1. frames = <<one>> /\ final = "none"
    BY <1>5 DEF Init
  <2>2. bases[First(Seeing(pkt))] \in Base
    BY <1>2, <1>5, FirstSeeing
  <2>3. one \in Frame /\ one.via = "base"
    BY <2>2 DEF Base, Frame
  <2> HIDE DEF one
  <2>4. /\ frames \in Seq(Frame) /\ Len(frames) = 1 /\ frames # <<>>
        /\ frames[1] = one
    BY <2>1, <2>3
  <2>5. Len(frames) <= MaxDepth + 1
    BY <2>4, MaxDepthAssumption
  <2>6. SimTypeOK
    BY <1>3, <2>1, <2>4, <2>5 DEF SimTypeOK, At, Frame
  <2>7. FramesInv
    BY <1>5, <2>3, <2>4 DEF FramesInv
  <2> QED BY <1>1, <1>3, <2>6, <2>7 DEF IInv, KernInv
<1> QED BY <1>4, <1>5

\* Every step keeps the invariant.
LEMMA StepTyped == IInv /\ [Next]_vars => IInv'
<1> SUFFICES ASSUME IInv, [Next]_vars PROVE IInv'
  OBVIOUS
<1>1. CASE Walk
  BY <1>1, WalkKeeps
<1>2. CASE Kernel
  BY <1>2, KernelKeeps
<1>3. CASE UNCHANGED vars
  <2>1. UNCHANGED <<model, walk, kern>>
    BY <1>3 DEF vars
  <2> QED BY <2>1, KernFrames DEF kern, IInv, SimTypeOK, KernInv, At
<1> QED BY <1>1, <1>2, <1>3 DEF Next

\* The walk and netfilter stay within the rules and the limit on the depth: no
\* jump, goto or return leaves the stack of calls without the base chain it
\* began at, which is where the policy comes from (simulate.go:105-146, 216-289).
THEOREM SimTypeCorrect == Spec => []SimTypeOK
<1>1. Spec => []IInv
  BY InitTyped, StepTyped, PTL DEF Spec
<1>2. IInv => SimTypeOK
  BY DEF IInv
<1> QED BY <1>1, <1>2, PTL
-----------------------------------------------------------------------------
(* A rule, as the walk sees it and as netfilter does                       *)

\* What the walk says of one condition, netfilter does with every packet that
\* fits the description.
LEMMA ConditionRight ==
  ASSUME NEW p \in Packet, NEW q \in Completions(p), NEW c \in Condition,
         Legible(c)
  PROVE  /\ MatchOne(c, p) \in {"yes", "no", "unknown"}
         /\ MatchOne(c, p) = "no"  => c.key # "other" /\ ~Holds(c, q)
         /\ MatchOne(c, p) = "yes" => c.key # "other" /\ Holds(c, q)
<1>1. /\ q.proto \in Protos /\ q.port \in Ports /\ q.src \in V4 \cup V6
      /\ p.proto # None => q.proto = p.proto
      /\ p.port # None => q.port = p.port
      /\ p.iif # None => q.iif = p.iif
      /\ p.ct # None => q.ct = p.ct
      /\ p.src # None => q.src = p.src
  BY CompletionTyped
<1>2. /\ c.key \in {"proto", "iif", "ct", "port", "addr", "other"}
      /\ c.neg \in BOOLEAN /\ c.open \in BOOLEAN
  BY DEF Condition
<1> DEFINE Ans(v) == IF (v \in c.values) # c.neg THEN "yes" ELSE "no"
           says   == IF Holds(c, q) THEN "yes" ELSE "no"
<1>3. \A v : Test(v, c) \in {"unknown", Ans(v)}
  <2> SUFFICES ASSUME NEW v PROVE Test(v, c) \in {"unknown", Ans(v)}
    OBVIOUS
  <2>1. CASE v \notin c.read /\ c.open
    BY <2>1 DEF Test
  <2>2. CASE ~(v \notin c.read /\ c.open)
    <3>1. v \in c.read <=> v \in c.values
      BY <2>2 DEF Legible
    <3>2. Test(v, c) = IF (v \in c.read) # c.neg THEN "yes" ELSE "no"
      BY <2>2 DEF Test
    <3>3. CASE c.neg
      BY <1>2, <3>1, <3>2, <3>3
    <3>4. CASE ~c.neg
      BY <1>2, <3>1, <3>2, <3>4
    <3> QED BY <3>3, <3>4
  <2> QED BY <2>1, <2>2
<1>4. c.key \in {"proto", "iif", "ct"} => says = Ans(q[c.key])
  BY DEF Holds
<1>5. c.key = "port" => says = IF q.proto = c.gate THEN Ans(q.port) ELSE "no"
  BY DEF Holds
<1>6. c.key = "addr" => says = IF FamilyOf(q.src) = c.gate THEN Ans(q.src) ELSE "no"
  BY DEF Holds
<1>7. says = "yes" <=> Holds(c, q)
  OBVIOUS
<1>8. says \in {"yes", "no"}
  OBVIOUS
<1> HIDE DEF Ans, says
<1>9. CASE c.key \in {"proto", "iif", "ct"}
  <2>1. MatchOne(c, p) = IF p[c.key] = None THEN "unknown" ELSE Test(p[c.key], c)
    BY <1>9 DEF MatchOne
  <2>2. p[c.key] # None => q[c.key] = p[c.key]
    BY <1>1, <1>9
  <2>3. MatchOne(c, p) \in {"unknown", says}
    BY <1>3, <1>4, <1>9, <2>1, <2>2
  <2> QED BY <1>7, <1>8, <1>9, <2>3
<1>10. CASE c.key = "port"
  <2>1. MatchOne(c, p) = IF None \in {p.proto, p.port} THEN "unknown"
                         ELSE IF p.proto # c.gate THEN "no"
                         ELSE Test(p.port, c)
    BY <1>10 DEF MatchOne
  <2>2. MatchOne(c, p) \in {"unknown", says}
    BY <1>1, <1>3, <1>5, <1>10, <2>1
  <2> QED BY <1>7, <1>8, <1>10, <2>2
<1>11. CASE c.key = "addr"
  <2>1. MatchOne(c, p) = IF p.src = None THEN "unknown"
                         ELSE IF FamilyOf(p.src) # c.gate THEN "no"
                         ELSE Test(p.src, c)
    BY <1>11 DEF MatchOne
  <2>2. MatchOne(c, p) \in {"unknown", says}
    BY <1>1, <1>3, <1>6, <1>11, <2>1
  <2> QED BY <1>7, <1>8, <1>11, <2>2
<1>12. CASE c.key = "other"
  BY <1>12 DEF MatchOne
<1> QED BY <1>2, <1>9, <1>10, <1>11, <1>12

\* A rule the simulator skips does nothing to any packet that fits.
LEMMA RuleSkips ==
  ASSUME NEW p \in Packet, NEW q \in Completions(p), NEW r \in Rule,
         Transparent(r), ~r.enabled \/ MatchRule(r, p) = "no"
  PROVE  Effects(r, q) = {Passes}
<1>1. CASE ~r.enabled
  BY <1>1 DEF Effects
<1>2. CASE r.enabled /\ MatchRule(r, p) = "no"
  <2>1. r.conds \in Seq(Condition)
    BY DEF Rule
  <2>2. PICK i \in DOMAIN r.conds : MatchOne(r.conds[i], p) = "no"
    BY <1>2 DEF MatchRule
  <2>3. r.conds[i] \in Condition /\ Legible(r.conds[i])
    BY <1>2, <2>1 DEF Transparent
  <2>4. r.conds[i].key # "other" /\ ~Holds(r.conds[i], q)
    BY <2>2, <2>3, ConditionRight
  <2> QED BY <2>4 DEF Effects
<1> QED BY <1>1, <1>2

\* A rule the simulator says matches has, on every packet that fits, the effect
\* the simulator gives it.
LEMMA RuleApplies ==
  ASSUME NEW p \in Packet, NEW q \in Completions(p), NEW r \in Rule,
         r.enabled, MatchRule(r, p) = "yes", Transparent(r),
         NEW e \in Effects(r, q)
  PROVE  \/ e = RuleVerdict(r)
         \/ e = Passes /\ RuleVerdict(r).key \in {"note", "continue"}
<1>1. r.conds \in Seq(Condition)
  BY DEF Rule
<1>2. \A i \in DOMAIN r.conds :
         MatchOne(r.conds[i], p) # "no" /\ MatchOne(r.conds[i], p) # "unknown"
  BY DEF MatchRule
<1>3. \A i \in DOMAIN r.conds : r.conds[i] \in Condition /\ Legible(r.conds[i])
  BY <1>1 DEF Transparent
<1>4. \A i \in DOMAIN r.conds :
         r.conds[i].key # "other" /\ Holds(r.conds[i], q)
  BY <1>2, <1>3, ConditionRight
<1> DEFINE known == {i \in DOMAIN r.conds : r.conds[i].key # "other"}
           limited == \E i \in DOMAIN r.stmts : r.stmts[i].key = "limit"
<1>5. known = DOMAIN r.conds
  BY <1>4
<1>6. /\ ~r.raw
      /\ \A i \in DOMAIN r.stmts : r.stmts[i].key # "vmap"
      /\ limited => RuleVerdict(r).key \in {"note", "continue"}
  BY DEF Transparent
<1>7. e \in {RuleVerdict(r)} \cup (IF limited THEN {Passes} ELSE {})
  BY <1>4, <1>5, <1>6 DEF Effects
<1> QED BY <1>6, <1>7
-----------------------------------------------------------------------------
(* The walk and netfilter, side by side                                    *)

\* Where netfilter may be: at a rule of a chain, with the rules it returns to.
Spot == At \X Seq(At)

\* From the end of a chain netfilter goes back to a spot of X, or its verdict,
\* the policy, is v.
Back(st, X, v) ==
    IF st = <<>> THEN bases[First(Seeing(pkt))].policy = v
    ELSE <<st[Len(st)], SubSeq(st, 1, Len(st) - 1)>> \in X

\* What a rule does takes netfilter to a spot of X, or its verdict is v.
Leads(e, at, st, X, v) ==
    LET after == <<at[1], at[2] + 1>> IN
    /\ e.key \in {"note", "continue"} => <<after, st>> \in X
    /\ e.key = "goto" /\ e.to \in Chains => <<<<e.to, 1>>, st>> \in X
    /\ e.key = "jump" /\ e.to \in Chains =>
          <<<<e.to, 1>>, Append(st, after)>> \in X
    /\ e.key = "return" => Back(st, X, v)
    /\ e.key \in Verdicts => e.key = v

\* Every step netfilter may take from the spot s with packet q.
Leaves(s, q, X, v) ==
    IF s[1][2] > Len(rules[s[1][1]]) THEN Back(s[2], X, v)
    ELSE \A e \in Effects(rules[s[1][1]][s[1][2]], q) :
            Leads(e, s[1], s[2], X, v)

Start == <<<<bases[First(Seeing(pkt))].chain, 1>>, <<>>>>
Here  == <<Top.chain, Top.next>>

\* The calls in progress are netfilter's jump stack: the callers that jumped, in
\* this order, each at the rule it goes on with.
Mirrors(st, fs) ==
    \E f \in [1..Len(st) -> 2..Len(fs)] :
        /\ \A i, j \in 1..Len(st) : i < j => f[i] < f[j]
        /\ \A k \in 2..Len(fs) :
              fs[k].via = "jump" => \E i \in 1..Len(st) : f[i] = k
        /\ \A i \in 1..Len(st) :
              /\ fs[f[i]].via = "jump"
              /\ st[i] = <<fs[f[i] - 1].chain, fs[f[i] - 1].next>>

\* X is the way the walk has come: from every spot but the one it is at,
\* netfilter goes on within X, and it has no verdict but the walk's.
Walked(X) ==
    /\ X \subseteq Spot
    /\ Start \in X
    /\ final = "none" =>
          \E st \in Seq(At) :
             /\ Mirrors(st, frames)
             /\ <<Here, st>> \in X
             /\ \A s \in X \ {<<Here, st>>} : \A q \in Completions(pkt) :
                   Leaves(s, q, X, "none")
    /\ final # "none" =>
          \A s \in X : \A q \in Completions(pkt) : Leaves(s, q, X, final)

\* A walk that has not been flagged leaves such a way.  Netfilter is on it while
\* it is in the base chain the walk began at, and lets nothing in before it has
\* been there, unless the walk does.
RightInv ==
    /\ final = "none" \/ uncertain => kat = <<>> /\ kfinal = "none"
    /\ Seeing(pkt) = {} => final = "accept" /\ kat = <<>>
    /\ kat # <<>> => kpkt \in Completions(pkt)
    /\ CertainIsRight
    /\ KRunning => \/ kbase = First(Seeing(pkt))
                   \/ First(Seeing(pkt)) \in kleft
                   \/ final = "accept"
    /\ ~uncertain /\ Seeing(pkt) # {} =>
          \E X : /\ Walked(X)
                 /\ KRunning /\ kbase = First(Seeing(pkt)) =>
                       <<kat, kstack>> \in X

\* Where netfilter may go from a spot depends on the ruleset only.
LEMMA LeavesKept ==
  ASSUME UNCHANGED model, NEW s, NEW q, NEW X, NEW v, Leaves(s, q, X, v)
  PROVE  Leaves(s, q, X, v)'
<1>1. Seeing(pkt)' = Seeing(pkt) /\ rules' = rules /\ bases' = bases
  BY SeeingKept DEF model
<1>2. \A st : Back(st, X, v)' <=> Back(st, X, v)
  <2>1. First(Seeing(pkt))' = First(Seeing(pkt))
    BY <1>1 DEF First
  <2> QED BY <1>1, <2>1 DEF Back
<1>3. \A e, at, st : Leads(e, at, st, X, v)' <=> Leads(e, at, st, X, v)
  BY <1>2 DEF Leads
<1> QED BY <1>1, <1>2, <1>3 DEF Leaves

\* A spot that leads into X leads into every larger set.
LEMMA LeavesMore ==
  ASSUME bases \in Seq(Base), Seeing(pkt) # {},
         NEW X, NEW Y, X \subseteq Y, NEW v, NEW w, v \in {"none", w},
         NEW s, NEW q, Leaves(s, q, X, v)
  PROVE  Leaves(s, q, Y, w)
<1>1. \A st : Back(st, X, v) => Back(st, Y, w)
  <2>1. bases[First(Seeing(pkt))].policy # "none"
    BY FirstSeeing DEF Base
  <2> QED BY <2>1 DEF Back
<1>2. \A e, at, st : Leads(e, at, st, X, v) => Leads(e, at, st, Y, w)
  BY <1>1 DEF Leads, Verdicts
<1> QED BY <1>1, <1>2 DEF Leaves

\* The walk moves on to h, which is where netfilter goes.
LEMMA Arrive ==
  ASSUME IInv, final = "none", final' = "none", UNCHANGED model,
         NEW X, X \subseteq Spot, Start \in X,
         NEW here, NEW st, <<here, st>> \in X,
         \A s \in X \ {<<here, st>>} : \A q \in Completions(pkt) :
            Leaves(s, q, X, "none"),
         NEW h \in At, NEW st2 \in Seq(At), Here' = h, Mirrors(st2, frames'),
         \A q \in Completions(pkt) :
            Leaves(<<here, st>>, q, {<<h, st2>>}, "none")
  PROVE  Walked(X \cup {<<h, st2>>})'
<1> DEFINE Y == X \cup {<<h, st2>>}
<1>1. bases \in Seq(Base) /\ Seeing(pkt) # {} /\ pkt' = pkt
  BY ModelTyped DEF IInv, FramesInv, model
<1>2. Y \subseteq Spot /\ <<h, st2>> \in Y /\ X \subseteq Y
  BY DEF Spot
<1>3. Start' \in Y
  <2>1. Seeing(pkt)' = Seeing(pkt) /\ bases' = bases
    BY SeeingKept DEF model
  <2>2. First(Seeing(pkt))' = First(Seeing(pkt))
    BY <2>1 DEF First
  <2>3. Start' = Start
    BY <2>1, <2>2 DEF Start
  <2> QED BY <2>3, <1>2
<1>4. ASSUME NEW s \in Y \ {<<h, st2>>}, NEW q \in Completions(pkt)
      PROVE  Leaves(s, q, Y, "none")'
  <2>1. CASE s = <<here, st>>
    <3>1. Leaves(s, q, {<<h, st2>>}, "none")
      BY <2>1
    <3>2. Leaves(s, q, Y, "none")
      <4>1. {<<h, st2>>} \subseteq Y
        BY <1>2
      <4> HIDE DEF Y
      <4> QED BY <1>1, <3>1, <4>1, LeavesMore
    <3> QED BY <3>2, LeavesKept
  <2>2. CASE s # <<here, st>>
    <3>1. Leaves(s, q, X, "none")
      BY <2>2
    <3>2. Leaves(s, q, Y, "none")
      <4> HIDE DEF Y
      <4> QED BY <1>1, <1>2, <3>1, LeavesMore
    <3> QED BY <3>2, LeavesKept
  <2> QED BY <2>1, <2>2
<1> HIDE DEF Y
<1>5. /\ <<h, st2>> \in Y
      /\ \A s \in Y \ {<<h, st2>>} : \A q \in Completions(pkt') :
            Leaves(s, q, Y, "none")'
  BY <1>1, <1>2, <1>4
<1>6. Walked(Y)'
  BY <1>2, <1>3, <1>5 DEF Walked
<1> QED BY <1>6 DEF Y

\* The walk has its verdict, and so has netfilter.
LEMMA Decide ==
  ASSUME IInv, final = "none", NEW v, final' = v, v # "none", UNCHANGED model,
         NEW X, X \subseteq Spot, Start \in X,
         NEW here, NEW st, <<here, st>> \in X,
         \A s \in X \ {<<here, st>>} : \A q \in Completions(pkt) :
            Leaves(s, q, X, "none"),
         \A q \in Completions(pkt) : Leaves(<<here, st>>, q, X, v)
  PROVE  Walked(X)'
<1>1. bases \in Seq(Base) /\ Seeing(pkt) # {} /\ pkt' = pkt
  BY ModelTyped DEF IInv, FramesInv, model
<1>2. Start' \in X
  <2>1. Seeing(pkt)' = Seeing(pkt) /\ bases' = bases
    BY SeeingKept DEF model
  <2>2. First(Seeing(pkt))' = First(Seeing(pkt))
    BY <2>1 DEF First
  <2>3. Start' = Start
    BY <2>1, <2>2 DEF Start
  <2> QED BY <2>3
<1>3. ASSUME NEW s \in X, NEW q \in Completions(pkt)
      PROVE  Leaves(s, q, X, v)'
  <2>1. CASE s = <<here, st>>
    BY <2>1, LeavesKept
  <2>2. CASE s # <<here, st>>
    <3>1. Leaves(s, q, X, "none")
      BY <2>2
    <3>2. Leaves(s, q, X, v)
      BY <1>1, <3>1, LeavesMore
    <3> QED BY <3>2, LeavesKept
  <2> QED BY <2>1, <2>2
<1>4. \A s \in X : \A q \in Completions(pkt') : Leaves(s, q, X, final)'
  <2>1. \A s \in X : \A q \in Completions(pkt') : Leaves(s, q, X, v)'
    BY <1>1, <1>3
  <2>2. \A st2 : Back(st2, X, v)' <=> Back(st2, X, final)'
    BY DEF Back
  <2>3. \A e, at, st2 : Leads(e, at, st2, X, v)' <=> Leads(e, at, st2, X, final)'
    BY <2>2 DEF Leads
  <2> QED BY <2>1, <2>2, <2>3 DEF Leaves
<1> QED BY <1>2, <1>4 DEF Walked
\* A call that jumped nowhere changes nothing of the jump stack, nor does moving
\* on in the innermost call.
LEMMA MirrorKept ==
  ASSUME NEW n \in Nat, NEW m \in Nat, n <= m, NEW fs, NEW gs,
         Len(fs) = n, Len(gs) = m,
         \A i \in 1..n : gs[i].via = fs[i].via,
         \A i \in 1..(n - 1) : gs[i].chain = fs[i].chain /\ gs[i].next = fs[i].next,
         \A i \in (n + 1)..m : gs[i].via # "jump",
         NEW st \in Seq(At), Mirrors(st, fs)
  PROVE  Mirrors(st, gs)
<1>1. PICK f \in [1..Len(st) -> 2..n] :
         /\ \A i, j \in 1..Len(st) : i < j => f[i] < f[j]
         /\ \A k \in 2..n :
               fs[k].via = "jump" => \E i \in 1..Len(st) : f[i] = k
         /\ \A i \in 1..Len(st) :
               /\ fs[f[i]].via = "jump"
               /\ st[i] = <<fs[f[i] - 1].chain, fs[f[i] - 1].next>>
  BY DEF Mirrors
<1>2. f \in [1..Len(st) -> 2..m]
  <2>1. 2..n \subseteq 2..m
    OBVIOUS
  <2> QED BY <2>1
<1>3. \A k \in 2..m :
         gs[k].via = "jump" => \E i \in 1..Len(st) : f[i] = k
  <2> SUFFICES ASSUME NEW k \in 2..m, gs[k].via = "jump"
               PROVE  \E i \in 1..Len(st) : f[i] = k
    OBVIOUS
  <2>1. k \in 2..n
    <3>1. k \notin (n + 1)..m
      OBVIOUS
    <3> QED BY <3>1
  <2>2. fs[k].via = "jump"
    BY <2>1
  <2> QED BY <1>1, <2>1, <2>2
<1>4. \A i \in 1..Len(st) :
         /\ gs[f[i]].via = "jump"
         /\ st[i] = <<gs[f[i] - 1].chain, gs[f[i] - 1].next>>
  <2> SUFFICES ASSUME NEW i \in 1..Len(st)
               PROVE  /\ gs[f[i]].via = "jump"
                      /\ st[i] = <<gs[f[i] - 1].chain, gs[f[i] - 1].next>>
    OBVIOUS
  <2>1. f[i] \in 2..n
    OBVIOUS
  <2>2. f[i] \in 1..n /\ f[i] - 1 \in 1..(n - 1)
    BY <2>1
  <2> QED BY <1>1, <2>2
<1>5. \A i, j \in 1..Len(st) : i < j => f[i] < f[j]
  BY <1>1
<1> QED BY <1>2, <1>3, <1>4, <1>5 DEF Mirrors

\* So does a goto that is put on top of them.
LEMMA MirrorGoto ==
  ASSUME NEW n \in Nat, NEW fs, NEW gs, Len(fs) = n, Len(gs) = n + 1,
         \A i \in 1..n : gs[i].via = fs[i].via,
         \A i \in 1..(n - 1) : gs[i].chain = fs[i].chain /\ gs[i].next = fs[i].next,
         gs[n + 1].via # "jump",
         NEW st \in Seq(At), Mirrors(st, fs)
  PROVE  Mirrors(st, gs)
<1>1. PICK m : m = n + 1
  OBVIOUS
<1>2. /\ m \in Nat /\ n <= m /\ Len(gs) = m
      /\ \A i \in (n + 1)..m : gs[i].via # "jump"
  BY <1>1
<1> QED BY <1>2, MirrorKept

\* A jump pushes the rule its caller goes on with.
LEMMA MirrorPush ==
  ASSUME NEW n \in Nat, n >= 1, NEW fs, NEW gs,
         Len(fs) = n, Len(gs) = n + 1,
         \A i \in 1..n : gs[i].via = fs[i].via,
         \A i \in 1..(n - 1) : gs[i].chain = fs[i].chain /\ gs[i].next = fs[i].next,
         gs[n + 1].via = "jump",
         NEW at \in At, at = <<gs[n].chain, gs[n].next>>,
         NEW st \in Seq(At), Mirrors(st, fs)
  PROVE  Mirrors(Append(st, at), gs)
<1>1. PICK f \in [1..Len(st) -> 2..n] :
         /\ \A i, j \in 1..Len(st) : i < j => f[i] < f[j]
         /\ \A k \in 2..n :
               fs[k].via = "jump" => \E i \in 1..Len(st) : f[i] = k
         /\ \A i \in 1..Len(st) :
               /\ fs[f[i]].via = "jump"
               /\ st[i] = <<fs[f[i] - 1].chain, fs[f[i] - 1].next>>
  BY DEF Mirrors
<1> DEFINE l == Len(st)
           g == [i \in 1..(l + 1) |-> IF i = l + 1 THEN n + 1 ELSE f[i]]
           st2 == Append(st, at)
<1>2. /\ l \in Nat /\ Len(st2) = l + 1
      /\ \A i \in 1..l : st2[i] = st[i]
      /\ st2[l + 1] = at
  OBVIOUS
<1>3. /\ \A i \in 1..l : g[i] = f[i] /\ g[i] \in 2..n
      /\ g[l + 1] = n + 1
      /\ \A i \in 1..(l + 1) : i \in 1..l \/ i = l + 1
  <2>1. /\ l + 1 \in 1..(l + 1)
        /\ \A i \in 1..l : i \in 1..(l + 1) /\ i # l + 1 /\ f[i] \in 2..n
        /\ \A i \in 1..(l + 1) : i \in 1..l \/ i = l + 1
    BY <1>2
  <2> QED BY <2>1
<1>4. g \in [1..(l + 1) -> 2..(n + 1)]
  BY <1>2
<1> HIDE DEF g, st2
<1>5. \A i, j \in 1..(l + 1) : i < j => g[i] < g[j]
  <2> SUFFICES ASSUME NEW i \in 1..(l + 1), NEW j \in 1..(l + 1), i < j
               PROVE  g[i] < g[j]
    OBVIOUS
  <2>1. i \in 1..l
    BY <1>2
  <2>2. CASE j = l + 1
    BY <1>3, <2>1, <2>2
  <2>3. CASE j \in 1..l
    BY <1>1, <1>3, <2>1, <2>3
  <2> QED BY <1>3, <2>2, <2>3
<1>6. \A k \in 2..(n + 1) :
         gs[k].via = "jump" => \E i \in 1..(l + 1) : g[i] = k
  <2> SUFFICES ASSUME NEW k \in 2..(n + 1), gs[k].via = "jump"
               PROVE  \E i \in 1..(l + 1) : g[i] = k
    OBVIOUS
  <2>1. CASE k = n + 1
    <3>1. l + 1 \in 1..(l + 1)
      BY <1>2
    <3> QED BY <1>3, <2>1, <3>1
  <2>2. CASE k # n + 1
    <3>1. k \in 2..n /\ fs[k].via = "jump"
      BY <2>2
    <3>2. PICK i \in 1..l : f[i] = k
      BY <1>1, <3>1
    <3>3. i \in 1..(l + 1)
      BY <1>2
    <3> QED BY <1>3, <3>2, <3>3
  <2> QED BY <2>1, <2>2
<1>7. \A i \in 1..(l + 1) :
         /\ gs[g[i]].via = "jump"
         /\ st2[i] = <<gs[g[i] - 1].chain, gs[g[i] - 1].next>>
  <2> SUFFICES ASSUME NEW i \in 1..(l + 1)
               PROVE  /\ gs[g[i]].via = "jump"
                      /\ st2[i] = <<gs[g[i] - 1].chain, gs[g[i] - 1].next>>
    OBVIOUS
  <2>1. CASE i \in 1..l
    <3>1. f[i] \in 1..n /\ f[i] - 1 \in 1..(n - 1) /\ g[i] = f[i]
      BY <1>3, <2>1
    <3>2. gs[f[i]].via = fs[f[i]].via /\ fs[f[i]].via = "jump"
      BY <1>1, <2>1, <3>1
    <3>3. /\ gs[f[i] - 1].chain = fs[f[i] - 1].chain
          /\ gs[f[i] - 1].next = fs[f[i] - 1].next
      BY <3>1
    <3>4. st2[i] = <<fs[f[i] - 1].chain, fs[f[i] - 1].next>>
      BY <1>1, <1>2, <2>1
    <3> QED BY <3>1, <3>2, <3>3, <3>4
  <2>2. CASE i = l + 1
    <3>1. g[i] = n + 1 /\ g[i] - 1 = n
      BY <1>3, <2>2
    <3> QED BY <1>2, <2>2, <3>1
  <2> QED BY <1>3, <2>1, <2>2
<1>8. Mirrors(st2, gs)
  <2>1. Len(st2) = l + 1 /\ Len(gs) = n + 1
    BY <1>2
  <2>2. g \in [1..Len(st2) -> 2..Len(gs)]
    BY <1>4, <2>1
  <2>3. \A i, j \in 1..Len(st2) : i < j => g[i] < g[j]
    BY <1>5, <2>1
  <2>4. \A k \in 2..Len(gs) :
           gs[k].via = "jump" => \E i \in 1..Len(st2) : g[i] = k
    BY <1>6, <2>1
  <2>5. \A i \in 1..Len(st2) :
           /\ gs[g[i]].via = "jump"
           /\ st2[i] = <<gs[g[i] - 1].chain, gs[g[i] - 1].next>>
    BY <1>7, <2>1
  <2> QED BY <2>2, <2>3, <2>4, <2>5 DEF Mirrors
<1> QED BY <1>8 DEF st2

\* A return to the caller that jumped last pops where it goes on.
LEMMA MirrorPop ==
  ASSUME NEW n \in Nat, NEW fs, NEW gs, Len(fs) = n,
         NEW b \in 2..n, fs[b].via = "jump",
         \A i \in (b + 1)..n : fs[i].via = "goto",
         Len(gs) = b - 1,
         \A i \in 1..(b - 1) : gs[i] = fs[i],
         NEW st \in Seq(At), Mirrors(st, fs)
  PROVE  /\ st # <<>>
         /\ st[Len(st)] = <<fs[b - 1].chain, fs[b - 1].next>>
         /\ Mirrors(SubSeq(st, 1, Len(st) - 1), gs)
<1>1. PICK f \in [1..Len(st) -> 2..n] :
         /\ \A i, j \in 1..Len(st) : i < j => f[i] < f[j]
         /\ \A k \in 2..n :
               fs[k].via = "jump" => \E i \in 1..Len(st) : f[i] = k
         /\ \A i \in 1..Len(st) :
               /\ fs[f[i]].via = "jump"
               /\ st[i] = <<fs[f[i] - 1].chain, fs[f[i] - 1].next>>
  BY DEF Mirrors
<1> DEFINE l == Len(st)
           st2 == SubSeq(st, 1, l - 1)
<1>2. PICK o \in 1..l : f[o] = b
  BY <1>1
<1>3. l \in Nat /\ l >= 1
  <2>1. l \in Nat
    OBVIOUS
  <2> QED BY <2>1, <1>2
<1>4. \A i \in 1..l : f[i] <= b
  <2> SUFFICES ASSUME NEW i \in 1..l, ~(f[i] <= b) PROVE FALSE
    OBVIOUS
  <2>1. f[i] \in (b + 1)..n
    <3>1. f[i] \in 2..n
      OBVIOUS
    <3> QED BY <3>1
  <2>2. fs[f[i]].via = "jump"
    BY <1>1
  <2> QED BY <2>1, <2>2
<1>5. o = l
  <2> SUFFICES ASSUME o # l PROVE FALSE
    OBVIOUS
  <2>1. o < l /\ l \in 1..l
    BY <1>3
  <2>2. f[o] < f[l]
    BY <1>1, <2>1
  <2>3. f[l] \in 2..n /\ f[l] <= b
    BY <1>4, <2>1
  <2> QED BY <1>2, <2>2, <2>3
<1>6. /\ Len(st2) = l - 1
      /\ \A i \in 1..(l - 1) : st2[i] = st[i]
  <2>1. \A i \in 1..(l - 1) : st[i] \in At
    OBVIOUS
  <2> DEFINE m == l - 1
  <2>2. m \in Int /\ m >= 0 /\ 1 \in Int /\ m - 1 + 1 = m
    BY <1>3
  <2>3. \A i \in 1..m : st[i] \in At
    BY <2>1
  <2> HIDE DEF m
  <2>4. /\ Len(SubSeq(st, 1, m)) = IF 1 <= m THEN m - 1 + 1 ELSE 0
        /\ \A i \in 1..(m - 1 + 1) : SubSeq(st, 1, m)[i] = st[1 + i - 1]
    BY <2>2, <2>3, SubSeqProperties
  <2>5. /\ Len(SubSeq(st, 1, m)) = m
        /\ \A i \in 1..m : SubSeq(st, 1, m)[i] = st[i]
    BY <2>2, <2>4
  <2> QED BY <2>5 DEF m
<1>7. \A i \in 1..l : /\ fs[f[i]].via = "jump"
                       /\ st[i] = <<fs[f[i] - 1].chain, fs[f[i] - 1].next>>
  BY <1>1
<1> DEFINE g == [i \in 1..(l - 1) |-> f[i]]
<1>8. \A i \in 1..(l - 1) :
         i \in 1..l /\ i < l /\ g[i] = f[i] /\ f[i] \in 2..(b - 1)
  <2> SUFFICES ASSUME NEW i \in 1..(l - 1)
               PROVE  /\ i \in 1..l /\ i < l /\ g[i] = f[i]
                      /\ f[i] \in 2..(b - 1)
    OBVIOUS
  <2>1. i \in 1..l /\ i < l /\ g[i] = f[i]
    BY <1>3
  <2>2. f[i] < f[l]
    BY <1>1, <1>3, <2>1
  <2>3. f[i] \in 2..n /\ f[l] = b
    BY <1>2, <1>5, <2>1
  <2>4. f[i] \in 2..(b - 1)
    BY <2>2, <2>3
  <2> QED BY <2>1, <2>4
<1>9. g \in [1..(l - 1) -> 2..(b - 1)]
  BY <1>8
<1> HIDE DEF g, st2
<1>10. \A i, j \in 1..(l - 1) : i < j => g[i] < g[j]
  BY <1>1, <1>8
<1>11. \A k \in 2..(b - 1) :
          gs[k].via = "jump" => \E i \in 1..(l - 1) : g[i] = k
  <2> SUFFICES ASSUME NEW k \in 2..(b - 1), gs[k].via = "jump"
               PROVE  \E i \in 1..(l - 1) : g[i] = k
    OBVIOUS
  <2>1. k \in 2..n /\ k \in 1..(b - 1)
    OBVIOUS
  <2>2. fs[k].via = "jump"
    BY <2>1
  <2>3. PICK i \in 1..l : f[i] = k
    BY <1>1, <2>1, <2>2
  <2>4. i # l
    BY <1>2, <1>5, <2>3
  <2>5. i \in 1..(l - 1)
    BY <1>3, <2>4
  <2> QED BY <1>8, <2>3, <2>5
<1>12. \A i \in 1..(l - 1) :
          /\ gs[g[i]].via = "jump"
          /\ st2[i] = <<gs[g[i] - 1].chain, gs[g[i] - 1].next>>
  <2> SUFFICES ASSUME NEW i \in 1..(l - 1)
               PROVE  /\ gs[g[i]].via = "jump"
                      /\ st2[i] = <<gs[g[i] - 1].chain, gs[g[i] - 1].next>>
    OBVIOUS
  <2>1. i \in 1..l /\ g[i] = f[i] /\ f[i] \in 2..(b - 1)
    BY <1>8
  <2>2. gs[f[i]] = fs[f[i]] /\ gs[f[i] - 1] = fs[f[i] - 1]
    BY <2>1
  <2>3. fs[f[i]].via = "jump" /\ st[i] = <<fs[f[i] - 1].chain, fs[f[i] - 1].next>>
    BY <1>7, <2>1
  <2>4. st2[i] = st[i]
    BY <1>6
  <2> HIDE DEF g, st2
  <2> QED BY <2>1, <2>2, <2>3, <2>4
<1>13. Mirrors(st2, gs)
  <2>1. Len(st2) = l - 1 /\ Len(gs) = b - 1
    BY <1>6
  <2>2. g \in [1..Len(st2) -> 2..Len(gs)]
    BY <1>9, <2>1
  <2>3. \A i, j \in 1..Len(st2) : i < j => g[i] < g[j]
    BY <1>10, <2>1
  <2>4. \A k \in 2..Len(gs) :
           gs[k].via = "jump" => \E i \in 1..Len(st2) : g[i] = k
    BY <1>11, <2>1
  <2>5. \A i \in 1..Len(st2) :
           /\ gs[g[i]].via = "jump"
           /\ st2[i] = <<gs[g[i] - 1].chain, gs[g[i] - 1].next>>
    BY <1>12, <2>1
  <2> QED BY <2>2, <2>3, <2>4, <2>5 DEF Mirrors
<1>14. st # <<>> /\ st[l] = <<fs[b - 1].chain, fs[b - 1].next>>
  <2>1. f[l] = b /\ l \in 1..l
    BY <1>2, <1>3, <1>5
  <2>2. st[l] = <<fs[f[l] - 1].chain, fs[f[l] - 1].next>>
    BY <1>7, <2>1
  <2>3. st # <<>>
    BY <1>3
  <2> QED BY <2>1, <2>2, <2>3
<1> QED BY <1>13, <1>14 DEF st2

\* Without a caller that jumped there is nothing to go back to.
LEMMA MirrorEmpty ==
  ASSUME NEW fs, \A i \in 2..Len(fs) : fs[i].via = "goto",
         NEW st \in Seq(At), Mirrors(st, fs)
  PROVE  st = <<>>
<1>1. PICK f \in [1..Len(st) -> 2..Len(fs)] :
         \A i \in 1..Len(st) : fs[f[i]].via = "jump"
  BY DEF Mirrors
<1>2. \A i \in 1..Len(st) : FALSE
  <2> SUFFICES ASSUME NEW i \in 1..Len(st) PROVE FALSE
    OBVIOUS
  <2>1. f[i] \in 2..Len(fs)
    OBVIOUS
  <2> QED BY <1>1, <2>1
<1>3. Len(st) \in Nat
  OBVIOUS
<1>4. Len(st) = 0
  BY <1>2, <1>3
<1> QED BY <1>4, EmptySeq
\* The spot of the walk is one netfilter could be at.
LEMMA HereTyped ==
  ASSUME IInv, final = "none"
  PROVE  Here \in At /\ Here[1] = Top.chain /\ Here[2] = Top.next
<1>1. Top \in Frame
  BY WalkTyped
<1> QED BY <1>1 DEF Here, At, Frame

\* At a rule, netfilter does what the rule may do; at the end of a chain it goes
\* back.
LEMMA LeavesByRule ==
  ASSUME IInv, AtRule, NEW st, NEW q, NEW X, NEW v,
         \A e \in Effects(TheRule, q) : Leads(e, Here, st, X, v)
  PROVE  Leaves(<<Here, st>>, q, X, v)
<1>1. final = "none"
  BY DEF AtRule
<1>2. Here[1] = Top.chain /\ Here[2] = Top.next /\ Top.next \in Nat
  BY <1>1, HereTyped, WalkTyped DEF Frame
<1>3. ~(Top.next > Len(rules[Top.chain]))
  <2>1. Len(rules[Top.chain]) \in Nat
    BY <1>1, WalkTyped
  <2> QED BY <1>2, <2>1 DEF AtRule
<1> QED BY <1>2, <1>3 DEF Leaves, TheRule

\* At the end of a chain netfilter goes where its stack says.
LEMMA LeavesByEnd ==
  ASSUME IInv, final = "none", ~AtRule, NEW st, NEW q, NEW X, NEW v,
         Back(st, X, v)
  PROVE  Leaves(<<Here, st>>, q, X, v)
<1>1. Here[1] = Top.chain /\ Here[2] = Top.next /\ Top.next \in Nat
  BY HereTyped, WalkTyped DEF Frame
<1>2. Top.next > Len(rules[Top.chain])
  <2>1. Len(rules[Top.chain]) \in Nat
    BY WalkTyped
  <2> QED BY <1>1, <2>1 DEF AtRule
<1> QED BY <1>1, <1>2 DEF Leaves

\* A walk that returns goes back to where netfilter does.
LEMMA UpRight ==
  ASSUME IInv, final = "none", Up, UNCHANGED model,
         NEW X, X \subseteq Spot, Start \in X,
         NEW here, NEW st \in Seq(At), <<here, st>> \in X, Mirrors(st, frames),
         \A s \in X \ {<<here, st>>} : \A q \in Completions(pkt) :
            Leaves(s, q, X, "none"),
         \A q \in Completions(pkt) : \A Z, v :
            Back(st, Z, v) => Leaves(<<here, st>>, q, Z, v)
  PROVE  \E Y : Walked(Y)'
<1>1. /\ frames \in Seq(Frame) /\ frames # <<>>
      /\ Len(frames) \in Nat /\ Len(frames) >= 1
  BY WalkTyped
<1>2. /\ frames[1].via = "base"
      /\ \A i \in 2..Len(frames) : frames[i].via # "base"
  BY DEF IInv, FramesInv
<1>3. bases \in Seq(Base) /\ Seeing(pkt) # {}
  BY ModelTyped DEF IInv, FramesInv
<1>4. CASE /\ \A i \in 2..Len(frames) : frames[i].via = "goto"
           /\ final' = bases[First(Seeing(pkt))].policy
           /\ frames' = frames
  <2>1. st = <<>>
    BY <1>4, MirrorEmpty
  <2> DEFINE v == bases[First(Seeing(pkt))].policy
  <2>2. v # "none"
    BY <1>3, FirstSeeing DEF Base
  <2>3. Back(st, X, v)
    BY <2>1 DEF Back
  <2>4. final' = v
    BY <1>4
  <2> HIDE DEF v
  <2>5. \A q \in Completions(pkt) : Leaves(<<here, st>>, q, X, v)
    BY <2>3
  <2>6. PICK w : w = v
    OBVIOUS
  <2>7. /\ final' = w /\ w # "none"
        /\ \A q \in Completions(pkt) : Leaves(<<here, st>>, q, X, w)
    BY <2>2, <2>4, <2>5, <2>6
  <2>8. Walked(X)'
    BY <2>7, Decide
  <2> QED BY <2>8
<1>5. ASSUME NEW b \in 2..Len(frames), frames[b].via = "jump",
             \A i \in (b + 1)..Len(frames) : frames[i].via = "goto",
             frames' = SubSeq(frames, 1, b - 1), final' = final
      PROVE  \E Y : Walked(Y)'
  <2>1. \A i \in 1..(b - 1) : frames[i] \in Frame
    BY <1>1
  <2>2. /\ Len(frames') = b - 1 /\ Len(frames') \in Nat
        /\ \A i \in 1..(b - 1) : frames'[i] = frames[i]
    BY <1>1, <1>5, <2>1, SubSeqProperties
  <2> DEFINE n == Len(frames)
             st2 == SubSeq(st, 1, Len(st) - 1)
             h == st[Len(st)]
  <2>3. n \in Nat /\ b \in 2..n
    BY <1>1
  <2>4. /\ st # <<>>
        /\ h = <<frames[b - 1].chain, frames[b - 1].next>>
        /\ Mirrors(st2, frames')
    <3>1. PICK fs, gs : fs = frames /\ gs = frames'
      OBVIOUS
    <3>2. /\ Len(fs) = n /\ Len(gs) = b - 1 /\ fs[b].via = "jump"
          /\ \A i \in (b + 1)..n : fs[i].via = "goto"
          /\ \A i \in 1..(b - 1) : gs[i] = fs[i]
          /\ Mirrors(st, fs)
      BY <1>5, <2>2, <3>1
    <3> HIDE DEF n
    <3>3. /\ st # <<>>
          /\ st[Len(st)] = <<fs[b - 1].chain, fs[b - 1].next>>
          /\ Mirrors(SubSeq(st, 1, Len(st) - 1), gs)
      BY <2>3, <3>2, MirrorPop
    <3> QED BY <3>1, <3>3
  <2>5. Len(st) \in Nat /\ Len(st) >= 1
    BY <2>4, EmptySeq
  <2>6. h \in At /\ st2 \in Seq(At)
    BY <2>5
  <2>7. Here' = h
    <3>1. frames'[Len(frames')] = frames[b - 1]
      BY <2>2, <2>3
    <3> QED BY <2>4, <3>1 DEF Here, Top
  <2>8. \A q \in Completions(pkt) : Leaves(<<here, st>>, q, {<<h, st2>>}, "none")
    BY <2>4 DEF Back
  <2> HIDE DEF h, st2
  <2>9. PICK k \in At : k = h
    BY <2>6
  <2>10. PICK t2 \in Seq(At) : t2 = st2
    BY <2>6
  <2>11. /\ Here' = k /\ Mirrors(t2, frames') /\ final' = "none"
         /\ \A q \in Completions(pkt) :
               Leaves(<<here, st>>, q, {<<k, t2>>}, "none")
    BY <1>5, <2>4, <2>7, <2>8, <2>9, <2>10
  <2>12. Walked(X \cup {<<k, t2>>})'
    BY <2>11, Arrive
  <2> QED BY <2>12
<1> QED BY <1>1, <1>2, <1>4, <1>5, UpEffect
\* In a ruleset and for a packet the simulator sees the whole of.
LEMMA StateDescribed ==
  ASSUME IInv, Described
  PROVE  /\ \A c \in Chains : \A i \in DOMAIN rules[c] : Transparent(rules[c][i])
         /\ \A q \in Completions(pkt) : Seeing(q) = Seeing(pkt)
<1>1. PICK s \in Rulesets : rules = s.rules /\ bases = s.bases
  BY DEF IInv, ModelInv
<1>2. pkt \in Packets /\ pkt \in Packet /\ bases \in Seq(Base)
  BY ModelTyped DEF IInv, ModelInv
<1>3. \A c \in Chains : \A i \in DOMAIN rules[c] : Transparent(rules[c][i])
  BY <1>1 DEF Described
<1>4. pkt.src = None => \A i \in DOMAIN bases : bases[i].family = "inet"
  BY <1>1, <1>2 DEF Described, FamilyKnown
<1>5. ASSUME NEW q \in Completions(pkt)
      PROVE  Seeing(q) = Seeing(pkt)
  <2>1. pkt.src # None => q.src = pkt.src
    BY <1>2, CompletionTyped
  <2> QED BY <1>4, <2>1 DEF Seeing
<1> QED BY <1>3, <1>5

\* The rule the walk stands at hides nothing, if the instance is described.
LEMMA RuleDescribed ==
  ASSUME IInv, Described, AtRule
  PROVE  Transparent(TheRule)
<1>1. final = "none"
  BY DEF AtRule
<1>2. Top \in Frame /\ rules[Top.chain] \in Seq(Rule)
  BY <1>1, WalkTyped
<1>3. Top.chain \in Chains /\ Top.next \in Nat /\ Top.next >= 1
  BY <1>2 DEF Frame
<1>4. Top.next \in DOMAIN rules[Top.chain]
  BY <1>2, <1>3 DEF AtRule
<1> QED BY <1>3, <1>4, StateDescribed DEF TheRule

\* The walk moves on to the next rule, and so does netfilter.
LEMMA AdvanceRight ==
  ASSUME IInv, AtRule, frames' = Advanced, final' = "none", UNCHANGED model,
         NEW X, X \subseteq Spot, Start \in X,
         NEW st \in Seq(At), <<Here, st>> \in X, Mirrors(st, frames),
         \A s \in X \ {<<Here, st>>} : \A q \in Completions(pkt) :
            Leaves(s, q, X, "none"),
         \A q \in Completions(pkt) : \A e \in Effects(TheRule, q) :
            e.key \in {"note", "continue"}
  PROVE  \E Y : Walked(Y)'
<1>1. final = "none"
  BY DEF AtRule
<1>2. /\ frames \in Seq(Frame) /\ frames # <<>>
      /\ Len(frames) \in Nat /\ Len(frames) >= 1 /\ Top \in Frame
  BY <1>1, WalkTyped
<1>3. /\ Len(Advanced) = Len(frames)
      /\ \A i \in 1..Len(frames) : /\ Advanced[i].via = frames[i].via
                                   /\ Advanced[i].chain = frames[i].chain
      /\ \A i \in 1..(Len(frames) - 1) : Advanced[i] = frames[i]
      /\ Advanced[Len(frames)].next = Top.next + 1
  BY <1>2, AdvancedFrames
<1>4. PICK here : here = Here
  OBVIOUS
<1>5. PICK h : h = <<Top.chain, Top.next + 1>>
  OBVIOUS
<1>6. h \in At /\ h = <<here[1], here[2] + 1>>
  <2>1. Top.chain \in Chains /\ Top.next \in Nat
    BY <1>2 DEF Frame
  <2> QED BY <1>1, <1>4, <1>5, <2>1, HereTyped DEF At
<1>7. Here' = h
  <2>1. Len(frames) \in 1..Len(frames)
    BY <1>2
  <2>2. /\ frames'[Len(frames')].chain = Top.chain
        /\ frames'[Len(frames')].next = Top.next + 1
    BY <1>3, <2>1 DEF Top
  <2> QED BY <1>5, <2>2 DEF Here, Top
<1>8. Mirrors(st, frames')
  <2>1. PICK n, fs, gs : n = Len(frames) /\ fs = frames /\ gs = Advanced
    OBVIOUS
  <2>2. /\ n \in Nat /\ Len(fs) = n /\ Len(gs) = n
        /\ \A i \in 1..n : gs[i].via = fs[i].via
        /\ \A i \in 1..(n - 1) : gs[i].chain = fs[i].chain /\ gs[i].next = fs[i].next
        /\ Mirrors(st, fs)
    BY <1>2, <1>3, <2>1
  <2>3. n <= n /\ \A i \in (n + 1)..n : gs[i].via # "jump"
    BY <2>2
  <2>4. Mirrors(st, gs)
    BY <2>2, <2>3, MirrorKept
  <2> QED BY <2>1, <2>4
<1>9. \A q \in Completions(pkt) :
         Leaves(<<here, st>>, q, {<<h, st>>}, "none")
  <2> SUFFICES ASSUME NEW q \in Completions(pkt)
               PROVE  Leaves(<<here, st>>, q, {<<h, st>>}, "none")
    OBVIOUS
  <2>1. \A e \in Effects(TheRule, q) : Leads(e, Here, st, {<<h, st>>}, "none")
    BY <1>4, <1>6 DEF Leads, Verdicts
  <2> QED BY <1>4, <2>1, LeavesByRule
<1>10. Walked(X \cup {<<h, st>>})'
  BY <1>1, <1>4, <1>6, <1>7, <1>8, <1>9, Arrive
<1> QED BY <1>10

\* The walk follows a jump or a goto, and so does netfilter.
LEMMA EnterRight ==
  ASSUME IInv, AtRule, CanEnter, NEW how \in {"jump", "goto"},
         frames' = Append(IF how = "jump" THEN Advanced ELSE frames,
                          [chain |-> Target, next |-> 1, via |-> how]),
         final' = "none", UNCHANGED model,
         NEW X, X \subseteq Spot, Start \in X,
         NEW st \in Seq(At), <<Here, st>> \in X, Mirrors(st, frames),
         \A s \in X \ {<<Here, st>>} : \A q \in Completions(pkt) :
            Leaves(s, q, X, "none"),
         \A q \in Completions(pkt) : \A e \in Effects(TheRule, q) :
            e.key = how /\ e.to = Target
  PROVE  \E Y : Walked(Y)'
<1>1. final = "none"
  BY DEF AtRule
<1>2. /\ frames \in Seq(Frame) /\ frames # <<>>
      /\ Len(frames) \in Nat /\ Len(frames) >= 1 /\ Top \in Frame
  BY <1>1, WalkTyped
<1>3. /\ Advanced \in Seq(Frame) /\ Len(Advanced) = Len(frames)
      /\ \A i \in 1..Len(frames) : /\ Advanced[i].via = frames[i].via
                                   /\ Advanced[i].chain = frames[i].chain
      /\ \A i \in 1..(Len(frames) - 1) : Advanced[i] = frames[i]
      /\ Advanced[Len(frames)].next = Top.next + 1
  BY <1>2, AdvancedFrames
<1>4. Target \in Chains /\ Top.chain \in Chains /\ Top.next \in Nat
  BY <1>2 DEF CanEnter, Frame
<1>5. PICK n, fs, gs, here, h, after, new :
         /\ n = Len(frames) /\ fs = frames /\ gs = frames'
         /\ here = Here /\ h = <<Target, 1>>
         /\ after = <<Top.chain, Top.next + 1>>
         /\ new = [chain |-> Target, next |-> 1, via |-> how]
  OBVIOUS
<1>6. /\ h \in At /\ after \in At /\ after = <<here[1], here[2] + 1>>
  BY <1>1, <1>4, <1>5, HereTyped DEF At
<1>7. new \in Frame /\ new.chain = Target /\ new.next = 1 /\ new.via = how
  BY <1>4, <1>5 DEF Frame
<1> DEFINE g == IF how = "jump" THEN Advanced ELSE frames
<1>8. /\ g \in Seq(Frame) /\ Len(g) = n /\ n \in Nat /\ n >= 1
      /\ \A i \in 1..n : g[i].via = fs[i].via /\ g[i].chain = fs[i].chain
      /\ \A i \in 1..(n - 1) : g[i] = fs[i]
      /\ how = "jump" => g[n].next = Top.next + 1
  BY <1>2, <1>3, <1>5
<1>9. gs = Append(g, new)
  BY <1>5
<1> HIDE DEF g
<1>10. /\ Len(gs) = n + 1
       /\ \A i \in 1..n : gs[i] = g[i]
       /\ gs[n + 1] = new
  BY <1>7, <1>8, <1>9
<1>11. Here' = h
  BY <1>5, <1>7, <1>10 DEF Here, Top
<1>12. /\ n \in Nat /\ n + 1 \in Nat /\ n >= 1 /\ n <= n + 1
       /\ Len(fs) = n /\ Len(gs) = n + 1
       /\ \A i \in 1..n : gs[i].via = fs[i].via
       /\ \A i \in 1..(n - 1) :
             gs[i].chain = fs[i].chain /\ gs[i].next = fs[i].next
       /\ Mirrors(st, fs)
  <2>1. \A i \in 1..(n - 1) : i \in 1..n /\ gs[i] = fs[i]
    BY <1>8, <1>10
  <2>2. \A i \in 1..n : gs[i].via = fs[i].via
    BY <1>8, <1>10
  <2>3. Len(fs) = n /\ Mirrors(st, fs)
    BY <1>5
  <2> QED BY <1>8, <1>10, <2>1, <2>2, <2>3
<1>13. CASE how = "goto"
  <2>1. gs[n + 1].via # "jump"
    BY <1>7, <1>10, <1>13
  <2>2. Mirrors(st, gs)
    BY <1>12, <2>1, MirrorGoto
  <2>3. ASSUME NEW q \in Completions(pkt)
        PROVE  Leaves(<<here, st>>, q, {<<h, st>>}, "none")
    <3>1. \A e \in Effects(TheRule, q) : Leads(e, Here, st, {<<h, st>>}, "none")
      BY <1>5, <1>13 DEF Leads, Verdicts
    <3> QED BY <1>5, <3>1, LeavesByRule
  <2>4. Walked(X \cup {<<h, st>>})'
    BY <1>1, <1>5, <1>6, <1>11, <2>2, <2>3, Arrive
  <2> QED BY <2>4
<1>14. CASE how = "jump"
  <2>1. gs[n + 1].via = "jump" /\ after = <<gs[n].chain, gs[n].next>>
    <3>1. n \in 1..n
      BY <1>8
    <3>2. gs[n].chain = Top.chain /\ gs[n].next = Top.next + 1
      BY <1>5, <1>8, <1>10, <1>14, <3>1 DEF Top
    <3> QED BY <1>5, <1>7, <1>10, <1>14, <3>2
  <2>2. PICK st2 : st2 = Append(st, after)
    OBVIOUS
  <2>3. Mirrors(st2, gs)
    BY <1>6, <1>12, <2>1, <2>2, MirrorPush
  <2>4. st2 \in Seq(At)
    BY <1>6, <2>2
  <2>5. ASSUME NEW q \in Completions(pkt)
        PROVE  Leaves(<<here, st>>, q, {<<h, st2>>}, "none")
    <3>1. \A e \in Effects(TheRule, q) :
             Leads(e, Here, st, {<<h, st2>>}, "none")
      BY <1>5, <1>6, <1>14, <2>2 DEF Leads, Verdicts
    <3> QED BY <1>5, <3>1, LeavesByRule
  <2>6. Walked(X \cup {<<h, st2>>})'
    BY <1>1, <1>5, <1>6, <1>11, <2>3, <2>4, <2>5, Arrive
  <2> QED BY <2>6
<1> QED BY <1>13, <1>14
\* Netfilter does with the packet what the rule that matched says.
LEMMA RuleFollowed ==
  ASSUME IInv, Described, NEW keys, Matched(keys),
         NEW q \in Completions(pkt), NEW e \in Effects(TheRule, q)
  PROVE  /\ RuleVerdict(TheRule).key \in keys
         /\ \/ e = RuleVerdict(TheRule)
            \/ /\ e.key = "note"
               /\ RuleVerdict(TheRule).key \in {"note", "continue"}
<1>1. /\ AtRule /\ TheRule.enabled /\ MatchRule(TheRule, pkt) = "yes"
      /\ RuleVerdict(TheRule).key \in keys
  BY DEF Matched
<1>2. TheRule \in Rule /\ pkt \in Packet
  BY <1>1, WalkTyped, ModelTyped DEF AtRule, IInv
<1>3. Transparent(TheRule)
  BY <1>1, RuleDescribed
<1>4. \/ e = RuleVerdict(TheRule)
      \/ e = Passes /\ RuleVerdict(TheRule).key \in {"note", "continue"}
  BY <1>1, <1>2, <1>3, RuleApplies
<1> QED BY <1>1, <1>4 DEF Passes

\* The way the walk has come, with the spot it leaves added, is the way after it.
LEMMA WalkStep ==
  ASSUME IInv, Described, Walk, ~uncertain', NEW X, Walked(X)
  PROVE  \E Y : Walked(Y)'
<1>1. final = "none"
  BY DEF Walk, RuleSkipped, RuleUnknown, RuleDecides, RulePasses, RuleJumps,
         RuleGoes, RuleReturns, ChainEnds, Matched, AtRule
<1>2. UNCHANGED model
  BY DEF Walk, RuleSkipped, RuleUnknown, RuleDecides, RulePasses, RuleJumps,
         RuleGoes, RuleReturns, ChainEnds
<1>3. X \subseteq Spot /\ Start \in X
  BY DEF Walked
<1>4. PICK st \in Seq(At) :
         /\ Mirrors(st, frames)
         /\ <<Here, st>> \in X
         /\ \A s \in X \ {<<Here, st>>} : \A q \in Completions(pkt) :
               Leaves(s, q, X, "none")
  BY <1>1 DEF Walked
<1>5. PICK here : here = Here
  OBVIOUS
<1>6. pkt \in Packet
  BY ModelTyped DEF IInv
<1>7. CASE RuleSkipped
  <2>1. AtRule /\ frames' = Advanced /\ final' = "none"
    BY <1>1, <1>7 DEF RuleSkipped
  <2>2. TheRule \in Rule
    BY <1>1, <2>1, WalkTyped
  <2>3. ASSUME NEW q \in Completions(pkt), NEW e \in Effects(TheRule, q)
        PROVE  e.key \in {"note", "continue"}
    <3>1. Effects(TheRule, q) = {Passes}
      BY <1>6, <1>7, <2>1, <2>2, RuleDescribed, RuleSkips DEF RuleSkipped
    <3> QED BY <3>1 DEF Passes
  <2> QED BY <1>2, <1>3, <1>4, <2>1, <2>3, AdvanceRight
<1>8. CASE RuleUnknown
  BY <1>8 DEF RuleUnknown
<1>9. CASE RuleDecides
  <2>1. AtRule /\ Matched(Verdicts)
    BY <1>9 DEF RuleDecides, Matched
  <2>2. PICK v : v = RuleVerdict(TheRule).key
    OBVIOUS
  <2>3. v \in Verdicts /\ final' = v /\ v # "none"
    BY <1>9, <2>2 DEF RuleDecides, Matched, Verdicts
  <2>4. ASSUME NEW q \in Completions(pkt)
        PROVE  Leaves(<<here, st>>, q, X, v)
    <3>1. ASSUME NEW e \in Effects(TheRule, q)
          PROVE  Leads(e, Here, st, X, v)
      <4>1. e.key = v
        BY <2>1, <2>2, <2>3, <3>1, RuleFollowed DEF Verdicts
      <4> QED BY <2>3, <4>1 DEF Leads, Verdicts
    <3> QED BY <1>5, <2>1, <3>1, LeavesByRule
  <2>5. Walked(X)'
    BY <1>1, <1>2, <1>3, <1>4, <1>5, <2>3, <2>4, Decide
  <2> QED BY <2>5
<1>10. CASE RulePasses
  <2>1. /\ AtRule /\ frames' = Advanced /\ final' = "none"
        /\ Matched({"note", "continue"})
    BY <1>1, <1>10 DEF RulePasses, Matched
  <2>2. ASSUME NEW q \in Completions(pkt), NEW e \in Effects(TheRule, q)
        PROVE  e.key \in {"note", "continue"}
    BY <2>1, <2>2, RuleFollowed
  <2> QED BY <1>2, <1>3, <1>4, <2>1, <2>2, AdvanceRight
<1>11. CASE RuleJumps
  <2>1. AtRule /\ Matched({"jump"}) /\ final' = "none" /\ CanEnter
    BY <1>1, <1>11 DEF RuleJumps, Matched
  <2>2. frames' = Append(IF "jump" = "jump" THEN Advanced ELSE frames,
                         [chain |-> Target, next |-> 1, via |-> "jump"])
    BY <1>11, <2>1 DEF RuleJumps
  <2>3. ASSUME NEW q \in Completions(pkt), NEW e \in Effects(TheRule, q)
        PROVE  e.key = "jump" /\ e.to = Target
    BY <2>1, <2>3, RuleFollowed DEF Target
  <2> QED BY <1>2, <1>3, <1>4, <2>1, <2>2, <2>3, EnterRight
<1>12. CASE RuleGoes
  <2>1. AtRule /\ Matched({"goto"}) /\ CanEnter
    BY <1>12 DEF RuleGoes, Matched
  <2>2. final' = "none"
    BY <1>1, <1>12, <2>1 DEF RuleGoes
  <2>3. frames' = Append(IF "goto" = "jump" THEN Advanced ELSE frames,
                         [chain |-> Target, next |-> 1, via |-> "goto"])
    BY <1>12, <2>1 DEF RuleGoes
  <2>4. ASSUME NEW q \in Completions(pkt), NEW e \in Effects(TheRule, q)
        PROVE  e.key = "goto" /\ e.to = Target
    BY <2>1, <2>4, RuleFollowed DEF Target
  <2> QED BY <1>2, <1>3, <1>4, <2>1, <2>2, <2>3, <2>4, EnterRight
<1>13. CASE RuleReturns
  <2>1. AtRule /\ Matched({"return"}) /\ Up
    BY <1>13 DEF RuleReturns, Matched
  <2>2. ASSUME NEW q \in Completions(pkt), NEW Z, NEW v, Back(st, Z, v)
        PROVE  Leaves(<<here, st>>, q, Z, v)
    <3>1. ASSUME NEW e \in Effects(TheRule, q)
          PROVE  Leads(e, Here, st, Z, v)
      <4>1. e.key = "return"
        BY <2>1, <3>1, RuleFollowed
      <4> QED BY <2>2, <4>1 DEF Leads, Verdicts
    <3> QED BY <1>5, <2>1, <3>1, LeavesByRule
  <2> QED BY <1>1, <1>2, <1>3, <1>4, <1>5, <2>1, <2>2, UpRight
<1>14. CASE ChainEnds
  <2>1. ~AtRule /\ Up
    BY <1>14 DEF ChainEnds
  <2>2. ASSUME NEW q \in Completions(pkt), NEW Z, NEW v, Back(st, Z, v)
        PROVE  Leaves(<<here, st>>, q, Z, v)
    BY <1>1, <1>5, <2>1, <2>2, LeavesByEnd
  <2> QED BY <1>1, <1>2, <1>3, <1>4, <1>5, <2>1, <2>2, UpRight
<1> QED BY <1>7, <1>8, <1>9, <1>10, <1>11, <1>12, <1>13, <1>14 DEF Walk

\* Every step of the walk keeps RightInv.
LEMMA WalkRight ==
  ASSUME IInv, Described, RightInv, Walk
  PROVE  RightInv'
<1>1. final = "none" /\ UNCHANGED <<model, kern>>
  BY DEF Walk, RuleSkipped, RuleUnknown, RuleDecides, RulePasses, RuleJumps,
         RuleGoes, RuleReturns, ChainEnds, Matched, AtRule
<1>2. kat = <<>> /\ kfinal = "none" /\ kat' = <<>> /\ kfinal' = "none"
  BY <1>1 DEF RightInv, kern
<1>3. Seeing(pkt) # {} /\ Seeing(pkt)' = Seeing(pkt)
  BY <1>1, SeeingKept DEF IInv, FramesInv, model
<1>4. ~uncertain' => ~uncertain
  <2>1. uncertain' = uncertain \/ uncertain' = TRUE
    BY DEF Walk, RuleSkipped, RuleUnknown, RuleDecides, RulePasses, RuleJumps,
           RuleGoes, RuleReturns, ChainEnds
  <2> QED BY <2>1
<1>5. ~uncertain' => \E Y : Walked(Y)'
  <2> SUFFICES ASSUME ~uncertain' PROVE \E Y : Walked(Y)'
    OBVIOUS
  <2>1. PICK X : Walked(X)
    BY <1>3, <1>4 DEF RightInv
  <2> QED BY <2>1, WalkStep
<1> QED BY <1>2, <1>3, <1>5 DEF RightInv, CertainIsRight, KRunning
\* What netfilter does changes nothing about the way the walk has come.
LEMMA WalkedKept ==
  ASSUME UNCHANGED <<model, walk>>, NEW X, Walked(X)
  PROVE  Walked(X)'
<1>1. /\ final' = final /\ frames' = frames /\ pkt' = pkt /\ bases' = bases
  BY DEF model, walk
<1>2. Start' = Start /\ Here' = Here
  <2>1. First(Seeing(pkt))' = First(Seeing(pkt))
    BY SeeingKept, <1>1 DEF First
  <2> QED BY <1>1, <2>1 DEF Start, Here, Top
<1>3. PICK v : v = final
  OBVIOUS
<1>4. UNCHANGED model
  OBVIOUS
<1>5. ASSUME v = "none"
      PROVE  Walked(X)'
  <2>1. PICK st \in Seq(At) :
           /\ Mirrors(st, frames)
           /\ <<Here, st>> \in X
           /\ \A s \in X \ {<<Here, st>>} : \A q \in Completions(pkt) :
                 Leaves(s, q, X, "none")
    BY <1>3, <1>5 DEF Walked
  <2>2. PICK here : here = Here
    OBVIOUS
  <2>3. ASSUME NEW s \in X \ {<<here, st>>}, NEW q \in Completions(pkt)
        PROVE  Leaves(s, q, X, "none")'
    <3>1. Leaves(s, q, X, "none")
      BY <2>1, <2>2
    <3> QED BY <1>4, <3>1, LeavesKept
  <2>4. /\ Mirrors(st, frames')
        /\ <<Here', st>> \in X
        /\ \A s \in X \ {<<Here', st>>} : \A q \in Completions(pkt') :
              Leaves(s, q, X, "none")'
    BY <1>1, <1>2, <2>1, <2>2, <2>3
  <2>5. X \subseteq Spot /\ Start' \in X /\ final' = "none"
    BY <1>1, <1>2, <1>3, <1>5 DEF Walked
  <2> QED BY <2>4, <2>5 DEF Walked
<1>6. ASSUME v # "none"
      PROVE  Walked(X)'
  <2>1. \A s \in X : \A q \in Completions(pkt) : Leaves(s, q, X, v)
    <3>1. \A s \in X : \A q \in Completions(pkt) : Leaves(s, q, X, final)
      BY <1>3, <1>6 DEF Walked
    <3>2. \A st : Back(st, X, v) <=> Back(st, X, final)
      BY <1>3 DEF Back
    <3>3. \A e, at, st : Leads(e, at, st, X, v) <=> Leads(e, at, st, X, final)
      BY <1>3, <3>2 DEF Leads
    <3> QED BY <3>1, <3>2, <3>3 DEF Leaves
  <2>2. \A s \in X : \A q \in Completions(pkt') : Leaves(s, q, X, v)'
    BY <1>1, <1>4, <2>1, LeavesKept
  <2>3. \A s \in X : \A q \in Completions(pkt') : Leaves(s, q, X, final)'
    <3>1. v = final'
      BY <1>1, <1>3
    <3>2. \A st : Back(st, X, v)' <=> Back(st, X, final)'
      BY <3>1 DEF Back
    <3>3. \A e, at, st : Leads(e, at, st, X, v)' <=> Leads(e, at, st, X, final)'
      BY <3>1, <3>2 DEF Leads
    <3> QED BY <2>2, <3>2, <3>3 DEF Leaves
  <2>4. X \subseteq Spot /\ Start' \in X /\ final' # "none"
    BY <1>1, <1>2, <1>3, <1>6 DEF Walked
  <2> QED BY <2>3, <2>4 DEF Walked
<1> QED BY <1>5, <1>6

\* The base chain the walk began at stays the same.
LEMMA BaseKept ==
  ASSUME UNCHANGED <<model, walk>>
  PROVE  /\ Seeing(pkt)' = Seeing(pkt)
         /\ First(Seeing(pkt))' = First(Seeing(pkt))
         /\ Simulated' = Simulated
         /\ final' = final /\ uncertain' = uncertain /\ pkt' = pkt
         /\ bases' = bases
<1>1. Seeing(pkt)' = Seeing(pkt) /\ bases' = bases
  BY SeeingKept DEF model
<1>2. First(Seeing(pkt))' = First(Seeing(pkt))
  BY <1>1 DEF First
<1>3. final' = final /\ uncertain' = uncertain /\ pkt' = pkt
  BY DEF model, walk
<1> QED BY <1>1, <1>2, <1>3 DEF Simulated

\* Netfilter has gone one step within a base chain, along the way if it is the
\* walk's.
LEMMA KernFollows ==
  ASSUME IInv, RightInv, KRunning, NEW X, Walked(X),
         UNCHANGED <<model, walk, kpkt, kbase, kleft, kfinal>>,
         kbase = First(Seeing(pkt)) => <<kat', kstack'>> \in X,
         kat' # <<>>
  PROVE  RightInv'
<1>1. /\ final # "none" /\ ~uncertain /\ Seeing(pkt) # {}
      /\ kpkt \in Completions(pkt) /\ kfinal = "none"
      /\ \/ kbase = First(Seeing(pkt))
         \/ First(Seeing(pkt)) \in kleft
         \/ final = "accept"
  BY DEF RightInv, KRunning
<1>2. Walked(X)'
  BY WalkedKept
<1> QED BY <1>1, <1>2, BaseKept DEF RightInv, CertainIsRight

\* Netfilter comes to its next base chain, or lets the packet in.
LEMMA KernEnters ==
  ASSUME IInv, RightInv, final # "none", ~uncertain, Seeing(pkt) # {},
         kfinal = "none", UNCHANGED <<model, walk>>,
         kpkt' \in Completions(pkt),
         NEW left \in SUBSET (DOMAIN bases), Enter(left),
         First(Seeing(pkt)) \in left \/ final = "accept"
  PROVE  RightInv'
<1> DEFINE D == First(Seeing(pkt))
<1>1. PICK X : Walked(X)
  BY DEF RightInv
<1>2. Walked(X)' /\ Start \in X
  BY <1>1, WalkedKept DEF Walked
<1>3. kpkt' \in Completions(pkt')
  BY BaseKept
<1>4. CASE left = {}
  <2>1. kfinal' = "accept" /\ final = "accept"
    BY <1>4 DEF Enter
  <2> QED BY <1>2, <1>3, <2>1, BaseKept DEF RightInv, CertainIsRight, KRunning
<1>5. CASE left # {}
  <2>1. PICK i \in left : /\ kbase' = i /\ kleft' = left \ {i}
                          /\ kat' = <<bases[i].chain, 1>>
                          /\ kstack' = <<>> /\ kfinal' = "none"
    BY <1>5 DEF Enter
  <2>2. kbase' = D \/ D \in kleft' \/ final = "accept"
    BY <2>1
  <2>3. kbase' = D => <<kat', kstack'>> \in X
    BY <1>2, <2>1 DEF Start
  <2> QED BY <1>2, <1>3, <2>1, <2>2, <2>3, BaseKept
          DEF RightInv, CertainIsRight, KRunning
<1> QED BY <1>4, <1>5

\* A base chain has decided: the walk's as the walk has.
LEMMA KernDecides ==
  ASSUME IInv, RightInv, KRunning, NEW v \in Verdicts, KDecided(v),
         kbase = First(Seeing(pkt)) => v = final
  PROVE  RightInv'
<1>1. /\ final # "none" /\ ~uncertain /\ Seeing(pkt) # {}
      /\ kpkt \in Completions(pkt) /\ kfinal = "none" /\ kat # <<>>
      /\ \/ kbase = First(Seeing(pkt))
         \/ First(Seeing(pkt)) \in kleft
         \/ final = "accept"
  BY DEF RightInv, KRunning
<1>2. UNCHANGED <<model, walk>> /\ kpkt' = kpkt
  BY DEF KDecided
<1>3. CASE v = "accept"
  <2>1. kleft \in SUBSET (DOMAIN bases) /\ Enter(kleft)
    BY <1>3 DEF KDecided, IInv, SimTypeOK
  <2>2. First(Seeing(pkt)) \in kleft \/ final = "accept"
    BY <1>1, <1>3
  <2> QED BY <1>1, <1>2, <2>1, <2>2, KernEnters
<1>4. CASE v # "accept"
  <2>1. kfinal' = v /\ kat' = kat /\ kbase' = kbase
    BY <1>4 DEF KDecided
  <2>2. PICK X : Walked(X)
    BY <1>1 DEF RightInv
  <2>3. Walked(X)'
    BY <1>2, <2>2, WalkedKept
  <2>4. CertainIsRight'
    <3>1. v = final \/ kbase \notin Simulated
      BY <1>1 DEF Simulated
    <3> QED BY <1>2, <1>4, <2>1, <3>1, BaseKept DEF CertainIsRight
  <2>5. ~KRunning'
    BY <2>1 DEF KRunning, Verdicts
  <2> QED BY <1>1, <1>2, <2>1, <2>3, <2>4, <2>5, BaseKept DEF RightInv
<1> QED BY <1>3, <1>4

\* Netfilter's packet stays on that way, and leaves it with the walk's answer.
LEMMA KernelRight ==
  ASSUME IInv, Described, RightInv, Kernel
  PROVE  RightInv'
<1> DEFINE D == First(Seeing(pkt))
<1>1. CASE KStart
  <2>1. /\ final # "none" /\ ~uncertain /\ kat = <<>> /\ kfinal = "none"
        /\ kpkt' \in Completions(pkt) /\ Enter(Seeing(kpkt'))
        /\ UNCHANGED <<model, walk>>
    BY <1>1 DEF KStart
  <2>2. Seeing(kpkt') = Seeing(pkt)
    BY <2>1, StateDescribed
  <2>3. CASE Seeing(pkt) = {}
    <3>1. /\ final = "accept" /\ kat' = <<>> /\ kfinal' = "accept"
      BY <2>1, <2>2, <2>3 DEF Enter, RightInv
    <3> QED BY <2>1, <2>3, <3>1, BaseKept
            DEF RightInv, CertainIsRight, KRunning
  <2>4. CASE Seeing(pkt) # {}
    <3>1. PICK left : left = Seeing(pkt)
      OBVIOUS
    <3>2. left \in SUBSET (DOMAIN bases) /\ bases \in Seq(Base)
      BY <3>1, ModelTyped DEF Seeing, IInv
    <3>3. First(left) \in left
      BY <2>4, <3>1, <3>2, FirstIsOne
    <3> QED BY <2>1, <2>2, <2>4, <3>1, <3>2, <3>3, KernEnters
  <2> QED BY <2>3, <2>4
<1>2. ASSUME KRunning
      PROVE  \E X : /\ Walked(X)
                    /\ kbase = D =>
                          /\ <<kat, kstack>> \in X
                          /\ Leaves(<<kat, kstack>>, kpkt, X, final)
  <2>1. /\ final # "none" /\ ~uncertain /\ Seeing(pkt) # {}
        /\ kpkt \in Completions(pkt) /\ kat # <<>> /\ kfinal = "none"
    BY <1>2 DEF RightInv, KRunning
  <2>2. PICK X : Walked(X) /\ (kbase = D => <<kat, kstack>> \in X)
    BY <1>2, <2>1 DEF RightInv
  <2>3. kbase = D => Leaves(<<kat, kstack>>, kpkt, X, final)
    BY <2>1, <2>2 DEF Walked
  <2> QED BY <2>2, <2>3
<1>3. ASSUME KRunning, KUp, NEW X, Walked(X),
             kbase = D => Back(kstack, X, final)
      PROVE  RightInv'
  <2>1. CASE kstack = <<>>
    <3>1. PICK v : v = bases[kbase].policy
      OBVIOUS
    <3>2. KDecided(v) /\ v \in Verdicts
      BY <1>3, <2>1, <3>1, KernTyped DEF KUp, Base, Verdicts
    <3>3. kbase = D => v = final
      BY <1>3, <2>1, <3>1 DEF Back
    <3> QED BY <1>3, <3>2, <3>3, KernDecides
  <2>2. CASE kstack # <<>>
    <3>1. /\ kat' = kstack[Len(kstack)]
          /\ kstack' = SubSeq(kstack, 1, Len(kstack) - 1)
          /\ UNCHANGED <<model, walk, kpkt, kbase, kleft, kfinal>>
      BY <1>3, <2>2 DEF KUp
    <3>2. kbase = D => <<kat', kstack'>> \in X
      BY <1>3, <2>2, <3>1 DEF Back
    <3>3. kat' # <<>>
      <4>1. kstack \in Seq(At)
        BY <1>3, KernTyped
      <4>2. Len(kstack) \in Nat /\ Len(kstack) >= 1
        BY <2>2, <4>1, EmptySeq
      <4>3. kat' \in At
        BY <3>1, <4>1, <4>2
      <4> QED BY <4>3 DEF At
    <3> QED BY <1>3, <3>1, <3>2, <3>3, KernFollows
  <2> QED BY <2>1, <2>2
<1>4. CASE KRunning /\ KEnd /\ KUp
  <2>1. PICK X : Walked(X)
                 /\ (kbase = D => Leaves(<<kat, kstack>>, kpkt, X, final))
    BY <1>2, <1>4
  <2>2. kbase = D => Back(kstack, X, final)
    BY <1>4, <2>1 DEF Leaves, KEnd
  <2> QED BY <1>3, <1>4, <2>1, <2>2
<1>5. ASSUME KRunning, ~KEnd,
             NEW e \in Effects(rules[kat[1]][kat[2]], kpkt), KRule(e)
      PROVE  RightInv'
  <2>1. PICK X : Walked(X)
                 /\ (kbase = D => Leaves(<<kat, kstack>>, kpkt, X, final))
    BY <1>2, <1>5
  <2>2. kbase = D => Leads(e, kat, kstack, X, final)
    BY <1>5, <2>1 DEF Leaves, KEnd
  <2> DEFINE after == <<kat[1], kat[2] + 1>>
  <2>3. CASE e.key \in {"note", "continue"} /\ KNext(after)
    <3>1. /\ kbase = D => <<kat', kstack'>> \in X
          /\ kat' # <<>>
          /\ UNCHANGED <<model, walk, kpkt, kbase, kleft, kfinal>>
      BY <2>2, <2>3 DEF KNext, Leads
    <3> QED BY <1>5, <2>1, <3>1, KernFollows
  <2>4. CASE e.key = "goto" /\ e.to \in Chains /\ KNext(<<e.to, 1>>)
    <3>1. /\ kbase = D => <<kat', kstack'>> \in X
          /\ kat' # <<>>
          /\ UNCHANGED <<model, walk, kpkt, kbase, kleft, kfinal>>
      BY <2>2, <2>4 DEF KNext, Leads
    <3> QED BY <1>5, <2>1, <3>1, KernFollows
  <2>5. CASE /\ e.key = "jump" /\ e.to \in Chains
             /\ kat' = <<e.to, 1>>
             /\ kstack' = Append(kstack, after)
             /\ UNCHANGED <<model, walk, kpkt, kbase, kleft, kfinal>>
    <3>1. (kbase = D => <<kat', kstack'>> \in X) /\ kat' # <<>>
      BY <2>2, <2>5 DEF Leads
    <3> QED BY <1>5, <2>1, <2>5, <3>1, KernFollows
  <2>6. CASE e.key = "return" /\ KUp
    <3>1. kbase = D => Back(kstack, X, final)
      BY <2>2, <2>6 DEF Leads
    <3> QED BY <1>3, <1>5, <2>1, <2>6, <3>1
  <2>7. CASE e.key \in Verdicts /\ KDecided(e.key)
    <3>1. kbase = D => e.key = final
      BY <2>2, <2>7 DEF Leads
    <3> QED BY <1>5, <2>7, <3>1, KernDecides
  <2> QED BY <1>5, <2>3, <2>4, <2>5, <2>6, <2>7 DEF KRule
<1> QED BY <1>1, <1>4, <1>5 DEF Kernel

\* At first the way is the spot where the walk begins.
LEMMA InitRight == Init /\ IInv => RightInv
<1> SUFFICES ASSUME Init, IInv PROVE RightInv
  OBVIOUS
<1>1. kat = <<>> /\ kfinal = "none" /\ uncertain = FALSE
  BY DEF Init
<1>2. CASE Seeing(pkt) = {}
  <2>1. final = "accept"
    BY <1>2 DEF Init
  <2> QED BY <1>1, <1>2, <2>1 DEF RightInv, CertainIsRight, KRunning
<1>3. CASE Seeing(pkt) # {}
  <2>1. PICK h : h = <<bases[First(Seeing(pkt))].chain, 1>>
    OBVIOUS
  <2>2. /\ frames = <<[chain |-> bases[First(Seeing(pkt))].chain,
                       next  |-> 1, via |-> "base"]>>
        /\ final = "none"
    BY <1>3 DEF Init
  <2>3. Len(frames) = 1 /\ Top.chain = h[1] /\ Top.next = h[2] /\ Here = h
    BY <2>1, <2>2 DEF Top, Here
  <2>4. h \in At /\ <<h, <<>>>> \in Spot
    <3>1. h \in At
      BY <2>2, <2>3, HereTyped
    <3>2. <<>> \in Seq(At)
      BY EmptySeq
    <3> QED BY <3>1, <3>2 DEF Spot
  <2>5. Mirrors(<<>>, frames)
    <3>1. \A k \in 2..Len(frames) : FALSE
      BY <2>3
    <3>2. \A i \in 1..Len(<<>>) : FALSE
      BY EmptySeq
    <3>3. [i \in 1..Len(<<>>) |-> 2] \in [1..Len(<<>>) -> 2..Len(frames)]
      BY <3>2
    <3> QED BY <3>1, <3>2, <3>3 DEF Mirrors
  <2>6. Walked({<<h, <<>>>>})
    <3>1. <<>> \in Seq(At)
      BY EmptySeq
    <3>2. Start = <<h, <<>>>>
      BY <2>1 DEF Start
    <3> QED BY <2>2, <2>3, <2>4, <2>5, <3>1, <3>2 DEF Walked
  <2> QED BY <1>1, <1>3, <2>2, <2>6 DEF RightInv, CertainIsRight, KRunning
<1> QED BY <1>2, <1>3

\* A step that changes nothing keeps RightInv.
LEMMA StutterRight ==
  ASSUME RightInv, UNCHANGED vars
  PROVE  RightInv'
<1>1. /\ final' = final /\ uncertain' = uncertain /\ pkt' = pkt
      /\ kat' = kat /\ kfinal' = kfinal /\ kpkt' = kpkt /\ kstack' = kstack
      /\ kbase' = kbase /\ kleft' = kleft
      /\ UNCHANGED <<model, walk>>
  BY DEF vars, model, walk, kern
<1>2. \A X : Walked(X) => Walked(X)'
  BY <1>1, WalkedKept
<1> QED BY <1>1, <1>2, BaseKept DEF RightInv, CertainIsRight, KRunning

\* An answer that is not flagged is right, on every ruleset and for every
\* packet whose text the simulator reads the whole of: netfilter, which goes
\* through every base chain on the hook, with any packet that fits the description
\* and any outcome of the conditions left open, never lets in what the simulator
\* denies, and denies what it lets in only in a base chain the simulator did not
\* come to (simulate.go:7-10, 88-92, 216-308, match.go:53-299).
THEOREM CertainAnswers ==
  ASSUME Described
  PROVE  Spec => []CertainIsRight
<1>1. Init => IInv /\ RightInv
  BY InitTyped, InitRight
<1>2. IInv /\ RightInv /\ [Next]_vars => (IInv /\ RightInv)'
  <2> SUFFICES ASSUME IInv, RightInv, [Next]_vars PROVE (IInv /\ RightInv)'
    OBVIOUS
  <2>1. IInv'
    BY StepTyped
  <2>2. RightInv'
    BY WalkRight, KernelRight, StutterRight DEF Next
  <2> QED BY <2>1, <2>2
<1>3. IInv /\ RightInv => CertainIsRight
  BY DEF RightInv
<1> QED BY <1>1, <1>2, <1>3, PTL DEF Spec

=============================================================================
