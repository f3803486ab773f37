--------------------------- MODULE ImportsProofs ---------------------------
(***************************************************************************)
(* Proofs about Imports, for any files and any uses in them: exactly the   *)
(* modules that the entry reaches are loaded, and a cycle is reported if,  *)
(* and only if, there is one.                                              *)
(***************************************************************************)
EXTENDS Imports, SequenceTheorems, NaturalsInduction, WellFoundedInduction, TLAPS

File == DOMAIN sources
loadVars == <<sources, files, stage, stack, modules, diags>>

\* The accepted uses of a module, loaded or being loaded, by their sources.
Uses(uses, n) == \E i \in DOMAIN uses : uses[i].source = n

Edge(m, n) ==
  \/ m \in DOMAIN modules /\ Uses(modules[m], n)
  \/ \E k \in DOMAIN stack : stack[k].module = m /\ Uses(stack[k].uses, n)

KeptUnder(S) == \A m \in S, n \in File : Edge(m, n) => n \in S

\* A module in every set that holds what it uses and is kept under uses.
Cyclic(m) ==
  \A S \in SUBSET File :
    KeptUnder(S) /\ (\A n \in File : Edge(m, n) => n \in S) => m \in S

-----------------------------------------------------------------------------
(***************************************************************************)
(* The inductive invariant.                                                *)
(***************************************************************************)
\* A use is recorded under its statement, and the frame goes on behind it.
FrameTyped(f, read) ==
  /\ f = [module |-> f.module, next |-> f.next, aliases |-> f.aliases, uses |-> f.uses]
  /\ f.module \in read /\ f.next \in Nat \ {0}
  /\ \A a \in DOMAIN f.aliases : f.aliases[a] \in File
  /\ \A i \in DOMAIN f.uses : i \in 1..(f.next - 1) /\ f.uses[i].source \in File

\* What the variables hold.
Typed ==
  /\ sources \in Programs
  /\ DOMAIN files \subseteq File
  /\ \A m \in DOMAIN files : files[m] = ParsedAs(sources[m]).stmts
  /\ \A m \in DOMAIN modules : m \in File /\ \A i \in DOMAIN modules[m] : modules[m][i].source \in File
  /\ stack \in Seq(ToSet(stack))
  /\ \A k \in DOMAIN stack : FrameTyped(stack[k], DOMAIN files)

\* A module is on the stack at most once, and not after it has been loaded.
Phases ==
  /\ stage \in {"start", "load", "compile", "done", "failed"}
  /\ stage \in {"start", "failed"} => stack = <<>> /\ DOMAIN modules = {} /\ ~CycleReported
  /\ stage = "load" => stack # <<>> /\ stack[1].module = Entry
  /\ Loaded => stack = <<>> /\ Entry \in DOMAIN modules
  /\ \A j, k \in DOMAIN stack : stack[j].module = stack[k].module => j = k
  /\ \A k \in DOMAIN stack : stack[k].module \notin DOMAIN modules

\* Uses lead to modules that are loaded or being loaded, every frame was
\* pushed for a use of the one below, and nothing is loaded but what the
\* entry reaches.
Linked ==
  /\ \A m, n \in File : Edge(m, n) => n \in DOMAIN modules \cup Loading
  /\ \A k \in DOMAIN stack : k > 1 => Uses(stack[k - 1].uses, stack[k].module)
  /\ \A S \in SUBSET File : Entry \in S /\ KeptUnder(S) => DOMAIN modules \cup Loading \subseteq S

\* If a cycle was reported there is one.  If none was, the loaded modules use
\* loaded ones only, a frame uses besides only the one above it, and no loaded
\* module reaches itself.
Cycles ==
  /\ CycleReported => \E m \in File : Cyclic(m)
  /\ ~CycleReported =>
       /\ \A m \in DOMAIN modules, n \in File : Edge(m, n) => n \in DOMAIN modules
       /\ \A k \in DOMAIN stack : \A n \in File : Uses(stack[k].uses, n) =>
            n \in DOMAIN modules \/ (k < Len(stack) /\ n = stack[k + 1].module)
       /\ \A m \in DOMAIN modules : ~Cyclic(m)

TInv == Typed /\ Phases
IInv == TInv /\ Linked /\ Cycles

-----------------------------------------------------------------------------
(***************************************************************************)
(* Least numbers, and the stack.                                           *)
(***************************************************************************)
\* A nonempty set of natural numbers has a least one.
LEMMA Least ==
  ASSUME NEW T, T \subseteq Nat, T # {}
  PROVE  \E i \in T : \A j \in T : i <= j
<1> DEFINE R == OpToRel(<, Nat)
<1>1. \E i \in T : \A j \in T : ~(<<j, i>> \in R)
  <2> HIDE DEF R
  <2>1. IsWellFoundedOn(R, Nat)
    BY NatLessThanWellFounded DEF R
  <2> QED
    BY <2>1, WFMin
<1>2. PICK i \in T : \A j \in T : ~(<<j, i>> \in R)
  BY <1>1
<1>3. ASSUME NEW j \in T PROVE i <= j
  <2>1. i \in Nat /\ j \in Nat /\ ~(j < i)
    BY <1>2 DEF OpToRel
  <2> QED
    BY <2>1
<1> QED
  BY <1>3

\* A sequence is one of its members.
LEMMA SeqOfMembers ==
  ASSUME NEW B, NEW s \in Seq(B)
  PROVE  s \in Seq(ToSet(s))
<1>1. Len(s) \in Nat /\ s \in [1..Len(s) -> B]
  OBVIOUS
<1>2. s \in [1..Len(s) -> ToSet(s)]
  BY <1>1 DEF ToSet
<1> QED
  BY <1>1, <1>2

\* The members of a stack by their place.
LEMMA StackShape ==
  ASSUME NEW s, s \in Seq(ToSet(s))
  PROVE  /\ Len(s) \in Nat /\ DOMAIN s = 1..Len(s)
         /\ s # <<>> => Len(s) > 0 /\ Last(s) = s[Len(s)]
BY DEF Last

\* Popping a stack.
LEMMA Popped ==
  ASSUME NEW s, s \in Seq(ToSet(s)), s # <<>>, NEW t, t = Front(s)
  PROVE  /\ t \in Seq(ToSet(t)) /\ Len(t) = Len(s) - 1
         /\ \A k \in 1..(Len(s) - 1) : t[k] = s[k]
<1> DEFINE B == ToSet(s)
<1>1. s \in Seq(B) /\ Len(s) \in Nat /\ Len(s) > 0
  OBVIOUS
<1> HIDE DEF B
<1>2. t = SubSeq(s, 1, Len(s) - 1)
  BY DEF Front
<1>3. PICK n \in Nat : n = Len(s) - 1
  BY <1>1
<1>4. /\ t \in Seq(B) /\ Len(t) = Len(s) - 1
      /\ \A k \in 1..(Len(s) - 1) : t[k] = s[k]
  <2>1. \A i \in 1..n : s[i] \in B
    BY <1>1, <1>3
  <2>2. /\ SubSeq(s, 1, n) \in Seq(B)
        /\ Len(SubSeq(s, 1, n)) = IF 1 <= n THEN n - 1 + 1 ELSE 0
        /\ \A i \in 1..(n - 1 + 1) : SubSeq(s, 1, n)[i] = s[1 + i - 1]
    BY <2>1, SubSeqProperties
  <2>3. /\ t \in Seq(B) /\ Len(t) = n
        /\ \A k \in 1..n : t[k] = s[k]
    BY <1>2, <1>3, <2>2
  <2> QED
    BY <1>3, <2>3
<1>5. t \in Seq(ToSet(t))
  BY <1>4, SeqOfMembers
<1> QED
  BY <1>4, <1>5

\* The top frame is of a file that was read, and the statement resolved next
\* is a use behind those resolved before.
LEMMA TopFrame ==
  ASSUME TInv, stage = "load"
  PROVE  /\ Len(stack) \in Nat \ {0} /\ DOMAIN stack = 1..Len(stack) /\ Len(stack) \in DOMAIN stack
         /\ Top = stack[Len(stack)]
         /\ Top = [module |-> Top.module, next |-> Top.next, aliases |-> Top.aliases, uses |-> Top.uses]
         /\ Top.module \in DOMAIN files /\ Top.module \in File /\ Top.module \notin DOMAIN modules
         /\ FrameTyped(Top, DOMAIN files)
         /\ PendingUses # {} => At \in Nat \ {0} /\ At >= Top.next
<1>1. /\ Len(stack) \in Nat \ {0} /\ DOMAIN stack = 1..Len(stack) /\ Len(stack) \in DOMAIN stack
      /\ Top = stack[Len(stack)]
  BY StackShape DEF TInv, Typed, Phases, Top
<1>2. /\ Top = [module |-> Top.module, next |-> Top.next, aliases |-> Top.aliases, uses |-> Top.uses]
      /\ Top.module \in DOMAIN files /\ Top.module \in File /\ Top.module \notin DOMAIN modules
      /\ FrameTyped(Top, DOMAIN files) /\ Top.next \in Nat \ {0}
  BY <1>1 DEF TInv, Typed, Phases, FrameTyped
<1>3. PendingUses \subseteq Nat \ {0} /\ \A i \in PendingUses : i >= Top.next
  <2>1. DOMAIN files[Top.module] \subseteq Nat \ {0}
    BY <1>2, ParsedAssumption DEF TInv, Typed, File
  <2> QED
    BY <2>1 DEF PendingUses
<1>4. PendingUses # {} => At \in PendingUses
  <2> SUFFICES ASSUME PendingUses # {} PROVE At \in PendingUses
    OBVIOUS
  <2>1. \E i \in PendingUses : \A j \in PendingUses : i <= j
    <3> HIDE DEF PendingUses
    <3> QED
      BY <1>3, Least
  <2> QED
    BY <2>1 DEF At
<1> QED
  BY <1>1, <1>2, <1>3, <1>4

-----------------------------------------------------------------------------
(***************************************************************************)
(* What the steps do, in terms of modules and uses.                        *)
(***************************************************************************)
\* The modules and the uses stay, only the place in the top frame changes.
Onwards ==
  /\ stage = "load" /\ stage' = "load" /\ modules' = modules
  /\ Len(stack') = Len(stack)
  /\ \A k \in DOMAIN stack : stack'[k].module = stack[k].module /\ stack'[k].uses = stack[k].uses
  /\ CycleReported' <=> CycleReported

\* A use of module m is accepted.
Accepted(m) ==
  /\ stage = "load" /\ stage' = "load" /\ modules' = modules /\ m \in File
  /\ \A k \in 1..(Len(stack) - 1) : stack'[k] = stack[k]
  /\ stack'[Len(stack)].module = Top.module
  /\ \A n : Uses(stack'[Len(stack)].uses, n) <=> Uses(Top.uses, n) \/ n = m
  /\ IF m \in DOMAIN modules \cup Loading THEN Len(stack') = Len(stack)
     ELSE Len(stack') = Len(stack) + 1 /\ stack'[Len(stack) + 1] = Frame(m)
  /\ CycleReported' <=> CycleReported \/ (m \in Loading /\ m \notin DOMAIN modules)

\* The top module is finished.
Popping ==
  /\ stage = "load" /\ stage' = IF Len(stack) = 1 THEN "compile" ELSE "load"
  /\ Len(stack') = Len(stack) - 1
  /\ \A k \in 1..(Len(stack) - 1) : stack'[k] = stack[k]
  /\ DOMAIN modules' = DOMAIN modules \cup {Top.module}
  /\ modules'[Top.module] = Top.uses
  /\ \A m \in DOMAIN modules : modules'[m] = modules[m]
  /\ CycleReported' <=> CycleReported

\* The entry is loaded first.
Entering ==
  /\ stage = "start" /\ stage' = "load" /\ modules' = modules
  /\ Len(stack') = 1 /\ stack'[1] = Frame(Entry)
  /\ CycleReported' <=> CycleReported

\* There is nothing to load, or no more.
Resting ==
  /\ modules' = modules /\ stack' = stack
  /\ \/ stage = "start" /\ stage' = "failed"
     \/ stage' \in {"compile", "done"} /\ Loaded
     \/ stage' = stage
  /\ CycleReported' <=> CycleReported

\* Reading a file makes the complaints that it is told to make, and others
\* about no statement.
LEMMA Reads ==
  ASSUME Typed, NEW m \in File, NEW complaints, Read(m, complaints), sources' = sources
  PROVE  /\ DOMAIN files' = DOMAIN files \cup {m}
         /\ \A f \in DOMAIN files' : files'[f] = ParsedAs(sources[f]).stmts
         /\ CycleReported' <=> CycleReported \/ \E d \in complaints : d[1] = "E530" /\ d[3] # 0
<1>1. /\ DOMAIN files' = DOMAIN files \cup {m}
      /\ \A f \in DOMAIN files' : files'[f] = ParsedAs(sources[f]).stmts
  BY DEF Read, Updated, Typed
<1>2. PICK other : /\ diags' = diags \cup complaints \cup other
                   /\ \A d \in other : d[3] = 0
  <2> DEFINE other == IF m \notin DOMAIN files THEN {<<c, m, 0>> : c \in ParsedAs(sources[m]).errs} ELSE {}
  <2>1. diags' = diags \cup complaints \cup other
    BY DEF Read
  <2>2. \A d \in other : d[3] = 0
    OBVIOUS
  <2> HIDE DEF other
  <2> QED
    BY <2>1, <2>2
<1> QED
  BY <1>1, <1>2 DEF CycleReported

Topped(x) == [stack EXCEPT ![Len(stack)] = x]

\* Another top that is typed leaves a stack that is.
LEMMA NewTop ==
  ASSUME TInv, stage = "load", NEW read, DOMAIN files \subseteq read,
         NEW x, FrameTyped(x, read)
  PROVE  /\ Topped(x) \in Seq(ToSet(Topped(x)))
         /\ Len(Topped(x)) = Len(stack) /\ Topped(x)[Len(stack)] = x
         /\ \A k \in 1..(Len(stack) - 1) : Topped(x)[k] = stack[k]
         /\ \A k \in 1..Len(stack) : FrameTyped(Topped(x)[k], read)
<1>1. stack \in Seq(ToSet(stack)) /\ stack # <<>>
  BY DEF TInv, Typed, Phases
<1>2. /\ Topped(x) \in Seq(ToSet(Topped(x)))
      /\ Len(Topped(x)) = Len(stack) /\ Topped(x)[Len(stack)] = x
      /\ \A k \in 1..(Len(stack) - 1) : Topped(x)[k] = stack[k]
  <2> DEFINE B == ToSet(stack) \cup {x}
  <2>1. stack \in Seq(B) /\ x \in B /\ Len(stack) \in 1..Len(stack)
    BY <1>1 DEF ToSet
  <2> HIDE DEF B
  <2>2. Topped(x) \in Seq(B) /\ Len(Topped(x)) = Len(stack)
    BY <2>1 DEF Topped
  <2>3. Topped(x)[Len(stack)] = x /\ \A k \in 1..(Len(stack) - 1) : Topped(x)[k] = stack[k]
    BY <2>1 DEF Topped
  <2>4. Topped(x) \in Seq(ToSet(Topped(x)))
    BY <2>2, SeqOfMembers
  <2> QED
    BY <2>2, <2>3, <2>4
<1>3. DOMAIN stack = 1..Len(stack) /\ Len(stack) \in Nat
  BY <1>1, StackShape
<1>4. ASSUME NEW k \in 1..Len(stack) PROVE FrameTyped(Topped(x)[k], read)
  <2>1. CASE k = Len(stack)
    BY <1>2, <2>1
  <2>2. CASE k # Len(stack)
    <3>1. FrameTyped(stack[k], DOMAIN files) /\ Topped(x)[k] = stack[k]
      BY <1>2, <1>3, <2>2 DEF TInv, Typed
    <3> QED
      BY <3>1 DEF FrameTyped
  <2> QED
    BY <2>1, <2>2
<1> QED
  BY <1>2, <1>4

\* What is typed after a step.
LEMMA TypedNext ==
  ASSUME TInv, sources' = sources, DOMAIN files' \subseteq File,
         \A f \in DOMAIN files' : files'[f] = ParsedAs(sources[f]).stmts,
         stack' \in Seq(ToSet(stack')),
         \A k \in 1..Len(stack') : FrameTyped(stack'[k], DOMAIN files'),
         \A m \in DOMAIN modules' : m \in File /\ \A i \in DOMAIN modules'[m] : modules'[m][i].source \in File
  PROVE  Typed'
<1>1. DOMAIN stack' = 1..Len(stack')
  BY StackShape
<1> QED
  BY <1>1 DEF TInv, Typed, FrameTyped, File

\* Going on behind a use.
LEMMA Advanced ==
  ASSUME TInv, stage = "load", PendingUses # {}, DOMAIN files \subseteq DOMAIN files'
  PROVE  /\ Advance(Top) = [module |-> Top.module, next |-> At + 1,
                            aliases |-> Top.aliases, uses |-> Top.uses]
         /\ FrameTyped(Advance(Top), DOMAIN files')
<1>1. Advance(Top) = [module |-> Top.module, next |-> At + 1,
                      aliases |-> Top.aliases, uses |-> Top.uses]
  BY TopFrame DEF Advance
<1>2. At \in Nat \ {0} /\ At >= Top.next /\ Top.next \in Nat
  BY TopFrame DEF FrameTyped
<1>3. FrameTyped(Top, DOMAIN files)
  BY TopFrame
<1> QED
  BY <1>1, <1>2, <1>3 DEF FrameTyped

\* The codes of complaints.
LEMMA ComplaintCodes ==
  ASSUME NEW codes
  PROVE  (\E d \in Complaints(codes) : d[1] = "E530" /\ d[3] # 0) => "E530" \in codes
BY DEF Complaints

\* A use that is not resolved.
LEMMA UnresolvedStep ==
  ASSUME TInv, UseUnresolved
  PROVE  Typed' /\ Onwards
<1>1. stage = "load" /\ PendingUses # {} /\ UNCHANGED <<sources, files, stage, modules>>
  BY DEF UseUnresolved
<1>2. stack' = Topped(Advance(Top))
  BY <1>1, TopFrame DEF UseUnresolved, Topped
<1>3. /\ Typed' /\ Len(stack') = Len(stack) /\ stack'[Len(stack)] = Advance(Top)
      /\ \A k \in 1..(Len(stack) - 1) : stack'[k] = stack[k]
  <2>1. FrameTyped(Advance(Top), DOMAIN files')
    BY <1>1, Advanced
  <2>2. DOMAIN files' \subseteq File /\ \A f \in DOMAIN files' : files'[f] = ParsedAs(sources[f]).stmts
    BY <1>1 DEF TInv, Typed
  <2>3. /\ stack' \in Seq(ToSet(stack')) /\ Len(stack') = Len(stack) /\ stack'[Len(stack)] = Advance(Top)
        /\ \A k \in 1..(Len(stack) - 1) : stack'[k] = stack[k]
        /\ \A k \in 1..Len(stack') : FrameTyped(stack'[k], DOMAIN files')
    <3>1. PICK read : read = DOMAIN files'
      OBVIOUS
    <3>2. DOMAIN files \subseteq read /\ stage = "load"
      BY <1>1, <3>1
    <3>3. PICK x : x = Advance(Top) /\ FrameTyped(x, read)
      BY <2>1, <3>1
    <3> QED
      BY <1>2, <3>1, <3>2, <3>3, NewTop
  <2>4. \A m \in DOMAIN modules' : m \in File /\ \A i \in DOMAIN modules'[m] : modules'[m][i].source \in File
    BY <1>1 DEF TInv, Typed
  <2> QED
    BY <1>1, <2>2, <2>3, <2>4, TypedNext
<1>4. CycleReported' <=> CycleReported
  <2>1. "E530" \notin SourceErrors(Use)
    BY DEF SourceErrors
  <2>2. ~ \E d \in Complaints(SourceErrors(Use)) : d[1] = "E530" /\ d[3] # 0
    BY <2>1, ComplaintCodes
  <2> QED
    BY <2>2 DEF UseUnresolved, CycleReported
<1>5. Advance(Top).module = Top.module /\ Advance(Top).uses = Top.uses
  BY <1>1, Advanced
<1> QED
  BY <1>1, <1>3, <1>4, <1>5, TopFrame DEF Onwards

\* A use whose alias is taken.
LEMMA RefusedStep ==
  ASSUME TInv, UseRefused
  PROVE  Typed' /\ Onwards
<1>1. stage = "load" /\ PendingUses # {} /\ UNCHANGED <<sources, stage, modules>>
  BY DEF UseRefused
<1>2. stack' = Topped(Advance(Top))
  BY <1>1, TopFrame DEF UseRefused, Topped
<1>3. PICK m \in Targets(Use) : Read(m, Complaints(AliasErrors(Use, m)))
  BY DEF UseRefused
<1>4. m \in File
  BY <1>1, TopFrame DEF Targets, FrameTyped, File
<1>5. /\ DOMAIN files' = DOMAIN files \cup {m}
      /\ \A f \in DOMAIN files' : files'[f] = ParsedAs(sources[f]).stmts
      /\ CycleReported' <=> \/ CycleReported
                            \/ \E d \in Complaints(AliasErrors(Use, m)) : d[1] = "E530" /\ d[3] # 0
  BY <1>1, <1>3, <1>4, Reads DEF TInv
<1>6. /\ Typed' /\ Len(stack') = Len(stack) /\ stack'[Len(stack)] = Advance(Top)
      /\ \A k \in 1..(Len(stack) - 1) : stack'[k] = stack[k]
  <2>1. FrameTyped(Advance(Top), DOMAIN files')
    BY <1>1, <1>5, Advanced
  <2>2. DOMAIN files \subseteq DOMAIN files' /\ DOMAIN files' \subseteq File
    BY <1>4, <1>5 DEF TInv, Typed
  <2>3. /\ stack' \in Seq(ToSet(stack')) /\ Len(stack') = Len(stack) /\ stack'[Len(stack)] = Advance(Top)
        /\ \A k \in 1..(Len(stack) - 1) : stack'[k] = stack[k]
        /\ \A k \in 1..Len(stack') : FrameTyped(stack'[k], DOMAIN files')
    BY <1>1, <1>2, <2>1, <2>2, NewTop
  <2>4. \A n \in DOMAIN modules' : n \in File /\ \A i \in DOMAIN modules'[n] : modules'[n][i].source \in File
    BY <1>1 DEF TInv, Typed
  <2> QED
    BY <1>1, <1>5, <2>2, <2>3, <2>4, TypedNext
<1>7. CycleReported' <=> CycleReported
  <2>1. "E530" \notin AliasErrors(Use, m)
    BY DEF AliasErrors
  <2> QED
    BY <1>5, <2>1, ComplaintCodes
<1>8. Advance(Top).module = Top.module /\ Advance(Top).uses = Top.uses
  BY <1>1, <1>5, Advanced
<1> QED
  BY <1>1, <1>6, <1>7, <1>8, TopFrame DEF Onwards

\* A use that is accepted.
LEMMA AcceptedStep ==
  ASSUME TInv, UseAccepted
  PROVE  Typed' /\ \E m : Accepted(m)
<1>1. stage = "load" /\ PendingUses # {} /\ UNCHANGED <<sources, stage, modules>>
  BY DEF UseAccepted
<1> DEFINE use(m) == [source |-> m, alias |-> IF IsNamespace(Use) THEN Alias(Use) ELSE "",
                      names |-> Use.names]
           new(m) == [module |-> Top.module, next |-> At + 1,
                      aliases |-> IF IsNamespace(Use) THEN Updated(Top.aliases, Alias(Use), m)
                                  ELSE Top.aliases,
                      uses |-> Updated(Top.uses, At, use(m))]
<1>2. Advance(Top) = [module |-> Top.module, next |-> At + 1,
                      aliases |-> Top.aliases, uses |-> Top.uses]
  BY <1>1, TopFrame DEF Advance
<1>3. PICK m \in Targets(Use) :
        /\ Read(m, Complaints(CycleErrors(m)))
        /\ Resolve(m, Topped(new(m)))
  <2> DEFINE frame(m) == [Advance(Top) EXCEPT
                            !.uses = Updated(@, At, use(m)),
                            !.aliases = IF IsNamespace(Use) THEN Updated(@, Alias(Use), m) ELSE @]
  <2>1. ASSUME NEW n PROVE frame(n) = new(n)
    <3>1. PICK u2 : u2 = Updated(Top.uses, At, use(n))
      OBVIOUS
    <3>2. PICK a2 : a2 = IF IsNamespace(Use) THEN Updated(Top.aliases, Alias(Use), n) ELSE Top.aliases
      OBVIOUS
    <3>3. new(n) = [module |-> Top.module, next |-> At + 1, aliases |-> a2, uses |-> u2]
      BY <3>1, <3>2
    <3>4. Advance(Top).uses = Top.uses /\ Advance(Top).aliases = Top.aliases
      BY <1>2
    <3>5. frame(n) = [Advance(Top) EXCEPT !.uses = u2, !.aliases = a2]
      BY <3>1, <3>2, <3>4
    <3>6. PICK f, n1 : f = Advance(Top) /\ n1 = At + 1
      OBVIOUS
    <3>7. [f EXCEPT !.uses = u2, !.aliases = a2]
            = [module |-> Top.module, next |-> n1, aliases |-> a2, uses |-> u2]
      <4>1. f = [module |-> Top.module, next |-> n1, aliases |-> Top.aliases, uses |-> Top.uses]
        BY <1>2, <3>6
      <4>2. PICK g : g = [f EXCEPT !.uses = u2]
        OBVIOUS
      <4>3. g = [module |-> Top.module, next |-> n1, aliases |-> Top.aliases, uses |-> u2]
        BY <4>1, <4>2
      <4>4. [f EXCEPT !.uses = u2, !.aliases = a2] = [g EXCEPT !.aliases = a2]
        BY <4>1, <4>2
      <4>5. [g EXCEPT !.aliases = a2] = [module |-> Top.module, next |-> n1, aliases |-> a2, uses |-> u2]
        BY <4>3
      <4> QED
        BY <4>4, <4>5
    <3> QED
      BY <3>3, <3>5, <3>6, <3>7
  <2>2. PICK m \in Targets(Use) :
          /\ Read(m, Complaints(CycleErrors(m)))
          /\ Resolve(m, Topped(frame(m)))
    BY DEF UseAccepted, Topped
  <2> HIDE DEF frame, new
  <2>3. Topped(frame(m)) = Topped(new(m))
    BY <2>1
  <2>4. Resolve(m, Topped(new(m)))
    BY <2>2, <2>3
  <2> QED
    BY <2>2, <2>4
<1>4. m \in File
  BY <1>1, TopFrame DEF Targets, FrameTyped, File
<1>5. /\ DOMAIN files' = DOMAIN files \cup {m}
      /\ \A f \in DOMAIN files' : files'[f] = ParsedAs(sources[f]).stmts
      /\ CycleReported' <=> \/ CycleReported
                            \/ \E d \in Complaints(CycleErrors(m)) : d[1] = "E530" /\ d[3] # 0
  BY <1>1, <1>3, <1>4, Reads DEF TInv
<1>6. /\ At \in Nat \ {0} /\ At >= Top.next /\ Top.next \in Nat
      /\ FrameTyped(Top, DOMAIN files) /\ Top.module \in DOMAIN files
      /\ Len(stack) \in Nat \ {0} /\ DOMAIN stack = 1..Len(stack) /\ Top = stack[Len(stack)]
  BY <1>1, TopFrame DEF FrameTyped
<1>7. FrameTyped(new(m), DOMAIN files')
  <2>1. \A a \in DOMAIN new(m).aliases : new(m).aliases[a] \in File
    BY <1>4, <1>6 DEF FrameTyped, Updated
  <2>2. ASSUME NEW i \in DOMAIN new(m).uses
        PROVE  i \in 1..At /\ new(m).uses[i].source \in File
    <3>1. new(m).uses = Updated(Top.uses, At, use(m)) /\ use(m).source = m
      OBVIOUS
    <3> HIDE DEF new, use
    <3>2. CASE i = At
      <4>1. new(m).uses[i] = use(m)
        BY <3>1, <3>2 DEF Updated
      <4> QED
        BY <1>4, <1>6, <3>1, <3>2, <4>1
    <3>3. CASE i # At
      <4>1. i \in DOMAIN Top.uses /\ new(m).uses[i] = Top.uses[i]
        BY <3>1, <3>3 DEF Updated
      <4>2. i \in 1..(Top.next - 1) /\ Top.uses[i].source \in File
        BY <1>6, <4>1 DEF FrameTyped
      <4> QED
        BY <1>6, <4>1, <4>2
    <3> QED
      BY <3>2, <3>3
  <2>3. /\ new(m).module = Top.module /\ new(m).next = At + 1
        /\ new(m) = [module |-> new(m).module, next |-> new(m).next,
                     aliases |-> new(m).aliases, uses |-> new(m).uses]
    OBVIOUS
  <2> HIDE DEF new
  <2>4. new(m).next \in Nat \ {0} /\ new(m).next - 1 = At /\ new(m).module \in DOMAIN files'
    BY <1>5, <1>6, <2>3
  <2> QED
    BY <2>1, <2>2, <2>3, <2>4 DEF FrameTyped
<1>8. \A n : Uses(new(m).uses, n) <=> Uses(Top.uses, n) \/ n = m
  <2>1. At \notin DOMAIN Top.uses
    BY <1>6 DEF FrameTyped
  <2> QED
    BY <2>1 DEF Uses, Updated
<1>9. CycleReported' <=> CycleReported \/ (m \in Loading /\ m \notin DOMAIN modules)
  <2>1. ASSUME m \in Loading, m \notin DOMAIN modules
        PROVE  <<"E530", Top.module, At>> \in Complaints(CycleErrors(m))
    BY <2>1 DEF Complaints, CycleErrors
  <2>2. ASSUME ~(m \in Loading /\ m \notin DOMAIN modules)
        PROVE  Complaints(CycleErrors(m)) = {}
    BY <2>2 DEF Complaints, CycleErrors
  <2>3. ASSUME m \in Loading, m \notin DOMAIN modules
        PROVE  \E d \in Complaints(CycleErrors(m)) : d[1] = "E530" /\ d[3] # 0
    BY <1>6, <2>1, <2>3
  <2> QED
    BY <1>5, <2>2, <2>3
<1>10. new(m).module = Top.module
  OBVIOUS
<1> HIDE DEF new
<1> DEFINE t == Topped(new(m))
<1>11. /\ t \in Seq(ToSet(t)) /\ Len(t) = Len(stack) /\ t[Len(stack)] = new(m)
       /\ \A k \in 1..(Len(stack) - 1) : t[k] = stack[k]
       /\ \A k \in 1..Len(stack) : FrameTyped(t[k], DOMAIN files')
  <2>1. PICK read : read = DOMAIN files'
    OBVIOUS
  <2>2. PICK x : x = new(m)
    OBVIOUS
  <2>3. DOMAIN files \subseteq read /\ FrameTyped(x, read)
    BY <1>5, <1>7, <2>1, <2>2
  <2>4. /\ Topped(x) \in Seq(ToSet(Topped(x)))
        /\ Len(Topped(x)) = Len(stack) /\ Topped(x)[Len(stack)] = x
        /\ \A k \in 1..(Len(stack) - 1) : Topped(x)[k] = stack[k]
        /\ \A k \in 1..Len(stack) : FrameTyped(Topped(x)[k], read)
    BY <1>1, <2>3, NewTop
  <2>5. t = Topped(x)
    BY <2>2
  <2> HIDE DEF t
  <2> QED
    BY <2>1, <2>2, <2>4, <2>5
<1> HIDE DEF t
<1>12. \A n \in DOMAIN modules' : n \in File /\ \A i \in DOMAIN modules'[n] : modules'[n][i].source \in File
  BY <1>1 DEF TInv, Typed
<1>13. DOMAIN files' \subseteq File
  BY <1>4, <1>5 DEF TInv, Typed
<1>14. CASE m \in DOMAIN modules \cup Loading
  <2>1. stack' = t
    BY <1>3, <1>14 DEF Resolve, t
  <2>2. Typed'
    BY <1>1, <1>5, <1>11, <1>12, <1>13, <2>1, TypedNext
  <2>3. Accepted(m)
    BY <1>1, <1>4, <1>8, <1>9, <1>10, <1>11, <1>14, <2>1 DEF Accepted
  <2> QED
    BY <2>2, <2>3
<1>15. CASE m \notin DOMAIN modules \cup Loading
  <2>1. stack' = Append(t, Frame(m))
    BY <1>3, <1>15 DEF Resolve, t
  <2>2. /\ stack' \in Seq(ToSet(stack')) /\ Len(stack') = Len(stack) + 1
        /\ stack'[Len(stack) + 1] = Frame(m)
        /\ \A k \in 1..Len(stack) : stack'[k] = t[k]
    <3> DEFINE B == ToSet(t) \cup {Frame(m)}
    <3>1. t \in Seq(B) /\ Frame(m) \in B /\ Len(t) = Len(stack)
      BY <1>11 DEF ToSet
    <3> HIDE DEF B
    <3>2. /\ stack' \in Seq(B) /\ Len(stack') = Len(stack) + 1
          /\ stack'[Len(stack) + 1] = Frame(m)
          /\ \A k \in 1..Len(stack) : stack'[k] = t[k]
      BY <2>1, <3>1
    <3>3. stack' \in Seq(ToSet(stack'))
      BY <3>2, SeqOfMembers
    <3> QED
      BY <3>2, <3>3
  <2>3. FrameTyped(Frame(m), DOMAIN files')
    BY <1>5 DEF FrameTyped, Frame, NoFunction
  <2>4. \A k \in 1..Len(stack') : FrameTyped(stack'[k], DOMAIN files')
    BY <1>6, <1>11, <2>2, <2>3
  <2>5. Typed'
    BY <1>1, <1>5, <1>12, <1>13, <2>2, <2>4, TypedNext
  <2>6. /\ stack'[Len(stack)] = new(m)
        /\ \A k \in 1..(Len(stack) - 1) : stack'[k] = stack[k]
    <3>1. Len(stack) \in 1..Len(stack) /\ 1..(Len(stack) - 1) \subseteq 1..Len(stack)
      BY <1>6
    <3> QED
      BY <1>11, <2>2, <3>1
  <2>7. Accepted(m)
    BY <1>1, <1>4, <1>8, <1>9, <1>10, <1>15, <2>2, <2>6 DEF Accepted
  <2> QED
    BY <2>5, <2>7
<1> QED
  BY <1>14, <1>15

\* A module all of whose statements are resolved.
LEMMA ResolvedStep ==
  ASSUME TInv, ModuleResolved
  PROVE  Typed' /\ Popping
<1>1. /\ stage = "load" /\ UNCHANGED <<sources, files, diags>>
      /\ stack' = Front(stack) /\ modules' = Updated(modules, Top.module, Top.uses)
      /\ stage' = IF Len(stack) = 1 THEN "compile" ELSE "load"
  BY DEF ModuleResolved
<1>2. stack \in Seq(ToSet(stack)) /\ stack # <<>> /\ Len(stack) \in Nat \ {0} /\ DOMAIN stack = 1..Len(stack)
  BY <1>1, TopFrame DEF TInv, Typed, Phases
<1>3. /\ stack' \in Seq(ToSet(stack')) /\ Len(stack') = Len(stack) - 1
      /\ \A k \in 1..(Len(stack) - 1) : stack'[k] = stack[k]
  BY <1>1, <1>2, Popped
<1>4. \A k \in 1..Len(stack') : FrameTyped(stack'[k], DOMAIN files')
  BY <1>1, <1>2, <1>3 DEF TInv, Typed
<1>5. /\ DOMAIN modules' = DOMAIN modules \cup {Top.module}
      /\ modules'[Top.module] = Top.uses
      /\ \A m \in DOMAIN modules : m # Top.module => modules'[m] = modules[m]
  BY <1>1 DEF Updated
<1>6. Top.module \in File /\ Top.module \notin DOMAIN modules /\ FrameTyped(Top, DOMAIN files)
  BY <1>1, TopFrame
<1>7. \A m \in DOMAIN modules' : m \in File /\ \A i \in DOMAIN modules'[m] : modules'[m][i].source \in File
  BY <1>5, <1>6 DEF TInv, Typed, FrameTyped
<1>8. DOMAIN files' \subseteq File /\ \A f \in DOMAIN files' : files'[f] = ParsedAs(sources[f]).stmts
  BY <1>1 DEF TInv, Typed
<1>9. Typed'
  BY <1>1, <1>3, <1>4, <1>7, <1>8, TypedNext
<1>10. CycleReported' <=> CycleReported
  BY <1>1 DEF CycleReported
<1> QED
  BY <1>1, <1>3, <1>5, <1>6, <1>9, <1>10 DEF Popping

\* The entry.
LEMMA EntryStep ==
  ASSUME TInv, LoadEntry
  PROVE  Typed' /\ (Entering \/ Resting)
<1>1. stage = "start" /\ sources' = sources /\ modules' = modules /\ stack = <<>>
  BY DEF LoadEntry, TInv, Phases
<1>2. \A m \in DOMAIN modules' : m \in File /\ \A i \in DOMAIN modules'[m] : modules'[m][i].source \in File
  BY <1>1 DEF TInv, Typed
<1>3. CASE Entry \in File
  <2>1. stage' = "load" /\ stack' = <<Frame(Entry)>> /\ Read(Entry, {})
    BY <1>3 DEF LoadEntry, File
  <2>2. /\ DOMAIN files' = DOMAIN files \cup {Entry}
        /\ \A f \in DOMAIN files' : files'[f] = ParsedAs(sources[f]).stmts
        /\ CycleReported' <=> CycleReported
    <3>1. PICK none : none = {}
      OBVIOUS
    <3>2. Read(Entry, none)
      BY <2>1, <3>1
    <3>3. /\ DOMAIN files' = DOMAIN files \cup {Entry}
          /\ \A f \in DOMAIN files' : files'[f] = ParsedAs(sources[f]).stmts
          /\ CycleReported' <=> CycleReported \/ \E d \in none : d[1] = "E530" /\ d[3] # 0
      BY <1>1, <1>3, <3>2, Reads DEF TInv
    <3> QED
      BY <3>1, <3>3
  <2>3. stack' \in Seq(ToSet(stack')) /\ Len(stack') = 1 /\ stack'[1] = Frame(Entry)
    <3>1. stack' \in Seq({Frame(Entry)}) /\ Len(stack') = 1 /\ stack'[1] = Frame(Entry)
      BY <2>1
    <3> QED
      BY <3>1, SeqOfMembers
  <2>4. FrameTyped(Frame(Entry), DOMAIN files')
    BY <2>2 DEF FrameTyped, Frame, NoFunction
  <2>5. Typed'
    <3>1. DOMAIN files' \subseteq File
      BY <1>3, <2>2 DEF TInv, Typed
    <3>2. \A k \in 1..Len(stack') : FrameTyped(stack'[k], DOMAIN files')
      BY <2>3, <2>4
    <3> QED
      BY <1>1, <1>2, <2>2, <2>3, <3>1, <3>2, TypedNext
  <2> QED
    BY <1>1, <2>1, <2>2, <2>3, <2>5 DEF Entering
<1>4. CASE Entry \notin File
  <2>1. stage' = "failed" /\ UNCHANGED <<sources, files, stack, modules, diags>>
    BY <1>4 DEF LoadEntry, File
  <2>2. Typed'
    BY <2>1 DEF TInv, Typed, File, FrameTyped
  <2>3. CycleReported' <=> CycleReported
    BY <2>1 DEF CycleReported
  <2> QED
    BY <1>1, <2>1, <2>2, <2>3 DEF Resting
<1> QED
  BY <1>3, <1>4

\* What is done afterwards, and nothing at all.
LEMMA RestingStep ==
  ASSUME TInv, Afterwards \/ UNCHANGED loadVars
  PROVE  Typed' /\ sources' = sources /\ Resting
<1>1. UNCHANGED <<sources, files, stack, modules>>
  BY DEF Afterwards, loadVars
<1>2. Typed'
  BY <1>1 DEF TInv, Typed, File, FrameTyped
<1>3. CycleReported' <=> CycleReported
  BY DEF CycleReported, Afterwards, loadVars
<1>4. (stage' \in {"compile", "done"} /\ Loaded) \/ stage' = stage
  BY DEF Afterwards, loadVars
<1> QED
  BY <1>1, <1>2, <1>3, <1>4 DEF Resting

-----------------------------------------------------------------------------
(***************************************************************************)
(* The steps preserve the invariant.                                       *)
(***************************************************************************)
\* With more uses fewer sets are kept under them, and more modules reach
\* themselves.
LEMMA MoreEdges ==
  ASSUME sources' = sources, \A a, b \in File : Edge(a, b) => Edge(a, b)'
  PROVE  /\ \A S \in SUBSET File : KeptUnder(S)' => KeptUnder(S)
         /\ \A m \in File : Cyclic(m) => Cyclic(m)'
<1>1. File' = File
  BY DEF File
<1>2. \A S \in SUBSET File : KeptUnder(S)' => KeptUnder(S)
  BY <1>1 DEF KeptUnder
<1>3. ASSUME NEW m \in File, Cyclic(m), NEW S \in SUBSET File, KeptUnder(S)',
             \A n \in File : Edge(m, n)' => n \in S
      PROVE  m \in S
  <2>1. KeptUnder(S) /\ \A n \in File : Edge(m, n) => n \in S
    BY <1>2, <1>3
  <2> QED
    BY <1>3, <2>1 DEF Cyclic
<1>4. \A m \in File : Cyclic(m) => Cyclic(m)'
  BY <1>1, <1>3 DEF Cyclic
<1> QED
  BY <1>2, <1>4

\* With fewer uses it is the other way round.
LEMMA FewerEdges ==
  ASSUME sources' = sources, \A a, b \in File : Edge(a, b)' => Edge(a, b)
  PROVE  \A m \in File : Cyclic(m)' => Cyclic(m)
<1>1. File' = File
  BY DEF File
<1>2. \A S \in SUBSET File : KeptUnder(S) => KeptUnder(S)'
  BY <1>1 DEF KeptUnder
<1>3. ASSUME NEW m \in File, Cyclic(m)', NEW S \in SUBSET File, KeptUnder(S),
             \A n \in File : Edge(m, n) => n \in S
      PROVE  m \in S
  <2>1. KeptUnder(S)' /\ \A n \in File : Edge(m, n)' => n \in S
    BY <1>2, <1>3
  <2> QED
    BY <1>1, <1>3, <2>1 DEF Cyclic
<1> QED
  BY <1>3 DEF Cyclic

\* A step that leaves the modules, and the modules and uses of the frames.
LEMMA SameUses ==
  ASSUME IInv, Typed', sources' = sources, modules' = modules, Len(stack') = Len(stack),
         \A k \in DOMAIN stack : stack'[k].module = stack[k].module /\ stack'[k].uses = stack[k].uses,
         CycleReported' <=> CycleReported
  PROVE  Linked' /\ Cycles'
<1>1. File' = File /\ DOMAIN stack' = DOMAIN stack /\ DOMAIN stack = 1..Len(stack) /\ Len(stack) \in Nat
  BY StackShape DEF IInv, TInv, Typed, File
<1>2. \A a, b : Edge(a, b)' <=> Edge(a, b)
  BY <1>1 DEF Edge
<1>3. Loading' = Loading
  BY <1>1 DEF Loading
<1>4. Linked'
  <2>1. \A m, n \in File : Edge(m, n)' => n \in DOMAIN modules \cup Loading
    BY <1>2 DEF IInv, Linked
  <2>2. \A k \in DOMAIN stack : k > 1 => Uses(stack'[k - 1].uses, stack'[k].module)
    BY <1>1 DEF IInv, Linked
  <2>3. ASSUME NEW S \in SUBSET File, Entry \in S, KeptUnder(S)'
        PROVE  DOMAIN modules \cup Loading \subseteq S
    <3>1. KeptUnder(S)
      BY <1>2, <2>3, MoreEdges
    <3> QED
      BY <2>3, <3>1 DEF IInv, Linked
  <2> QED
    BY <1>1, <1>3, <2>1, <2>2, <2>3 DEF Linked
<1>5. Cycles'
  <2>1. \A m \in File : Cyclic(m)' <=> Cyclic(m)
    BY <1>2, MoreEdges, FewerEdges
  <2>2. DOMAIN modules \subseteq File
    BY DEF IInv, TInv, Typed
  <2>3. CycleReported' => \E m \in File : Cyclic(m)'
    BY <2>1 DEF IInv, Cycles
  <2>4. ASSUME ~CycleReported'
        PROVE  /\ \A m \in DOMAIN modules, n \in File : Edge(m, n)' => n \in DOMAIN modules
               /\ \A k \in DOMAIN stack : \A n \in File : Uses(stack'[k].uses, n) =>
                    n \in DOMAIN modules \/ (k < Len(stack) /\ n = stack'[k + 1].module)
               /\ \A m \in DOMAIN modules : ~Cyclic(m)'
    BY <1>1, <1>2, <2>1, <2>2, <2>4 DEF IInv, Cycles
  <2> QED
    BY <1>1, <2>3, <2>4 DEF Cycles
<1> QED
  BY <1>4, <1>5

\* A use is not resolved, or refused.
LEMMA OnwardsKeeps ==
  ASSUME IInv, Typed', sources' = sources, Onwards
  PROVE  IInv'
<1>1. DOMAIN stack' = DOMAIN stack /\ DOMAIN stack = 1..Len(stack) /\ Len(stack) \in Nat
      /\ (stack' = <<>> <=> Len(stack') = 0) /\ (stack = <<>> <=> Len(stack) = 0)
  BY StackShape DEF IInv, TInv, Typed, Onwards
<1>2. Phases'
  BY <1>1 DEF IInv, TInv, Phases, Onwards, Loaded
<1>3. Linked' /\ Cycles'
  BY SameUses DEF Onwards
<1> QED
  BY <1>2, <1>3 DEF IInv, TInv

\* Nothing is loaded.
LEMMA RestingKeeps ==
  ASSUME IInv, Typed', sources' = sources, Resting
  PROVE  IInv'
<1>1. Phases'
  BY DEF IInv, TInv, Phases, Resting, Loaded
<1>2. Linked' /\ Cycles'
  BY SameUses DEF Resting
<1> QED
  BY <1>1, <1>2 DEF IInv, TInv

\* The entry is alone, and uses nothing yet.
LEMMA EnteringKeeps ==
  ASSUME IInv, Typed', sources' = sources, Entering
  PROVE  IInv'
<1>1. /\ DOMAIN modules' = {} /\ DOMAIN stack' = 1..1 /\ Len(stack') = 1 /\ stack' # <<>>
      /\ stack'[1].module = Entry /\ stack'[1].uses = NoFunction /\ ~CycleReported' /\ stage' = "load"
  BY StackShape DEF IInv, TInv, Typed, Phases, Entering, Frame
<1>2. \A a, b : ~Edge(a, b)' /\ ~Uses(stack'[1].uses, b)
  BY <1>1 DEF Edge, Uses, NoFunction
<1>3. Loading' = {Entry}
  BY <1>1 DEF Loading
<1>4. Phases'
  BY <1>1 DEF Phases, Loaded
<1>5. Linked'
  BY <1>1, <1>2, <1>3 DEF Linked
<1>6. Cycles'
  BY <1>1, <1>2 DEF Cycles
<1> QED
  BY <1>4, <1>5, <1>6 DEF IInv, TInv

\* The top module is recorded.
LEMMA PoppingKeeps ==
  ASSUME IInv, Typed', sources' = sources, Popping
  PROVE  IInv'
<1>1. /\ File' = File /\ Len(stack) \in Nat \ {0} /\ Len(stack) \in DOMAIN stack
      /\ DOMAIN stack = 1..Len(stack) /\ DOMAIN stack' = 1..(Len(stack) - 1)
      /\ Top = stack[Len(stack)] /\ Top.module \in File /\ Top.module \notin DOMAIN modules
      /\ stack' = <<>> <=> Len(stack) = 1
  BY StackShape, TopFrame DEF IInv, TInv, Typed, Popping, File
<1>2. \A k \in DOMAIN stack' : k \in DOMAIN stack /\ stack'[k] = stack[k] /\ stack[k].module # Top.module
  BY <1>1 DEF IInv, TInv, Phases, Popping
<1>3. DOMAIN modules' \cup Loading' = DOMAIN modules \cup Loading /\ DOMAIN modules' = DOMAIN modules \cup {Top.module}
  <2>1. Loading = Loading' \cup {Top.module}
    BY <1>1, <1>2 DEF Loading
  <2> QED
    BY <2>1 DEF Popping
<1>4. \A a, b : Edge(a, b)' <=> Edge(a, b)
  <2>1. ASSUME NEW a, NEW b, Edge(a, b)' PROVE Edge(a, b)
    BY <1>1, <1>2, <2>1 DEF Edge, Popping
  <2>2. ASSUME NEW a, NEW b, Edge(a, b) PROVE Edge(a, b)'
    <3>1. CASE a \in DOMAIN modules /\ Uses(modules[a], b)
      BY <3>1 DEF Edge, Popping
    <3>2. ASSUME NEW k \in DOMAIN stack, stack[k].module = a, Uses(stack[k].uses, b)
          PROVE  Edge(a, b)'
      <4>1. CASE k = Len(stack)
        BY <1>1, <3>2, <4>1 DEF Edge, Popping
      <4>2. CASE k # Len(stack)
        BY <1>1, <1>2, <3>2, <4>2 DEF Edge
      <4> QED
        BY <4>1, <4>2
    <3> QED
      BY <2>2, <3>1, <3>2 DEF Edge
  <2> QED
    BY <2>1, <2>2
<1>5. Phases'
  <2>1. Len(stack) = 1 => Entry \in DOMAIN modules'
    BY <1>1, <1>3 DEF IInv, TInv, Phases, Popping
  <2>2. Len(stack) # 1 => stack'[1] = stack[1]
    BY <1>1, <1>2
  <2>3. \A j, k \in DOMAIN stack' : stack'[j].module = stack'[k].module => j = k
    BY <1>2 DEF IInv, TInv, Phases
  <2>4. \A k \in DOMAIN stack' : stack'[k].module \notin DOMAIN modules'
    BY <1>2, <1>3 DEF IInv, TInv, Phases
  <2> QED
    BY <1>1, <2>1, <2>2, <2>3, <2>4 DEF IInv, TInv, Phases, Popping, Loaded
<1>6. Linked'
  <2>1. \A m, n \in File : Edge(m, n)' => n \in DOMAIN modules \cup Loading
    BY <1>4 DEF IInv, Linked
  <2>2. \A k \in DOMAIN stack' : k > 1 => Uses(stack'[k - 1].uses, stack'[k].module)
    <3>1. ASSUME NEW k \in DOMAIN stack', k > 1
          PROVE  Uses(stack'[k - 1].uses, stack'[k].module)
      <4>1. k - 1 \in DOMAIN stack'
        BY <1>1, <3>1
      <4> QED
        BY <1>2, <3>1, <4>1 DEF IInv, Linked
    <3> QED
      BY <3>1
  <2>3. ASSUME NEW S \in SUBSET File, Entry \in S, KeptUnder(S)'
        PROVE  DOMAIN modules \cup Loading \subseteq S
    <3>1. KeptUnder(S)
      BY <1>4, <2>3, MoreEdges
    <3> QED
      BY <2>3, <3>1 DEF IInv, Linked
  <2> QED
    BY <1>1, <1>3, <2>1, <2>2, <2>3 DEF Linked
<1>7. \A m \in File : Cyclic(m)' <=> Cyclic(m)
  BY <1>4, MoreEdges, FewerEdges
<1>8. CycleReported' => \E m \in File : Cyclic(m)'
  BY <1>7 DEF IInv, Cycles, Popping
<1>9. ASSUME ~CycleReported'
      PROVE  /\ \A m \in DOMAIN modules', n \in File : Edge(m, n)' => n \in DOMAIN modules'
             /\ \A k \in DOMAIN stack' : \A n \in File : Uses(stack'[k].uses, n) =>
                  n \in DOMAIN modules' \/ (k < Len(stack') /\ n = stack'[k + 1].module)
             /\ \A m \in DOMAIN modules' : ~Cyclic(m)'
  <2>1. ~CycleReported
    BY <1>9 DEF Popping
  <2>2. ASSUME NEW n \in File, Edge(Top.module, n) PROVE n \in DOMAIN modules
    <3>1. PICK k \in DOMAIN stack : stack[k].module = Top.module /\ Uses(stack[k].uses, n)
      BY <1>1, <2>2 DEF Edge
    <3>2. k = Len(stack)
      BY <1>1, <3>1 DEF IInv, TInv, Phases
    <3> QED
      BY <2>1, <3>1, <3>2 DEF IInv, Cycles
  <2>3. \A m \in DOMAIN modules', n \in File : Edge(m, n)' => n \in DOMAIN modules'
    BY <1>3, <1>4, <2>1, <2>2 DEF IInv, Cycles
  <2>4. ASSUME NEW k \in DOMAIN stack', NEW n \in File, Uses(stack'[k].uses, n)
        PROVE  n \in DOMAIN modules' \/ (k < Len(stack') /\ n = stack'[k + 1].module)
    <3>1. n \in DOMAIN modules \/ (k < Len(stack) /\ n = stack[k + 1].module)
      BY <1>2, <2>1, <2>4 DEF IInv, Cycles
    <3>2. CASE n = stack[k + 1].module /\ k + 1 = Len(stack)
      BY <1>1, <1>3, <3>2
    <3>3. CASE n = stack[k + 1].module /\ k + 1 # Len(stack)
      <4>1. k + 1 \in DOMAIN stack' /\ k < Len(stack')
        BY <1>1, <3>3 DEF Popping
      <4> QED
        BY <1>2, <3>3, <4>1
    <3> QED
      BY <1>3, <3>1, <3>2, <3>3
  <2>5. ~Cyclic(Top.module)
    <3>1. KeptUnder(DOMAIN modules) /\ DOMAIN modules \subseteq File
      BY <2>1 DEF IInv, TInv, Typed, Cycles, KeptUnder
    <3> QED
      BY <1>1, <2>2, <3>1 DEF Cyclic
  <2>6. \A m \in DOMAIN modules' : m \in File /\ ~Cyclic(m)
    BY <1>1, <1>3, <2>1, <2>5 DEF IInv, TInv, Typed, Cycles
  <2> QED
    BY <1>7, <2>3, <2>4, <2>6
<1>10. Cycles'
  BY <1>1, <1>8, <1>9 DEF Cycles
<1> QED
  BY <1>5, <1>6, <1>10 DEF IInv, TInv

\* Frames above one whose module is in a set kept under uses are in it.
LEMMA UpTheStack ==
  ASSUME IInv, NEW i \in DOMAIN stack, NEW S \in SUBSET File, KeptUnder(S), stack[i].module \in S
  PROVE  \A j \in DOMAIN stack : i <= j => stack[j].module \in S
<1>1. DOMAIN stack = 1..Len(stack) /\ Len(stack) \in Nat /\ \A j \in DOMAIN stack : stack[j].module \in File
  BY StackShape DEF IInv, TInv, Typed, FrameTyped
<1> DEFINE T == {j \in DOMAIN stack : i <= j /\ stack[j].module \notin S}
<1>2. ASSUME T # {} PROVE FALSE
  <2>1. T \subseteq Nat
    BY <1>1
  <2>2. \E j \in T : \A k \in T : j <= k
    <3> HIDE DEF T
    <3> QED
      BY <1>2, <2>1, Least
  <2>3. PICK j \in T : \A k \in T : j <= k
    BY <2>2
  <2>4. j # i /\ j - 1 \in DOMAIN stack /\ i <= j - 1 /\ j > 1
    BY <1>1
  <2>5. stack[j - 1].module \in S
    BY <1>1, <2>3, <2>4
  <2>6. Uses(stack[j - 1].uses, stack[j].module)
    BY <2>4 DEF IInv, Linked
  <2>7. Edge(stack[j - 1].module, stack[j].module)
    BY <2>4, <2>6 DEF Edge
  <2> QED
    BY <1>1, <2>5, <2>7 DEF KeptUnder
<1> QED
  BY <1>2

\* A use of a module is accepted.
LEMMA AcceptedKeeps ==
  ASSUME IInv, Typed', sources' = sources, NEW m, Accepted(m)
  PROVE  IInv'
<1>0. PICK p : p = Top.module
  OBVIOUS
<1> DEFINE L == Len(stack)
           grown == m \notin DOMAIN modules \cup Loading
<1>1. /\ File' = File /\ L \in Nat \ {0} /\ L \in DOMAIN stack /\ DOMAIN stack = 1..L
      /\ Top = stack[L] /\ p \in File /\ p \notin DOMAIN modules /\ m \in File
      /\ DOMAIN modules \subseteq File /\ modules' = modules
  BY <1>0, TopFrame DEF IInv, TInv, Typed, Accepted, File
<1>2. /\ DOMAIN stack' = IF grown THEN 1..(L + 1) ELSE 1..L
      /\ Len(stack') = IF grown THEN L + 1 ELSE L
      /\ stack' # <<>>
  BY <1>1, StackShape DEF Typed, Accepted
<1>3. \A k \in DOMAIN stack : k \in DOMAIN stack' /\ stack'[k].module = stack[k].module
  BY <1>1, <1>2 DEF Accepted
<1>4. \A k \in DOMAIN stack : k # L => stack'[k] = stack[k]
  BY <1>1 DEF Accepted
<1>5. \A n : Uses(stack'[L].uses, n) <=> Uses(stack[L].uses, n) \/ n = m
  BY <1>1 DEF Accepted
<1>6. grown => stack'[L + 1].module = m /\ \A n : ~Uses(stack'[L + 1].uses, n)
  BY DEF Accepted, Frame, NoFunction, Uses
<1>7. Loading' = Loading \cup (IF grown THEN {m} ELSE {})
  <2>1. ASSUME NEW x \in Loading' PROVE x \in Loading \/ (grown /\ x = m)
    <3>1. PICK k \in DOMAIN stack' : stack'[k].module = x
      BY DEF Loading
    <3>2. k \in DOMAIN stack \/ (grown /\ k = L + 1)
      BY <1>1, <1>2
    <3> QED
      BY <1>3, <1>6, <3>1, <3>2 DEF Loading
  <2>2. \A x \in Loading : x \in Loading'
    BY <1>3 DEF Loading
  <2>3. grown => m \in Loading'
    <3>1. ASSUME grown PROVE L + 1 \in DOMAIN stack' /\ stack'[L + 1].module = m
      BY <1>1, <1>2, <1>6, <3>1
    <3> QED
      BY <3>1 DEF Loading
  <2> QED
    BY <2>1, <2>2, <2>3
<1> HIDE DEF L
<1>8. \A a, b : Edge(a, b)' <=> Edge(a, b) \/ (a = p /\ b = m)
  <2>1. ASSUME NEW a, NEW b, Edge(a, b)' PROVE Edge(a, b) \/ (a = p /\ b = m)
    <3>1. CASE a \in DOMAIN modules /\ Uses(modules[a], b)
      BY <3>1 DEF Edge
    <3>2. ASSUME NEW k \in DOMAIN stack', stack'[k].module = a, Uses(stack'[k].uses, b)
          PROVE  Edge(a, b) \/ (a = p /\ b = m)
      <4>1. CASE k = L
        BY <1>0, <1>1, <1>3, <1>5, <3>2, <4>1 DEF Edge
      <4>2. CASE k # L
        <5>1. k \in DOMAIN stack
          BY <1>1, <1>2, <1>6, <3>2, <4>2
        <5> QED
          BY <1>4, <3>2, <4>2, <5>1 DEF Edge
      <4> QED
        BY <4>1, <4>2
    <3> QED
      BY <1>1, <2>1, <3>1, <3>2 DEF Edge
  <2>2. ASSUME NEW a, NEW b, Edge(a, b) PROVE Edge(a, b)'
    <3>1. CASE a \in DOMAIN modules /\ Uses(modules[a], b)
      BY <1>1, <3>1 DEF Edge
    <3>2. ASSUME NEW k \in DOMAIN stack, stack[k].module = a, Uses(stack[k].uses, b)
          PROVE  Edge(a, b)'
      <4>1. Uses(stack'[k].uses, b)
        BY <1>4, <1>5, <3>2
      <4> QED
        BY <1>3, <3>2, <4>1 DEF Edge
    <3> QED
      BY <2>2, <3>1, <3>2 DEF Edge
  <2>3. Edge(p, m)'
    <3>1. L \in DOMAIN stack' /\ stack'[L].module = p /\ Uses(stack'[L].uses, m)
      BY <1>0, <1>1, <1>3, <1>5
    <3> QED
      BY <3>1 DEF Edge
  <2> QED
    BY <2>1, <2>2, <2>3
<1>9. Phases'
  <2>1. stack'[1].module = Entry
    BY <1>1, <1>3 DEF IInv, TInv, Phases, Accepted
  <2>2. \A j, k \in DOMAIN stack' : stack'[j].module = stack'[k].module => j = k
    <3>1. ASSUME NEW k \in DOMAIN stack', k \notin DOMAIN stack
          PROVE  grown /\ k = L + 1 /\ stack'[k].module = m
      BY <1>1, <1>2, <1>6, <3>1
    <3>2. \A k \in DOMAIN stack : stack'[k].module \in Loading
      BY <1>3 DEF Loading
    <3> QED
      BY <1>3, <3>1, <3>2 DEF IInv, TInv, Phases
  <2>3. \A k \in DOMAIN stack' : stack'[k].module \notin DOMAIN modules'
    <3>1. ASSUME NEW k \in DOMAIN stack', k \notin DOMAIN stack
          PROVE  grown /\ stack'[k].module = m
      BY <1>1, <1>2, <1>6, <3>1
    <3> QED
      BY <1>1, <1>3, <3>1 DEF IInv, TInv, Phases
  <2> QED
    BY <1>2, <2>1, <2>2, <2>3 DEF Phases, Accepted, Loaded
<1>10. Linked'
  <2>1. \A a, b \in File : Edge(a, b)' => b \in DOMAIN modules' \cup Loading'
    BY <1>1, <1>7, <1>8 DEF IInv, Linked
  <2>2. ASSUME NEW k \in DOMAIN stack', k > 1
        PROVE  Uses(stack'[k - 1].uses, stack'[k].module)
    <3>1. CASE k \in DOMAIN stack
      <4>1. k - 1 \in DOMAIN stack /\ k - 1 # L
        BY <1>1, <2>2, <3>1
      <4> QED
        BY <1>3, <1>4, <2>2, <3>1, <4>1 DEF IInv, Linked
    <3>2. CASE k \notin DOMAIN stack
      <4>1. k = L + 1 /\ k - 1 = L /\ stack'[k].module = m
        BY <1>1, <1>2, <1>6, <3>2
      <4> QED
        BY <1>5, <4>1
    <3> QED
      BY <3>1, <3>2
  <2>3. ASSUME NEW S \in SUBSET File, Entry \in S, KeptUnder(S)'
        PROVE  DOMAIN modules' \cup Loading' \subseteq S
    <3>1. KeptUnder(S)
      BY <1>8, <2>3, MoreEdges
    <3>2. DOMAIN modules \cup Loading \subseteq S
      BY <2>3, <3>1 DEF IInv, Linked
    <3>3. p \in S
      BY <1>0, <1>1, <3>2 DEF Loading
    <3>4. m \in S
      BY <1>1, <1>8, <2>3, <3>3 DEF KeptUnder
    <3> QED
      BY <1>1, <1>7, <3>2, <3>4
  <2> QED
    BY <1>1, <2>1, <2>2, <2>3 DEF Linked
<1>11. ASSUME CycleReported' PROVE \E a \in File : Cyclic(a)'
  <2>1. CASE CycleReported
    BY <1>8, <2>1, MoreEdges DEF IInv, Cycles
  <2>2. CASE ~CycleReported
    <3>1. PICK i \in DOMAIN stack : stack[i].module = m
      BY <1>11, <2>2 DEF Accepted, Loading
    <3>2. ASSUME NEW S \in SUBSET File, KeptUnder(S)', \A n \in File : Edge(p, n)' => n \in S
          PROVE  p \in S
      <4>1. m \in S
        BY <1>1, <1>8, <3>2
      <4>2. KeptUnder(S)
        BY <1>8, <3>2, MoreEdges
      <4>3. i <= L
        BY <1>1
      <4> QED
        BY <1>1, <3>1, <4>1, <4>2, <4>3, <1>0, UpTheStack
    <3>3. Cyclic(p)'
      BY <1>1, <3>2 DEF Cyclic
    <3> QED
      BY <1>1, <3>3
  <2> QED
    BY <2>1, <2>2
<1>12. ASSUME ~CycleReported'
       PROVE  /\ \A a \in DOMAIN modules', n \in File : Edge(a, n)' => n \in DOMAIN modules'
              /\ \A k \in DOMAIN stack' : \A n \in File : Uses(stack'[k].uses, n) =>
                   n \in DOMAIN modules' \/ (k < Len(stack') /\ n = stack'[k + 1].module)
              /\ \A a \in DOMAIN modules' : ~Cyclic(a)'
  <2>1. ~CycleReported /\ (m \in DOMAIN modules \/ grown)
    BY <1>12 DEF Accepted
  <2>2. \A a \in DOMAIN modules', n \in File : Edge(a, n)' => n \in DOMAIN modules'
    BY <1>1, <1>8, <2>1 DEF IInv, Cycles
  <2>3. ASSUME NEW k \in DOMAIN stack', NEW n \in File, Uses(stack'[k].uses, n)
        PROVE  n \in DOMAIN modules' \/ (k < Len(stack') /\ n = stack'[k + 1].module)
    <3>1. k \in DOMAIN stack
      BY <1>1, <1>2, <1>6, <2>3
    <3>2. CASE Uses(stack[k].uses, n)
      <4>1. n \in DOMAIN modules \/ (k < L /\ n = stack[k + 1].module)
        BY <2>1, <3>1, <3>2 DEF IInv, Cycles, L
      <4>2. CASE k < L /\ n = stack[k + 1].module
        <5>1. k + 1 \in DOMAIN stack /\ k < Len(stack')
          BY <1>1, <1>2, <3>1, <4>2
        <5> QED
          BY <1>3, <4>2, <5>1
      <4> QED
        BY <1>1, <4>1, <4>2
    <3>3. CASE k = L /\ n = m
      BY <1>1, <1>2, <1>6, <2>1, <3>3
    <3> QED
      BY <1>4, <1>5, <2>3, <3>1, <3>2, <3>3
  <2>4. ASSUME NEW a \in DOMAIN modules, Cyclic(a)' PROVE FALSE
    <3>1. PICK S \in SUBSET File : /\ KeptUnder(S) /\ a \notin S
                                   /\ \A n \in File : Edge(a, n) => n \in S
      BY <2>1 DEF IInv, Cycles, Cyclic
    <3>2. PICK Inner : Inner = S \cap DOMAIN modules
      OBVIOUS
    <3>3. KeptUnder(Inner)'
      BY <1>1, <1>8, <2>2, <3>1, <3>2 DEF KeptUnder
    <3>4. \A n \in File : Edge(a, n)' => n \in Inner
      BY <1>1, <1>8, <2>2, <3>1, <3>2
    <3>5. Inner \in SUBSET File /\ a \notin Inner
      BY <3>1, <3>2
    <3> QED
      BY <1>1, <2>4, <3>3, <3>4, <3>5 DEF Cyclic
  <2> QED
    BY <1>1, <2>2, <2>3, <2>4
<1>13. Cycles'
  BY <1>1, <1>11, <1>12 DEF Cycles
<1> QED
  BY <1>9, <1>10, <1>13 DEF IInv, TInv

-----------------------------------------------------------------------------
(***************************************************************************)
(* The theorem.                                                            *)
(***************************************************************************)
\* The invariant holds at the start.
LEMMA LoadInitially == LoadInit => IInv
<1> SUFFICES ASSUME LoadInit PROVE IInv
  OBVIOUS
<1>1. /\ sources \in Programs /\ stack = <<>> /\ DOMAIN stack = {} /\ DOMAIN files = {}
      /\ DOMAIN modules = {} /\ diags = {} /\ stage = "start"
  BY DEF LoadInit, NoFunction
<1>2. stack \in Seq(ToSet(stack)) /\ Loading = {} /\ ~CycleReported
  BY <1>1 DEF Loading, CycleReported
<1>3. Typed /\ Phases
  BY <1>1, <1>2 DEF Typed, Phases, Loaded
<1>4. \A a, b : ~Edge(a, b)
  BY <1>1 DEF Edge
<1>5. Linked /\ Cycles
  BY <1>1, <1>2, <1>4 DEF Linked, Cycles
<1> QED
  BY <1>3, <1>5 DEF IInv, TInv

\* Every step, and what comes after the loading.
LEMMA LoadSteps == IInv /\ [LoadNext \/ Afterwards]_loadVars => IInv'
<1> SUFFICES ASSUME IInv, [LoadNext \/ Afterwards]_loadVars PROVE IInv'
  OBVIOUS
<1>1. TInv
  BY DEF IInv
<1>2. CASE LoadEntry
  <2>1. sources' = sources /\ Typed' /\ (Entering \/ Resting)
    BY <1>1, <1>2, EntryStep DEF LoadEntry
  <2> QED
    BY <2>1, EnteringKeeps, RestingKeeps
<1>3. CASE UseUnresolved
  BY <1>1, <1>3, UnresolvedStep, OnwardsKeeps DEF UseUnresolved
<1>4. CASE UseRefused
  BY <1>1, <1>4, RefusedStep, OnwardsKeeps DEF UseRefused
<1>5. CASE UseAccepted
  <2>1. sources' = sources /\ Typed' /\ \E m : Accepted(m)
    BY <1>1, <1>5, AcceptedStep DEF UseAccepted
  <2> QED
    BY <2>1, AcceptedKeeps
<1>6. CASE ModuleResolved
  <2>1. sources' = sources /\ Typed' /\ Popping
    BY <1>1, <1>6, ResolvedStep DEF ModuleResolved
  <2> QED
    BY <2>1, PoppingKeeps
<1>7. CASE Afterwards \/ UNCHANGED loadVars
  BY <1>1, <1>7, RestingStep, RestingKeeps
<1> QED
  BY <1>2, <1>3, <1>4, <1>5, <1>6, <1>7 DEF LoadNext

\* What a module reaches is what is in every set that holds what it uses and
\* is kept under uses.
LEMMA ReachedBySets ==
  ASSUME IInv, Loaded, NEW m \in File
  PROVE  Reached(m) = {n \in File : \A S \in SUBSET File :
                         KeptUnder(S) /\ (\A k \in File : Edge(m, k) => k \in S) => n \in S}
<1>1. /\ stack = <<>> /\ DOMAIN modules \subseteq File
      /\ \A k \in DOMAIN modules : \A i \in DOMAIN modules[k] : modules[k][i].source \in File
  BY DEF IInv, TInv, Typed, Phases
<1>2. \A a, b : <<a, b>> \in Imports <=> Edge(a, b)
  BY <1>1 DEF Imports, Edge, Uses
<1>3. \A e \in Imports : e = <<e[1], e[2]>> /\ e[1] \in File /\ e[2] \in File
  BY <1>1 DEF Imports
<1>4. ASSUME NEW S \in SUBSET File
      PROVE  (\A e \in Imports : e[1] \in S \cup {m} => e[2] \in S)
             <=> KeptUnder(S) /\ (\A k \in File : Edge(m, k) => k \in S)
  <2>1. ASSUME \A e \in Imports : e[1] \in S \cup {m} => e[2] \in S,
               NEW a \in S \cup {m}, NEW b \in File, Edge(a, b)
        PROVE  b \in S
    BY <1>2, <2>1
  <2>2. ASSUME KeptUnder(S), \A k \in File : Edge(m, k) => k \in S,
               NEW e \in Imports, e[1] \in S \cup {m}
        PROVE  e[2] \in S
    <3>1. Edge(e[1], e[2]) /\ e[2] \in File
      BY <1>2, <1>3
    <3> QED
      BY <2>2, <3>1 DEF KeptUnder
  <2> QED
    BY <2>1, <2>2 DEF KeptUnder
<1> QED
  BY <1>4 DEF Reached, File

\* The invariant says what is to be shown.
LEMMA InvariantSuffices == IInv => ImportsComplete
<1> SUFFICES ASSUME IInv, Loaded
             PROVE  /\ DOMAIN modules = {Entry} \cup Reached(Entry)
                    /\ CycleReported <=> \E m \in DOMAIN modules : m \in Reached(m)
  BY DEF ImportsComplete
<1>1. /\ stack = <<>> /\ DOMAIN stack = {} /\ Loading = {}
      /\ Entry \in DOMAIN modules /\ DOMAIN modules \subseteq File
  BY DEF IInv, TInv, Typed, Phases, Loading
<1>2. KeptUnder(DOMAIN modules) /\ \A k \in File : Edge(Entry, k) => k \in DOMAIN modules
  BY <1>1 DEF IInv, Linked, KeptUnder
<1>3. Reached(Entry) \subseteq DOMAIN modules
  BY <1>1, <1>2, ReachedBySets
<1>4. ASSUME NEW n \in DOMAIN modules, n # Entry,
             NEW S \in SUBSET File, KeptUnder(S), \A k \in File : Edge(Entry, k) => k \in S
      PROVE  n \in S
  <2>1. KeptUnder(S \cup {Entry}) /\ S \cup {Entry} \in SUBSET File
    BY <1>1, <1>4 DEF KeptUnder
  <2> QED
    BY <1>4, <2>1 DEF IInv, Linked
<1>5. DOMAIN modules \subseteq {Entry} \cup Reached(Entry)
  BY <1>1, <1>4, ReachedBySets
<1>6. \A m \in DOMAIN modules : m \in Reached(m) <=> Cyclic(m)
  BY <1>1, ReachedBySets DEF Cyclic
<1>7. ASSUME NEW m \in File, Cyclic(m) PROVE m \in DOMAIN modules
  <2>1. m \notin DOMAIN modules => \A n \in File : ~Edge(m, n)
    BY <1>1 DEF Edge
  <2>2. KeptUnder({}) /\ {} \in SUBSET File
    BY DEF KeptUnder
  <2> QED
    BY <1>7, <2>1, <2>2 DEF Cyclic
<1> QED
  BY <1>1, <1>3, <1>5, <1>6, <1>7 DEF IInv, Cycles

\* Exactly the modules that the accepted uses reach from the entry are
\* loaded, and a cycle is reported if, and only if, a module reaches itself,
\* for any files and any uses in them (LoadAndExpand, resolveModule).
THEOREM LoadingIsComplete == LoadSpec => []ImportsComplete
<1>1. LoadSpec => []IInv
  BY LoadInitially, LoadSteps, PTL DEF LoadSpec, loadVars
<1> QED
  BY <1>1, InvariantSuffices, PTL
=============================================================================
