---------------------------- MODULE HdmiRx_proofs ----------------------------
(***************************************************************************)
(* Theorems about the HDMI receiver: HdmiFeatures, for every number of     *)
(* ports and displays, and Edid, for every family of files and displays.   *)
(* The two share no state.  The part about Edid begins with what its       *)
(* recursive functions compute (SetInduction, Recursion), goes on with one *)
(* block (checksum, timings, walk, splice, the loop of the filters), then  *)
(* with whole EDIDs, and ends each of its sections on steps with the       *)
(* theorem the section is there for.                                       *)
(***************************************************************************)
EXTENDS HdmiFeatures, Edid, SequenceTheorems, WellFoundedInduction, TLAPS

(***************************************************************************)
(* FeatureGated.  A bit can be on in the driver and off in the environment *)
(* only while the command that turns it off is between its two writes, or  *)
(* after one of them was refused; a process killed there has to write the  *)
(* feature again before anything is said of it.                            *)
(***************************************************************************)
FeatureInv ==
    /\ "feature" \notin saved => feature = {}
    /\ pc = "setFeature" /\ name \in gated /\ enable => name \in Supported
    /\ pc # "down" =>
          \A f \in rxFeature \ apart :
             \/ pc = "setFeature" /\ f = name
             \/ f \in feature /\ (f \in gated => f \in Supported)

(***************************************************************************)
(* EdidVersionKept.  What the driver shows is what GetEdidVersion reads,   *)
(* except while SetEdidVersion is between its two writes, and on the ports *)
(* whose version the environment refused.                                  *)
(***************************************************************************)
VersionInv ==
    /\ "edidVersion" \notin saved => \A p \in Ports : edidVersion[p] = "14"
    /\ pc \in {"switchVersion", "saveVersion"} => version # "14"
    /\ pc = "saveVersion" => rxVersion = NewVersions
    /\ \A p \in Ports \ unsaved : requested[p] # "none" => requested[p] = GetEdidVersion(p)
    /\ loaded /\ pc \notin {"down", "saveVersion"} =>
          /\ pc # "start"
          /\ \A p \in Ports \ unsaved : rxVersion[p] = GetEdidVersion(p)

\* Every step keeps the type invariant.
LEMMA TypeInvariant ==
    ASSUME TypeOK, [Next]_vars
    PROVE  TypeOK'
<1>. USE ConstantsAssumption DEF TypeOK, EdidVersions, Features, environment, driver,
         locals, history
<1>1. CASE LoadDefaultVersion
  BY <1>1 DEF LoadDefaultVersion, SetVersionUenv, Refused
<1>2. CASE DeliverEdidData
  BY <1>2 DEF DeliverEdidData
<1>3. CASE InitFeature
  BY <1>3 DEF InitFeature, SetFeatureUenv, Refused, Supported, Taken
<1>4. CASE InitVersion
  BY <1>4 DEF InitVersion, GetEdidVersion
<1>5. CASE SetEdidBoostOn
  BY <1>5 DEF SetEdidBoostOn
<1>6. ASSUME NEW p \in Ports, NEW v \in Versions, SetEdidVersion(p, v) PROVE TypeOK'
  BY <1>6 DEF SetEdidVersion
<1>7. CASE SwitchVersion
  BY <1>7 DEF SwitchVersion, Forget, NewVersions, GetEdidVersion
<1>8. CASE SaveVersion
  BY <1>8 DEF SaveVersion, Forget, SetVersionUenv, Refused, NewVersions, GetEdidVersion
<1>9. ASSUME NEW f \in Features, NEW on \in BOOLEAN, SetFeature(f, on) PROVE TypeOK'
  BY <1>9, ZenonT(60) DEF SetFeature, SetFeatureUenv, Refused
<1>10. CASE WriteFeature
  BY <1>10 DEF WriteFeature, Forget
<1>11. CASE ChangeDisplay
  BY <1>11 DEF ChangeDisplay
<1>12. CASE Kill
  BY <1>12 DEF Kill, Forget
<1>13. CASE Restart
  BY <1>13 DEF Restart
<1>14. CASE UNCHANGED vars
  BY <1>14 DEF vars
<1>. QED
  BY <1>1, <1>2, <1>3, <1>4, <1>5, <1>6, <1>7, <1>8, <1>9, <1>10, <1>11, <1>12,
     <1>13, <1>14 DEF Next

\* Every step keeps FeatureInv.
LEMMA FeatureInvariant ==
    ASSUME TypeOK, FeatureInv, [Next]_vars
    PROVE  FeatureInv'
<1>. USE ConstantsAssumption DEF TypeOK, FeatureInv, environment, driver, locals, history
<1>1. CASE LoadDefaultVersion
  <2>1. /\ pc = "start" /\ pc' \in {"deliver", "idle"}
        /\ UNCHANGED <<display, feature, rxFeature, apart, gated>>
    BY <1>1 DEF LoadDefaultVersion, SetVersionUenv, Refused
  <2>2. "feature" \in saved <=> "feature" \in saved'
    BY <1>1 DEF LoadDefaultVersion, SetVersionUenv, Refused
  <2>. QED
    BY <2>1, <2>2 DEF Supported
<1>2. CASE DeliverEdidData
  BY <1>2 DEF DeliverEdidData, Supported
<1>3. CASE InitFeature
  BY <1>3 DEF InitFeature, SetFeatureUenv, Refused, Supported, Taken
<1>4. CASE InitVersion
  BY <1>4 DEF InitVersion, Supported
<1>5. CASE SetEdidBoostOn
  BY <1>5 DEF SetEdidBoostOn, Supported
<1>6. ASSUME NEW p \in Ports, NEW v \in Versions, SetEdidVersion(p, v) PROVE FeatureInv'
  BY <1>6 DEF SetEdidVersion, Supported
<1>7. CASE SwitchVersion
  BY <1>7 DEF SwitchVersion, Forget, Supported
<1>8. CASE SaveVersion
  BY <1>8 DEF SaveVersion, Forget, SetVersionUenv, Refused, Supported
<1>9. ASSUME NEW f \in Features, NEW on \in BOOLEAN, SetFeature(f, on) PROVE FeatureInv'
  <2>1. /\ pc = "idle" /\ pc' = "setFeature" /\ name' = f
        /\ enable' => f \in Supported
        /\ "feature" \notin saved' => feature' = {}
        /\ feature \ {f} \subseteq feature'
        /\ gated' = gated \union {f}
        /\ UNCHANGED <<display, rxFeature, apart>>
    BY <1>9 DEF SetFeature, SetFeatureUenv, Refused
  <2>. QED
    BY <2>1 DEF Supported
<1>10. CASE WriteFeature
  BY <1>10 DEF WriteFeature, Forget, Supported
<1>11. CASE ChangeDisplay
  BY <1>11 DEF ChangeDisplay, Supported
<1>12. CASE Kill
  BY <1>12 DEF Kill, Forget, Supported
<1>13. CASE Restart
  BY <1>13 DEF Restart, Supported
<1>14. CASE UNCHANGED vars
  BY <1>14 DEF vars, Supported
<1>. QED
  BY <1>1, <1>2, <1>3, <1>4, <1>5, <1>6, <1>7, <1>8, <1>9, <1>10, <1>11, <1>12,
     <1>13, <1>14 DEF Next

\* Every step keeps VersionInv where no client asks for 1.4.
LEMMA VersionInvariant ==
    ASSUME "14" \notin Versions, TypeOK, VersionInv, [Next]_vars
    PROVE  VersionInv'
<1>. USE ConstantsAssumption DEF TypeOK, VersionInv, EdidVersions, GetEdidVersion,
         NewVersions, environment, driver, locals, history
<1>1. CASE LoadDefaultVersion
  <2>1. /\ pc = "start" /\ pc' \in {"deliver", "idle"}
        /\ UNCHANGED <<rxVersion, port, version, requested, unsaved, loaded>>
    BY <1>1 DEF LoadDefaultVersion
  <2>2. /\ \A p \in Ports : GetEdidVersion(p)' = GetEdidVersion(p)
        /\ "edidVersion" \notin saved' => \A p \in Ports : edidVersion'[p] = "14"
    <3>1. CASE UNCHANGED <<saved, edidVersion>>
      BY <3>1
    <3>2. CASE /\ "edidVersion" \notin saved
               /\ edidVersion' = [p \in Ports |-> DefaultVersion]
               /\ saved' = saved \union {"edidVersion"}
      BY <3>2
    <3>. QED
      BY <1>1, <3>1, <3>2 DEF LoadDefaultVersion, SetVersionUenv, Refused
  <2>. QED
    BY <2>1, <2>2
<1>2. CASE DeliverEdidData
  BY <1>2 DEF DeliverEdidData
<1>3. CASE InitFeature
  BY <1>3 DEF InitFeature, SetFeatureUenv, Refused
<1>4. CASE InitVersion
  BY <1>4 DEF InitVersion
<1>5. CASE SetEdidBoostOn
  BY <1>5 DEF SetEdidBoostOn
<1>6. ASSUME NEW p \in Ports, NEW v \in Versions, SetEdidVersion(p, v) PROVE VersionInv'
  BY <1>6 DEF SetEdidVersion
<1>7. CASE SwitchVersion
  BY <1>7 DEF SwitchVersion, Forget
<1>8. CASE SaveVersion
  BY <1>8 DEF SaveVersion, Forget, SetVersionUenv, Refused
<1>9. ASSUME NEW f \in Features, NEW on \in BOOLEAN, SetFeature(f, on) PROVE VersionInv'
  BY <1>9 DEF SetFeature, SetFeatureUenv, Refused
<1>10. CASE WriteFeature
  BY <1>10 DEF WriteFeature, Forget
<1>11. CASE ChangeDisplay
  BY <1>11 DEF ChangeDisplay
<1>12. CASE Kill
  BY <1>12 DEF Kill, Forget
<1>13. CASE Restart
  BY <1>13 DEF Restart
<1>14. CASE UNCHANGED vars
  BY <1>14 DEF vars
<1>. QED
  BY <1>1, <1>2, <1>3, <1>4, <1>5, <1>6, <1>7, <1>8, <1>9, <1>10, <1>11, <1>12,
     <1>13, <1>14 DEF Next

\* Nothing but versions and features that exist reaches the environment or the
\* driver.
THEOREM TypeCorrect == Spec => []TypeOK
<1>1. Init => TypeOK
  BY ConstantsAssumption DEF Init, TypeOK, EdidVersions, Features
<1>2. TypeOK /\ [Next]_vars => TypeOK'
  BY TypeInvariant
<1>. QED
  BY <1>1, <1>2, PTL DEF Spec

\* A feature written without refusal is never advertised while it is off in the
\* environment or beyond the display that was asked, for every set of displays,
\* every crash and every other write that is refused.
THEOREM FeatureGatedCorrect == Spec => []FeatureGated
<1>1. Init => FeatureInv
  BY DEF Init, FeatureInv
<1>2. TypeOK /\ FeatureInv /\ [Next]_vars => FeatureInv'
  BY FeatureInvariant
<1>3. FeatureInv => FeatureGated
  BY DEF FeatureInv, FeatureGated
<1>. QED
  BY <1>1, <1>2, <1>3, TypeCorrect, PTL DEF Spec

\* A version that was set stays set, for every number of ports, through crashes
\* between the driver and the environment, unless the environment refused it, if
\* nobody asks for 1.4.
THEOREM EdidVersionKeptCorrect ==
    ASSUME "14" \notin Versions
    PROVE  Spec => []EdidVersionKept
<1>1. Init => VersionInv
  BY DEF Init, VersionInv
<1>2. TypeOK /\ VersionInv /\ [Next]_vars => VersionInv'
  BY VersionInvariant
<1>3. VersionInv => EdidVersionKept
  BY DEF VersionInv, EdidVersionKept
<1>. QED
  BY <1>1, <1>2, <1>3, TypeCorrect, PTL DEF Spec

-----------------------------------------------------------------------------
(***************************************************************************)
(* Edid.  Induction and recursive functions.                               *)
(***************************************************************************)

\* Induction, with the set of the numbers for which a fact holds.
LEMMA SetInduction ==
    ASSUME NEW T \in SUBSET Nat, 0 \in T, \A k \in T : k + 1 \in T
    PROVE  T = Nat
<1>. DEFINE R == OpToRel(<, Nat)
            S == Nat \ T
<1>1. IsWellFoundedOn(R, Nat)
  BY NatLessThanWellFounded, Zenon
<1>2. \A x, y \in Nat : y < x => <<y, x>> \in R
  BY DEF OpToRel
<1>3. S \subseteq Nat
  OBVIOUS
<1>. SUFFICES ASSUME S # {} PROVE FALSE
  OBVIOUS
<1>4. PICK x \in S : \A y \in S : ~(<<y, x>> \in R)
  <2>. HIDE DEF R, S
  <2>. QED
    BY ONLY <1>1, <1>3, S # {}, WFMin, Zenon
<1>5. x \in Nat /\ x \notin T
  BY <1>4, Zenon
<1>6. x # 0
  BY <1>5
<1>7. x - 1 \in Nat /\ x - 1 < x /\ (x - 1) + 1 = x
  BY <1>5, <1>6
<1>8. <<x - 1, x>> \in R
  BY <1>2, <1>5, <1>7, Zenon
<1>9. x - 1 \in T
  <2>. HIDE DEF R
  <2>. QED
    BY <1>4, <1>7, <1>8
<1>. QED
  BY <1>5, <1>7, <1>9

(***************************************************************************)
(* A recursive function on D with values in R: on stop it is base, any     *)
(* other call makes one call, of next, whose rank is lower, and applies    *)
(* step to its value.                                                      *)
(***************************************************************************)
Terminates(D, R, N, rank, stop, base, next, step) ==
    /\ N \in Nat /\ rank \in [D -> 0..N] /\ stop \in SUBSET D
    /\ base \in [D -> R] /\ next \in [D -> D] /\ step \in [D -> [R -> R]]
    /\ \A d \in D \ stop : rank[next[d]] < rank[d]

\* f is that function, and whatever obeys its equation is f.
Solves(f, D, R, stop, base, next, step) ==
    /\ f \in [D -> R]
    /\ \A d \in stop : f[d] = base[d]
    /\ \A d \in D \ stop : f[d] = step[d][f[next[d]]]
    /\ \A g : /\ g = [d \in D |-> g[d]]
              /\ \A d \in stop : g[d] = base[d]
              /\ \A d \in D \ stop : g[next[d]] \in R => g[d] = step[d][g[next[d]]]
              => g = f

\* Such a function exists.
LEMMA Recursion ==
    ASSUME NEW D, NEW R, NEW N, NEW rank, NEW stop, NEW base, NEW next, NEW step,
           Terminates(D, R, N, rank, stop, base, next, step)
    PROVE  \E f : Solves(f, D, R, stop, base, next, step)
<1>. USE DEF Terminates
<1>. DEFINE Right(f, d) == f[d] = IF d \in stop THEN base[d] ELSE step[d][f[next[d]]]
            Upto(f, k) == \A d \in D : rank[d] < k => Right(f, d)
            T == {k \in Nat : \E f \in [D -> R] : Upto(f, k)}
<1>1. 0 \in T
  <2>1. base \in [D -> R] /\ Upto(base, 0)
    OBVIOUS
  <2>. QED
    BY <2>1
<1>2. ASSUME NEW k \in T PROVE k + 1 \in T
  <2>1. PICK f \in [D -> R] : Upto(f, k)
    OBVIOUS
  <2>. DEFINE g == [d \in D |-> IF rank[d] < k THEN f[d]
                                ELSE IF d \in stop THEN base[d] ELSE step[d][f[next[d]]]]
  <2>2. g \in [D -> R]
    OBVIOUS
  <2>3. ASSUME NEW d \in D, rank[d] < k + 1 PROVE Right(g, d)
    <3>1. CASE d \in stop
      BY <2>1, <3>1
    <3>2. CASE d \notin stop
      <4>1. next[d] \in D /\ rank[next[d]] < k
        BY <2>3, <3>2
      <4>2. g[next[d]] = f[next[d]]
        BY <4>1
      <4>3. g[d] = step[d][f[next[d]]]
        BY <2>1, <3>2
      <4>. QED
        BY <3>2, <4>2, <4>3, Zenon
    <3>. QED
      BY <3>1, <3>2, Zenon
  <2>4. Upto(g, k + 1)
    BY <2>3, Zenon
  <2>. HIDE DEF g, Upto
  <2>. QED
    BY <2>2, <2>4
<1>3. N + 1 \in T
  <2>. HIDE DEF T
  <2>1. T \in SUBSET Nat
    BY DEF T
  <2>. QED
    BY <1>1, <1>2, <2>1, SetInduction
<1>4. PICK f \in [D -> R] : Upto(f, N + 1)
  BY <1>3
<1>5. \A d \in D : f[d] = IF d \in stop THEN base[d] ELSE step[d][f[next[d]]]
  BY <1>4
<1>6. ASSUME NEW g, g = [d \in D |-> g[d]], \A d \in stop : g[d] = base[d],
             \A d \in D \ stop : g[next[d]] \in R => g[d] = step[d][g[next[d]]]
      PROVE  g = f
  <2>. DEFINE U == {k \in Nat : \A d \in D : rank[d] < k => g[d] = f[d]}
  <2>1. 0 \in U
    OBVIOUS
  <2>2. ASSUME NEW k \in U PROVE k + 1 \in U
    <3>1. ASSUME NEW d \in D, rank[d] < k + 1 PROVE g[d] = f[d]
      <4>1. CASE d \in stop
        BY <1>5, <1>6, <4>1
      <4>2. CASE d \notin stop
        <5>1. next[d] \in D /\ rank[next[d]] < k
          BY <3>1, <4>2
        <5>2. g[next[d]] = f[next[d]] /\ f[next[d]] \in R
          BY <5>1
        <5>3. g[d] = step[d][g[next[d]]] /\ f[d] = step[d][f[next[d]]]
          BY <1>5, <1>6, <4>2, <5>2
        <5>. QED
          BY <5>2, <5>3
      <4>. QED
        BY <4>1, <4>2
    <3>. QED
      BY <3>1
  <2>3. N + 1 \in U
    <3>. HIDE DEF U
    <3>1. U \in SUBSET Nat
      BY DEF U
    <3>. QED
      BY <2>1, <2>2, <3>1, SetInduction
  <2>4. \A d \in D : g[d] = f[d]
    BY <2>3
  <2>5. f = [d \in D |-> f[d]]
    OBVIOUS
  <2>. QED
    BY <1>6, <2>4, <2>5
<1>7. \A d \in stop : f[d] = base[d]
  BY <1>5
<1>8. \A d \in D \ stop : f[d] = step[d][f[next[d]]]
  BY <1>5
<1>9. Solves(f, D, R, stop, base, next, step)
  BY ONLY <1>6, <1>7, <1>8 DEF Solves
<1>. QED
  BY <1>9

(***************************************************************************)
(* Checksums.                                                              *)
(***************************************************************************)

\* A block's bytes are numbers.
LEMMA Bytewise ==
    ASSUME NEW b \in ByteBlocks
    PROVE  \A i \in 0..127 : b[i] \in 0..255 /\ b[i] \in Nat
<1>1. \A i \in 0..127 : b[i] \in 0..255
  BY DEF ByteBlocks
<1>2. \A x \in 0..255 : x \in Nat
  OBVIOUS
<1>. QED
  BY <1>1, <1>2

\* Those the parsers read.
LEMMA HeadBytes ==
    ASSUME NEW b \in ByteBlocks
    PROVE  /\ b[0] \in 0..255 /\ b[2] \in 0..255 /\ b[126] \in 0..255
           /\ b[2] \in Nat /\ b[126] \in Nat
<1>1. 0 \in 0..127 /\ 2 \in 0..127 /\ 126 \in 0..127
  OBVIOUS
<1>. QED
  BY <1>1, Bytewise

\* The sum with one more byte.
LEMMA SumStep ==
    ASSUME NEW b \in ByteBlocks
    PROVE  /\ \A last \in 0..127 : Sum(b, last) \in Nat
           /\ Sum(b, 0) = b[0]
           /\ \A last \in 1..127 : Sum(b, last) = Sum(b, last - 1) + b[last]
<1>. DEFINE D == 0..127
            stop == {0}
            Eq(f) == f = [i \in 0..127 |-> b[i] + (IF i = 0 THEN 0 ELSE f[i - 1])]
            rank == [i \in D |-> i]
            base == [i \in D |-> b[i]]
            next == [i \in D |-> IF i = 0 THEN 0 ELSE i - 1]
            step == [i \in D |-> [v \in Nat |-> b[i] + v]]
<1>1. \A i \in D : b[i] \in Nat
  BY Bytewise
<1>2. /\ rank \in [D -> 0..127] /\ stop \in SUBSET D
      /\ base \in [D -> Nat] /\ next \in [D -> D] /\ 127 \in Nat
      /\ \A d \in D \ stop : rank[next[d]] < rank[d]
  BY <1>1
<1>3. step \in [D -> [Nat -> Nat]]
  BY ONLY <1>1, SMTT(30)
<1>4. \A d \in D \ stop : next[d] = d - 1 /\ next[d] \in D
  OBVIOUS
<1>5. \A d \in D, v \in Nat : step[d][v] = b[d] + v
  BY Zenon
<1>6. base[0] = b[0]
  OBVIOUS
<1>. HIDE DEF rank, base, next, step
<1>7. PICK f : Solves(f, D, Nat, stop, base, next, step)
  <2>1. Terminates(D, Nat, 127, rank, stop, base, next, step)
    BY <1>2, <1>3, Zenon DEF Terminates
  <2>. HIDE DEF D, stop
  <2>. QED
    BY <2>1, Recursion, SMTT(30)
<1>8. Eq(f)
  <2>1. ASSUME NEW i \in D PROVE f[i] = b[i] + (IF i = 0 THEN 0 ELSE f[i - 1])
    <3>1. CASE i = 0
      BY <1>1, <1>6, <1>7, <3>1 DEF Solves
    <3>2. CASE i # 0
      <4>1. f[i] = step[i][f[next[i]]] /\ next[i] = i - 1 /\ f[next[i]] \in Nat
        BY <1>4, <1>7, <3>2 DEF Solves
      <4>. QED
        BY <1>5, <3>2, <4>1
    <3>. QED
      BY <3>1, <3>2
  <2>2. f \in [D -> Nat]
    BY <1>7 DEF Solves
  <2>. QED
    BY <2>1, <2>2
<1>9. ASSUME NEW g, Eq(g) PROVE g = f
  <2>1. g = [d \in D |-> g[d]]
    BY <1>9
  <2>2. \A d \in stop : g[d] = base[d]
    BY <1>1, <1>6, <1>9
  <2>3. ASSUME NEW d \in D \ stop, g[next[d]] \in Nat PROVE g[d] = step[d][g[next[d]]]
    <3>1. next[d] = d - 1 /\ g[d] = b[d] + g[d - 1]
      BY <1>4, <1>9
    <3>. QED
      BY <1>5, <2>3, <3>1
  <2>. HIDE DEF D, stop, Eq
  <2>. QED
    BY <1>7, <2>1, <2>2, <2>3 DEF Solves
<1>10. f = CHOOSE g : Eq(g)
  BY ONLY <1>8, <1>9, Zenon
<1>11. \A last : Sum(b, last) = f[last]
  BY <1>10 DEF Sum
<1>12. \A last \in D : f[last] \in Nat
  BY <1>7 DEF Solves
<1>13. f[0] = b[0]
  BY <1>1, <1>8
<1>14. \A last \in 1..127 : f[last] = f[last - 1] + b[last]
  <2>1. ASSUME NEW i \in 1..127 PROVE f[i] = f[i - 1] + b[i]
    <3>1. i \in 0..127 /\ i - 1 \in D /\ i # 0
      OBVIOUS
    <3>2. f[i] = b[i] + f[i - 1]
      BY <1>8, <3>1
    <3>3. b[i] \in Nat /\ f[i - 1] \in Nat
      BY ONLY <1>1, <1>12, <3>1, Zenon
    <3>. QED
      BY <3>2, <3>3
  <2>. QED
    BY <2>1
<1>. QED
  BY ONLY <1>11, <1>12, <1>13, <1>14, Zenon

\* The sum looks at the bytes it adds, and at no other.
LEMMA SumSame ==
    ASSUME NEW b \in ByteBlocks, NEW c \in ByteBlocks, \A i \in 0..126 : b[i] = c[i]
    PROVE  Sum(b, 126) = Sum(c, 126)
<1>. DEFINE T == {k \in Nat : k \in 0..126 => Sum(b, k) = Sum(c, k)}
<1>1. 0 \in T
  BY SumStep
<1>2. ASSUME NEW k \in T PROVE k + 1 \in T
  BY SumStep, <1>2
<1>3. 126 \in T
  <2>. HIDE DEF T
  <2>1. T \in SUBSET Nat
    BY DEF T
  <2>. QED
    BY <1>1, <1>2, <2>1, SetInduction
<1>. QED
  BY <1>3

\* What RecalculateEdidBlockChecksum writes makes the block's bytes add up to 0.
LEMMA ChecksumRight ==
    ASSUME NEW b \in ByteBlocks
    PROVE  /\ RecalculateEdidBlockChecksum(b) \in Valid
           /\ \A i \in 0..126 : RecalculateEdidBlockChecksum(b)[i] = b[i]
<1>. DEFINE c == RecalculateEdidBlockChecksum(b)
            s == Sum(b, 126)
<1>1. s \in Nat
  BY SumStep
<1>2. (256 - (s % 256)) % 256 \in 0..255
  BY <1>1, SMTT(30)
<1>3. c \in ByteBlocks /\ c[127] = (256 - (s % 256)) % 256 /\ \A i \in 0..126 : c[i] = b[i]
  <2>1. \A v \in 0..255 : [b EXCEPT ![127] = v] \in ByteBlocks
    BY DEF ByteBlocks
  <2>2. DOMAIN b = 0..127
    BY ONLY DEF ByteBlocks
  <2>3. 127 \in DOMAIN b /\ \A i \in 0..126 : i \in DOMAIN b /\ i # 127
    BY <2>2
  <2>. QED
    BY ONLY <1>2, <2>1, <2>3, ZenonT(60) DEF RecalculateEdidBlockChecksum
<1>4. Sum(c, 127) = Sum(c, 126) + c[127]
  BY <1>3, SumStep
<1>5. Sum(c, 126) = s
  BY <1>3, SumSame
<1>6. \A n \in Nat : (n + ((256 - (n % 256)) % 256)) % 256 = 0
  OBVIOUS
<1>7. Sum(c, 127) % 256 = 0
  <2>. HIDE DEF c, s
  <2>. QED
    BY <1>1, <1>3, <1>4, <1>5, <1>6
<1>8. c \in Valid
  BY <1>3, <1>7 DEF Valid
<1>. QED
  BY <1>3, <1>8

\* The buffer before a file is read.
LEMMA ZerosValid == Zeros \in Valid
<1>. DEFINE T == {k \in Nat : k \in 0..127 => Sum(Zeros, k) = 0}
<1>1. Zeros \in ByteBlocks /\ \A i \in 0..127 : Zeros[i] = 0
  BY DEF Zeros, ByteBlocks
<1>2. 0 \in T
  BY <1>1, SumStep
<1>3. ASSUME NEW k \in T PROVE k + 1 \in T
  BY ONLY <1>1, SumStep, <1>3, SMTT(30)
<1>4. 127 \in T
  <2>. HIDE DEF T
  <2>1. T \in SUBSET Nat
    BY DEF T
  <2>. QED
    BY <1>2, <1>3, <2>1, SetInduction
<1>. QED
  BY <1>1, <1>4 DEF Valid

(***************************************************************************)
(* The bytes that are written are bytes.                                   *)
(***************************************************************************)

\* A number of a timing, cut into bytes and nibbles.
Fits(n, high) == n \in Nat /\ n \div 256 \in 0..high

\* Halves of a byte and of a number.
LEMMA LowByte == \A n \in Nat : n % 256 \in 0..255
  OBVIOUS

\* Two of them make a byte.
LEMMA Nibbles == \A m, n \in 0..15 : 16 * m + n \in 0..255
  OBVIOUS

\* A timing whose numbers fit into its bytes.
LEMMA TimingBytes ==
    ASSUME NEW clock, NEW hActive, NEW hBlank, NEW vActive, NEW vBlank, NEW flags \in 0..255,
           Fits(clock, 255), Fits(hActive, 15), Fits(hBlank, 15), Fits(vActive, 15),
           Fits(vBlank, 15)
    PROVE  WriteDetailedTiming(clock, hActive, hBlank, vActive, vBlank, flags)
              \in [0..17 -> 0..255]
<1>. DEFINE c == WriteDetailedTiming(clock, hActive, hBlank, vActive, vBlank, flags)
<1>1. /\ clock % 256 \in 0..255 /\ clock \div 256 \in 0..255
      /\ hActive % 256 \in 0..255 /\ hBlank % 256 \in 0..255
      /\ vActive % 256 \in 0..255 /\ vBlank % 256 \in 0..255
  BY LowByte DEF Fits
<1>2. /\ 16 * (hActive \div 256) + hBlank \div 256 \in 0..255
      /\ 16 * (vActive \div 256) + vBlank \div 256 \in 0..255
  BY Nibbles DEF Fits
<1>3. c = [i \in 0..17 |-> c[i]]
  BY DEF WriteDetailedTiming
<1>4. /\ c[0] = clock % 256 /\ c[1] = clock \div 256
      /\ c[2] = hActive % 256 /\ c[3] = hBlank % 256
      /\ c[4] = 16 * (hActive \div 256) + hBlank \div 256
      /\ c[5] = vActive % 256 /\ c[6] = vBlank % 256
      /\ c[7] = 16 * (vActive \div 256) + vBlank \div 256
      /\ c[17] = flags
      /\ \A i \in 8..16 : c[i] = 0
  BY DEF WriteDetailedTiming
<1>5. \A i \in 0..17 : i \in 8..16 \/ i \in {0, 1, 2, 3, 4, 5, 6, 7, 17}
  OBVIOUS
<1>6. \A i \in 0..17 : c[i] \in 0..255
  BY <1>1, <1>2, <1>4, <1>5
<1>. QED
  BY <1>3, <1>6

\* Those of the patch.
LEMMA PatchTimings ==
    /\ Mode1440p144 \in [0..17 -> 0..255]
    /\ Mode1440p120 \in [0..17 -> 0..255]
    /\ Mode1440p60 \in [0..17 -> 0..255]
    /\ Mode1080p144 \in [0..17 -> 0..255]
    /\ Mode1080p240 \in [0..17 -> 0..255]
    /\ Mode3440p60 \in [0..17 -> 0..255]
<1>1. 30 \in 0..255
  OBVIOUS
<1>2. Mode1440p144 \in [0..17 -> 0..255]
  <2>1. Fits(57104, 255) /\ Fits(2560, 15) /\ Fits(160, 15) /\ Fits(1440, 15) /\ Fits(18, 15)
    BY SMT DEF Fits
  <2>2. PICK c, h, k, v, l : c = 57104 /\ h = 2560 /\ k = 160 /\ v = 1440 /\ l = 18
    BY SMT
  <2>3. Fits(c, 255) /\ Fits(h, 15) /\ Fits(k, 15) /\ Fits(v, 15) /\ Fits(l, 15)
    BY ONLY <2>1, <2>2
  <2>4. WriteDetailedTiming(c, h, k, v, l, 30) \in [0..17 -> 0..255]
    BY ONLY <1>1, <2>3, TimingBytes, ZenonT(60)
  <2>5. Mode1440p144 = WriteDetailedTiming(c, h, k, v, l, 30)
    BY ONLY <2>2, SMT DEF Mode1440p144
  <2>. QED
    BY ONLY <2>4, <2>5
<1>3. Mode1440p120 \in [0..17 -> 0..255]
  <2>1. Fits(49775, 255) /\ Fits(2560, 15) /\ Fits(160, 15) /\ Fits(1440, 15) /\ Fits(85, 15)
    BY SMT DEF Fits
  <2>2. PICK c, h, k, v, l : c = 49775 /\ h = 2560 /\ k = 160 /\ v = 1440 /\ l = 85
    BY SMT
  <2>3. Fits(c, 255) /\ Fits(h, 15) /\ Fits(k, 15) /\ Fits(v, 15) /\ Fits(l, 15)
    BY ONLY <2>1, <2>2, SMT
  <2>4. WriteDetailedTiming(c, h, k, v, l, 30) \in [0..17 -> 0..255]
    BY ONLY <1>1, <2>3, TimingBytes, Zenon
  <2>5. Mode1440p120 = WriteDetailedTiming(c, h, k, v, l, 30)
    BY ONLY <2>2, SMT DEF Mode1440p120
  <2>. QED
    BY ONLY <2>4, <2>5
<1>4. Mode1440p60 \in [0..17 -> 0..255]
  <2>1. Fits(24150, 255) /\ Fits(2560, 15) /\ Fits(160, 15) /\ Fits(1440, 15) /\ Fits(41, 15)
    BY SMT DEF Fits
  <2>2. PICK c, h, k, v, l : c = 24150 /\ h = 2560 /\ k = 160 /\ v = 1440 /\ l = 41
    BY SMT
  <2>3. Fits(c, 255) /\ Fits(h, 15) /\ Fits(k, 15) /\ Fits(v, 15) /\ Fits(l, 15)
    BY ONLY <2>1, <2>2, SMT
  <2>4. WriteDetailedTiming(c, h, k, v, l, 30) \in [0..17 -> 0..255]
    BY ONLY <1>1, <2>3, TimingBytes
  <2>5. Mode1440p60 = WriteDetailedTiming(c, h, k, v, l, 30)
    BY ONLY <2>2, SMT DEF Mode1440p60
  <2>. QED
    BY ONLY <2>4, <2>5
<1>5. Mode1080p144 \in [0..17 -> 0..255]
  <2>1. Fits(35640, 255) /\ Fits(1920, 15) /\ Fits(280, 15) /\ Fits(1080, 15) /\ Fits(45, 15)
    BY SMT DEF Fits
  <2>2. PICK c, h, k, v, l : c = 35640 /\ h = 1920 /\ k = 280 /\ v = 1080 /\ l = 45
    BY SMT
  <2>3. Fits(c, 255) /\ Fits(h, 15) /\ Fits(k, 15) /\ Fits(v, 15) /\ Fits(l, 15)
    BY ONLY <2>1, <2>2, SMT
  <2>4. WriteDetailedTiming(c, h, k, v, l, 30) \in [0..17 -> 0..255]
    BY ONLY <1>1, <2>3, TimingBytes
  <2>5. Mode1080p144 = WriteDetailedTiming(c, h, k, v, l, 30)
    BY ONLY <2>2, SMT DEF Mode1080p144
  <2>. QED
    BY ONLY <2>4, <2>5
<1>6. Mode1080p240 \in [0..17 -> 0..255]
  <2>1. Fits(59400, 255) /\ Fits(1920, 15) /\ Fits(280, 15) /\ Fits(1080, 15) /\ Fits(45, 15)
    BY SMT DEF Fits
  <2>2. PICK c, h, k, v, l : c = 59400 /\ h = 1920 /\ k = 280 /\ v = 1080 /\ l = 45
    BY SMT
  <2>3. Fits(c, 255) /\ Fits(h, 15) /\ Fits(k, 15) /\ Fits(v, 15) /\ Fits(l, 15)
    BY ONLY <2>1, <2>2, SMT
  <2>4. WriteDetailedTiming(c, h, k, v, l, 30) \in [0..17 -> 0..255]
    BY ONLY <1>1, <2>3, TimingBytes
  <2>5. Mode1080p240 = WriteDetailedTiming(c, h, k, v, l, 30)
    BY ONLY <2>2, SMT DEF Mode1080p240
  <2>. QED
    BY ONLY <2>4, <2>5
<1>7. Mode3440p60 \in [0..17 -> 0..255]
  <2>1. Fits(31975, 255) /\ Fits(3440, 15) /\ Fits(160, 15) /\ Fits(1440, 15) /\ Fits(49, 15)
    BY SMT DEF Fits
  <2>2. PICK c, h, k, v, l : c = 31975 /\ h = 3440 /\ k = 160 /\ v = 1440 /\ l = 49
    BY SMT
  <2>3. Fits(c, 255) /\ Fits(h, 15) /\ Fits(k, 15) /\ Fits(v, 15) /\ Fits(l, 15)
    BY ONLY <2>1, <2>2, SMT
  <2>4. WriteDetailedTiming(c, h, k, v, l, 30) \in [0..17 -> 0..255]
    BY ONLY <1>1, <2>3, TimingBytes
  <2>5. Mode3440p60 = WriteDetailedTiming(c, h, k, v, l, 30)
    BY ONLY <2>2, SMT DEF Mode3440p60
  <2>. QED
    BY ONLY <2>4, <2>5
<1>. QED
  BY ONLY <1>2, <1>3, <1>4, <1>5, <1>6, <1>7, Zenon

\* A slot that is written.
LEMMA SlotPut ==
    ASSUME NEW b \in ByteBlocks, NEW at \in 0..110, NEW s \in [0..17 -> 0..255]
    PROVE  PutSlot(b, at, s) \in ByteBlocks
<1>1. ASSUME NEW i \in 0..127 PROVE (IF i \in at..at + 17 THEN s[i - at] ELSE b[i]) \in 0..255
  <2>1. CASE i \in at..at + 17
    <3>1. i - at \in 0..17
      BY <2>1
    <3>. QED
      BY <2>1, <3>1
  <2>2. CASE i \notin at..at + 17
    BY ONLY <2>2, Bytewise, Zenon
  <2>. QED
    BY <2>1, <2>2
<1>2. PICK c : c = PutSlot(b, at, s)
  OBVIOUS
<1>3. c = [i \in 0..127 |-> IF i \in at..at + 17 THEN s[i - at] ELSE b[i]]
  BY <1>2, Zenon DEF PutSlot
<1>4. \A i \in 0..127 : c[i] \in 0..255
  BY ONLY <1>1, <1>3, Zenon
<1>5. c = [i \in 0..127 |-> c[i]]
  BY ONLY <1>3
<1>. QED
  BY ONLY <1>2, <1>4, <1>5, Zenon DEF ByteBlocks

\* The base block with the timings of the patch; the rest stays.
LEMMA BaseModesBytes ==
    ASSUME NEW b \in ByteBlocks
    PROVE  /\ baseModes(b) \in ByteBlocks
           /\ \A i \in 0..127 : i \notin 54..107 => baseModes(b)[i] = b[i]
           /\ \A i \in 0..17 :
                 /\ baseModes(b)[54 + i] = Mode1440p144[i]
                 /\ baseModes(b)[72 + i] = Mode1440p120[i]
                 /\ baseModes(b)[90 + i] = Mode1440p60[i]
<1>. DEFINE s == Mode1440p144
            t == Mode1440p120
            u == Mode1440p60
<1>1. s \in [0..17 -> 0..255] /\ t \in [0..17 -> 0..255] /\ u \in [0..17 -> 0..255]
  BY ONLY PatchTimings, ZenonT(60)
<1>2. baseModes(b) = PutSlot(PutSlot(PutSlot(b, 54, s), 72, t), 90, u)
  BY ONLY Zenon DEF baseModes
<1>. HIDE DEF s, t, u
<1>3. 54 \in 0..110 /\ 72 \in 0..110 /\ 90 \in 0..110
  OBVIOUS
<1>4. PutSlot(b, 54, s) \in ByteBlocks
  BY ONLY b \in ByteBlocks, <1>1, <1>3, SlotPut, ZenonT(60)
<1>5. PutSlot(PutSlot(b, 54, s), 72, t) \in ByteBlocks
  BY ONLY <1>1, <1>3, <1>4, SlotPut, Zenon
<1>6. baseModes(b) \in ByteBlocks
  <2>1. PutSlot(PutSlot(PutSlot(b, 54, s), 72, t), 90, u) \in ByteBlocks
    BY ONLY <1>1, <1>3, <1>5, SlotPut, Zenon
  <2>. QED
    BY ONLY <1>2, <2>1
<1>7. ASSUME NEW i \in 0..127, i \notin 54..107 PROVE baseModes(b)[i] = b[i]
  <2>1. i \notin 54..54 + 17 /\ i \notin 72..72 + 17 /\ i \notin 90..90 + 17
    BY <1>7
  <2>. QED
    BY ONLY <1>2, <2>1, i \in 0..127 DEF PutSlot
<1>8. ASSUME NEW i \in 0..17
      PROVE  baseModes(b)[54 + i] = s[i] /\ baseModes(b)[72 + i] = t[i]
             /\ baseModes(b)[90 + i] = u[i]
  <2>1. baseModes(b)[54 + i] = s[i]
    BY ONLY <1>2, i \in 0..17 DEF PutSlot
  <2>2. baseModes(b)[72 + i] = t[i]
    BY ONLY <1>2, i \in 0..17 DEF PutSlot
  <2>3. baseModes(b)[90 + i] = u[i]
    BY ONLY <1>2, i \in 0..17 DEF PutSlot
  <2>. QED
    BY <2>1, <2>2, <2>3
<1>. QED
  BY ONLY <1>6, <1>7, <1>8, Zenon DEF s, t, u

\* The second extension.
LEMMA SecondExtensionValid ==
    /\ SecondExtension \in Valid
    /\ SecondExtension[0] = 2 /\ SecondExtension[2] = 4
    /\ \A n \in 0..5, i \in 0..17 : SecondExtension[4 + 18 * n + i] = newModes[n + 1][i]
<1>1. newModes \in [1..6 -> [0..17 -> 0..255]]
  <2>1. newModes = [n \in 1..6 |-> newModes[n]]
    BY ONLY SMT DEF newModes
  <2>2. \A n \in 1..6 : newModes[n] \in {Mode1440p144, Mode1440p120, Mode1440p60, Mode1080p144,
                                         Mode1080p240, Mode3440p60}
    BY ONLY SMT DEF newModes
  <2>3. \A n \in 1..6 : newModes[n] \in [0..17 -> 0..255]
    BY ONLY <2>2, PatchTimings, ZenonT(60)
  <2>. QED
    BY ONLY <2>1, <2>3, Zenon
<1>. DEFINE c == [i \in 0..127 |->
                     CASE i = 0 -> 2 [] i = 1 -> 3 [] i = 2 -> 4
                       [] i \in 4..111 -> newModes[(i - 4) \div 18 + 1][(i - 4) % 18]
                       [] OTHER -> 0]
<1>2. c \in ByteBlocks
  <2>1. ASSUME NEW i \in 0..127 PROVE c[i] \in 0..255
    <3>1. CASE i \in 4..111
      <4>1. (i - 4) \div 18 + 1 \in 1..6 /\ (i - 4) % 18 \in 0..17
        BY <3>1, SMTT(30)
      <4>2. newModes[(i - 4) \div 18 + 1][(i - 4) % 18] \in 0..255
        BY ONLY <1>1, <4>1
      <4>3. c[i] = newModes[(i - 4) \div 18 + 1][(i - 4) % 18]
        BY ONLY <3>1, i \in 0..127
      <4>. HIDE DEF c
      <4>. QED
        BY ONLY <4>2, <4>3
    <3>2. CASE i \notin 4..111
      <4>1. c[i] \in {0, 2, 3, 4}
        <5>1. CASE i = 0
          BY ONLY <5>1
        <5>2. CASE i = 1
          BY ONLY <5>2
        <5>3. CASE i = 2
          BY ONLY <5>3
        <5>4. CASE i \notin {0, 1, 2}
          BY ONLY <3>2, <5>4, i \in 0..127
        <5>. QED
          BY ONLY <5>1, <5>2, <5>3, <5>4
      <4>. HIDE DEF c
      <4>. QED
        BY ONLY <4>1
    <3>. QED
      BY ONLY <3>1, <3>2, Zenon
  <2>2. c = [i \in 0..127 |-> c[i]]
    OBVIOUS
  <2>. HIDE DEF c
  <2>. QED
    BY <2>1, <2>2, Zenon DEF ByteBlocks
<1>3. c[0] = 2 /\ c[2] = 4
  OBVIOUS
<1>4. ASSUME NEW n \in 0..5, NEW i \in 0..17 PROVE c[4 + 18 * n + i] = newModes[n + 1][i]
  <2>1. /\ 4 + 18 * n + i \in 4..111
        /\ (4 + 18 * n + i - 4) \div 18 = n /\ (4 + 18 * n + i - 4) % 18 = i
    OBVIOUS
  <2>. QED
    BY <2>1
<1>5. \A n \in 0..5, i \in 0..17 : 4 + 18 * n + i \in 0..126
  OBVIOUS
<1>6. SecondExtension = RecalculateEdidBlockChecksum(c)
  BY DEF SecondExtension
<1>. HIDE DEF c
<1>7. SecondExtension \in Valid /\ \A i \in 0..126 : SecondExtension[i] = c[i]
  BY <1>2, <1>6, ChecksumRight
<1>. QED
  BY <1>3, <1>4, <1>5, <1>7, SMTT(30)

(***************************************************************************)
(* The walk over the data blocks.                                          *)
(***************************************************************************)

\* A set of numbers that is not empty has a smallest.
LEMMA Smallest ==
    ASSUME NEW S \in SUBSET Nat, S # {}
    PROVE  \E x \in S : \A y \in S : x <= y
<1>. DEFINE R == OpToRel(<, Nat)
<1>1. IsWellFoundedOn(R, Nat)
  BY NatLessThanWellFounded, Zenon
<1>2. \A x, y \in Nat : y < x => <<y, x>> \in R
  BY DEF OpToRel
<1>3. PICK x \in S : \A y \in S : ~(<<y, x>> \in R)
  <2>. HIDE DEF R
  <2>. QED
    BY ONLY <1>1, S \in SUBSET Nat, S # {}, WFMin, Zenon
<1>4. ASSUME NEW y \in S PROVE x <= y
  <2>. HIDE DEF R
  <2>1. ~(y < x)
    BY <1>2, <1>3
  <2>. QED
    BY <2>1
<1>. QED
  BY <1>4

\* Lengths and data ends are where the code's offsets can be.
LEMMA Offsets ==
    ASSUME NEW b \in ByteBlocks
    PROVE  /\ DataEnd(b) \in 4..127
           /\ \A off \in 0..127 : BlockLen(b, off) \in 0..31
           /\ \A off \in 0..126 : ~Stops(b, off) =>
                 /\ BlockLen(b, off) \in 1..31
                 /\ off + BlockLen(b, off) + 1 \in off + 2..127
<1>1. DataEnd(b) \in 4..127
  BY DEF DataEnd
<1>2. \A off \in 0..127 : BlockLen(b, off) \in 0..31
  <2>1. \A n \in Nat : n % 32 \in 0..31
    OBVIOUS
  <2>. QED
    BY ONLY <2>1, Bytewise, Zenon DEF BlockLen
<1>3. ASSUME NEW off \in 0..126, ~Stops(b, off)
      PROVE  BlockLen(b, off) \in 1..31 /\ off + BlockLen(b, off) + 1 \in off + 2..127
  <2>1. BlockLen(b, off) \in 0..31 /\ BlockLen(b, off) # 0 /\ ~(off + BlockLen(b, off) >= 127)
    BY <1>2, <1>3 DEF Stops
  <2>. QED
    BY <2>1
<1>. QED
  BY ONLY <1>1, <1>2, <1>3, SMTT(30)

\* Whether the walk is at its end.
AtEnd(b, off) == off >= DataEnd(b) \/ Stops(b, off)

\* One step of the walk.
LEMMA WalkStep ==
    ASSUME NEW b \in ByteBlocks
    PROVE  \A off \in 4..127 :
              /\ Walk(b)[off] \subseteq 4..126
              /\ AtEnd(b, off) => Walk(b)[off] = {}
              /\ ~AtEnd(b, off) => /\ off + BlockLen(b, off) + 1 \in off + 2..127
                                   /\ Walk(b)[off] = {off} \cup Walk(b)[off + BlockLen(b, off) + 1]
<1>. DEFINE D == 4..127
            R == SUBSET (4..126)
            stop == {off \in D : AtEnd(b, off)}
            Eq(f) == f = [off \in 4..127 |->
                            IF off >= DataEnd(b) \/ Stops(b, off) THEN {}
                            ELSE {off} \cup f[off + BlockLen(b, off) + 1]]
            rank == [i \in D |-> 127 - i]
            base == [i \in D |-> {}]
            next == [i \in D |-> IF i \in stop THEN i ELSE i + BlockLen(b, i) + 1]
            step == [i \in D |-> [v \in R |-> IF i = 127 THEN v ELSE {i} \cup v]]
<1>1. ASSUME NEW i \in D \ stop
      PROVE  /\ next[i] = i + BlockLen(b, i) + 1 /\ next[i] \in i + 2..127 /\ next[i] \in D
             /\ i \in 4..126
  <2>1. i \in 4..126 /\ ~Stops(b, i)
    <3>1. ~AtEnd(b, i) /\ DataEnd(b) \in 4..127
      BY ONLY Offsets
    <3>. QED
      BY <3>1 DEF AtEnd
  <2>2. i + BlockLen(b, i) + 1 \in i + 2..127
    <3>1. i \in 0..126
      BY <2>1
    <3>. QED
      BY ONLY <2>1, <3>1, b \in ByteBlocks, Offsets
  <2>3. next[i] = i + BlockLen(b, i) + 1
    OBVIOUS
  <2>. HIDE DEF next
  <2>. QED
    BY <2>1, <2>2, <2>3
<1>2. rank \in [D -> 0..127] /\ stop \in SUBSET D /\ base \in [D -> R] /\ 127 \in Nat
  OBVIOUS
<1>3. next \in [D -> D]
  <2>1. ASSUME NEW i \in D PROVE next[i] \in D
    BY ONLY <1>1, ZenonT(60)
  <2>2. next = [i \in D |-> next[i]]
    OBVIOUS
  <2>. HIDE DEF next, D
  <2>. QED
    BY <2>1, <2>2
<1>4. step \in [D -> [R -> R]]
  OBVIOUS
<1>5. \A i \in D \ stop : rank[next[i]] < rank[i]
  <2>1. ASSUME NEW i \in D \ stop PROVE rank[next[i]] < rank[i]
    <3>1. next[i] \in D /\ i \in D /\ next[i] \in i + 2..127
      BY ONLY <1>1, ZenonT(60)
    <3>2. rank[next[i]] = 127 - next[i] /\ rank[i] = 127 - i
      <4>. HIDE DEF next
      <4>. QED
        BY <3>1
    <3>. HIDE DEF rank, next
    <3>. QED
      BY <3>1, <3>2
  <2>. QED
    BY <2>1, Zenon
<1>6. \A i \in D, v \in R : i # 127 => step[i][v] = {i} \cup v
  OBVIOUS
<1>7. \A i \in D : base[i] = {}
  OBVIOUS
<1>. HIDE DEF rank, base, next, step
<1>8. PICK f : Solves(f, D, R, stop, base, next, step)
  <2>1. Terminates(D, R, 127, rank, stop, base, next, step)
    BY ONLY <1>2, <1>3, <1>4, <1>5, Zenon DEF Terminates
  <2>. HIDE DEF D, R, stop
  <2>. QED
    BY <2>1, Recursion
<1>9. \A off \in D : off \in stop <=> AtEnd(b, off)
  OBVIOUS
<1>10. f \in [D -> R]
  BY ONLY <1>8, Zenon DEF Solves
<1>11. \A off \in D : AtEnd(b, off) => f[off] = {}
  BY <1>7, <1>8, <1>9 DEF Solves
<1>12. \A off \in D : ~AtEnd(b, off) =>
          /\ off + BlockLen(b, off) + 1 \in off + 2..127
          /\ f[off] = {off} \cup f[off + BlockLen(b, off) + 1]
  <2>1. ASSUME NEW off \in D, ~AtEnd(b, off)
        PROVE  /\ off + BlockLen(b, off) + 1 \in off + 2..127
               /\ f[off] = {off} \cup f[off + BlockLen(b, off) + 1]
    <3>1. off \in D \ stop
      BY <1>9, <2>1
    <3>2. /\ next[off] = off + BlockLen(b, off) + 1 /\ next[off] \in off + 2..127
          /\ next[off] \in D /\ off # 127
      BY <1>1, <3>1
    <3>3. f[off] = step[off][f[next[off]]] /\ f[next[off]] \in R
      BY <1>8, <1>10, <3>1, <3>2 DEF Solves
    <3>4. f[off] = {off} \cup f[next[off]]
      BY ONLY <1>6, <3>2, <3>3, Zenon
    <3>. QED
      BY <3>2, <3>4
  <2>. QED
    BY <2>1
<1>13. Eq(f)
  <2>1. ASSUME NEW off \in D
        PROVE  f[off] = IF off >= DataEnd(b) \/ Stops(b, off) THEN {}
                        ELSE {off} \cup f[off + BlockLen(b, off) + 1]
    BY <1>11, <1>12 DEF AtEnd
  <2>. QED
    BY <1>10, <2>1, Zenon
<1>14. ASSUME NEW g, Eq(g) PROVE g = f
  <2>1. g = [d \in D |-> g[d]]
    BY <1>14, SMTT(30)
  <2>2. \A d \in stop : g[d] = base[d]
    BY <1>7, <1>14, Zenon DEF AtEnd
  <2>3. ASSUME NEW d \in D \ stop, g[next[d]] \in R PROVE g[d] = step[d][g[next[d]]]
    <3>1. next[d] = d + BlockLen(b, d) + 1 /\ d # 127 /\ ~AtEnd(b, d)
      BY <1>1, <1>9
    <3>2. g[d] = {d} \cup g[next[d]]
      BY <1>14, <3>1, ZenonT(60) DEF AtEnd
    <3>. QED
      BY <1>6, <2>3, <3>1, <3>2, Zenon
  <2>. HIDE DEF D, R, stop, Eq
  <2>. QED
    BY <1>8, <2>1, <2>2, <2>3 DEF Solves
<1>15. f = CHOOSE g : Eq(g)
  BY <1>13, <1>14, Zenon
<1>16. Walk(b) = f
  BY <1>15 DEF Walk
<1>. QED
  BY ONLY <1>10, <1>11, <1>12, <1>16, Zenon

\* The walk comes to offsets at which it does not end.
LEMMA WalkOffsets ==
    ASSUME NEW b \in ByteBlocks
    PROVE  \A off \in 4..127 : \A o \in Walk(b)[off] : o \in off..126 /\ ~AtEnd(b, o)
<1>. DEFINE T == {k \in Nat : \A off \in 4..127 :
                     127 - off < k => \A o \in Walk(b)[off] : o \in off..126 /\ ~AtEnd(b, o)}
<1>1. 0 \in T
  OBVIOUS
<1>2. ASSUME NEW k \in T PROVE k + 1 \in T
  <2>1. ASSUME NEW off \in 4..127, 127 - off < k + 1, NEW o \in Walk(b)[off]
        PROVE  o \in off..126 /\ ~AtEnd(b, o)
    <3>1. ~AtEnd(b, off)
      BY ONLY <2>1, WalkStep, Zenon
    <3>. DEFINE n == off + BlockLen(b, off) + 1
    <3>2. n \in off + 2..127 /\ Walk(b)[off] = {off} \cup Walk(b)[n]
      BY <3>1, WalkStep
    <3>3. off \in 4..126
      <4>. HIDE DEF n
      <4>. QED
        BY <3>2
    <3>4. CASE o = off
      BY <3>1, <3>3, <3>4
    <3>5. CASE o \in Walk(b)[n]
      <4>. HIDE DEF n
      <4>1. n \in 4..127 /\ 127 - n < k
        BY <2>1, <3>2
      <4>2. o \in n..126 /\ ~AtEnd(b, o)
        BY <3>5, <4>1
      <4>. QED
        BY <3>2, <4>2
    <3>. QED
      BY ONLY <2>1, <3>2, <3>4, <3>5
  <2>. QED
    BY <2>1
<1>3. 124 \in T
  <2>. HIDE DEF T
  <2>1. T \in SUBSET Nat
    BY DEF T
  <2>. QED
    BY <1>1, <1>2, <2>1, SetInduction
<1>. SUFFICES ASSUME NEW off \in 4..127, NEW o \in Walk(b)[off]
              PROVE  o \in off..126 /\ ~AtEnd(b, o)
  BY Zenon
<1>4. 127 - off < 124
  OBVIOUS
<1>. QED
  BY ONLY <1>3, <1>4, off \in 4..127, o \in Walk(b)[off]

\* The data blocks of the walk from off.
DataFrom(b, off) == {Whole(b, o) : o \in Walk(b)[off]}

\* One step of it.
LEMMA DataStep ==
    ASSUME NEW b \in ByteBlocks, NEW off \in 4..127
    PROVE  /\ AtEnd(b, off) => DataFrom(b, off) = {}
           /\ ~AtEnd(b, off) =>
                 /\ off \in 4..126 /\ BlockLen(b, off) \in 1..31
                 /\ off < DataEnd(b) /\ off + BlockLen(b, off) + 1 \in off + 2..127
                 /\ DataFrom(b, off) = {Whole(b, off)} \cup
                                       DataFrom(b, off + BlockLen(b, off) + 1)
<1>1. CASE AtEnd(b, off)
  BY ONLY <1>1, WalkStep, Zenon DEF DataFrom
<1>2. CASE ~AtEnd(b, off)
  <2>. DEFINE n == off + BlockLen(b, off) + 1
  <2>1. n \in off + 2..127 /\ Walk(b)[off] = {off} \cup Walk(b)[n]
    BY <1>2, WalkStep
  <2>2. DataFrom(b, off) = {Whole(b, off)} \cup DataFrom(b, n)
    <3>. HIDE DEF n
    <3>. QED
      BY <2>1 DEF DataFrom
  <2>3. off \in 4..126 /\ off < DataEnd(b) /\ ~Stops(b, off)
    <3>1. DataEnd(b) \in 4..127
      BY Offsets
    <3>. QED
      BY <1>2, <3>1 DEF AtEnd
  <2>4. BlockLen(b, off) \in 1..31
    <3>1. off \in 0..126
      BY <2>3
    <3>. QED
      BY ONLY <2>3, <3>1, b \in ByteBlocks, Offsets
  <2>. QED
    BY <1>2, <2>1, <2>2, <2>3, <2>4
<1>. QED
  BY ONLY <1>1, <1>2

\* What the walk comes to is a data block.
LEMMA WholeBlock ==
    ASSUME NEW b \in ByteBlocks, NEW off \in 4..126, ~Stops(b, off)
    PROVE  /\ Whole(b, off) \in DataBlock
           /\ Len(Whole(b, off)) = BlockLen(b, off) + 1
           /\ Whole(b, off)[1] = b[off]
           /\ \A i \in 1..BlockLen(b, off) + 1 : Whole(b, off)[i] = b[off + i - 1]
<1>. DEFINE d == Whole(b, off)
            n == BlockLen(b, off) + 1
<1>1. n \in 2..32 /\ off + n \in off + 2..127 /\ BlockLen(b, off) = n - 1
  <2>1. off \in 0..126
    OBVIOUS
  <2>2. BlockLen(b, off) \in 1..31 /\ off + BlockLen(b, off) + 1 \in off + 2..127
    BY ONLY <2>1, ~Stops(b, off), b \in ByteBlocks, Offsets, Zenon
  <2>. QED
    BY <2>2
<1>2. d = [i \in 1..n |-> b[off + i - 1]]
  BY DEF Whole
<1>3. n - 1 = b[off] % 32
  BY ONLY <1>1 DEF BlockLen
<1>. HIDE DEF d, n
<1>4. \A i \in 1..n : off + i - 1 \in 0..127
  BY <1>1
<1>5. \A i \in 1..n : b[off + i - 1] \in 0..255
  BY <1>4, Bytewise, Zenon
<1>6. d \in Seq(0..255) /\ Len(d) = n
  BY <1>1, <1>2, <1>5
<1>7. d[1] = b[off] /\ \A i \in 1..n : d[i] = b[off + i - 1]
  BY <1>1, <1>2
<1>8. d \in DataBlock
  BY <1>1, <1>3, <1>6, <1>7 DEF DataBlock
<1>. QED
  BY <1>6, <1>7, <1>8 DEF d, n

\* What a walk comes to.
LEMMA DataFromBlocks ==
    ASSUME NEW b \in ByteBlocks, NEW off \in 4..127
    PROVE  DataFrom(b, off) \subseteq DataBlock
<1>1. ASSUME NEW o \in Walk(b)[off] PROVE Whole(b, o) \in DataBlock
  <2>1. o \in 4..126 /\ ~Stops(b, o)
    <3>1. o \in off..126 /\ ~AtEnd(b, o)
      BY WalkOffsets
    <3>. QED
      BY <3>1 DEF AtEnd
  <2>. QED
    BY <2>1, WholeBlock
<1>. QED
  BY <1>1 DEF DataFrom

(***************************************************************************)
(* Two walks in step: S are offsets of the walk in b, the one in c is by   *)
(* shift behind or before.                                                 *)
(***************************************************************************)
InStep(b, c, S, shift) ==
    /\ S \subseteq 4..127 /\ \A p \in S : p + shift \in 4..127
    /\ \A p \in S :
          \/ AtEnd(b, p) /\ AtEnd(c, p + shift)
          \/ /\ ~AtEnd(b, p) /\ ~AtEnd(c, p + shift)
             /\ Whole(c, p + shift) = Whole(b, p)
             /\ p + BlockLen(b, p) + 1 \in S

\* They come to the same data blocks.
LEMMA WalksInStep ==
    ASSUME NEW b \in ByteBlocks, NEW c \in ByteBlocks, NEW S, NEW shift \in Int,
           InStep(b, c, S, shift)
    PROVE  \A p \in S : DataFrom(c, p + shift) = DataFrom(b, p)
<1>. DEFINE T == {k \in Nat : \A p \in S : 127 - p < k =>
                     DataFrom(c, p + shift) = DataFrom(b, p)}
<1>0. S \subseteq 4..127 /\ \A p \in S : p + shift \in 4..127
  BY DEF InStep
<1>1. 0 \in T
  BY <1>0
<1>2. ASSUME NEW k \in T PROVE k + 1 \in T
  <2>1. ASSUME NEW p \in S, 127 - p < k + 1 PROVE DataFrom(c, p + shift) = DataFrom(b, p)
    <3>1. CASE AtEnd(b, p) /\ AtEnd(c, p + shift)
      BY ONLY <1>0, <3>1, DataStep, ZenonT(60)
    <3>2. CASE /\ ~AtEnd(b, p) /\ ~AtEnd(c, p + shift)
               /\ Whole(c, p + shift) = Whole(b, p)
               /\ p + BlockLen(b, p) + 1 \in S
      <4>. DEFINE n == BlockLen(b, p) + 1
      <4>0. p \in 4..127 /\ p + shift \in 4..127
        BY <1>0
      <4>1. /\ p \in 4..126 /\ BlockLen(b, p) \in 1..31
            /\ DataFrom(b, p) = {Whole(b, p)} \cup DataFrom(b, p + BlockLen(b, p) + 1)
        BY ONLY <3>2, <4>0, DataStep
      <4>2. /\ p + shift \in 4..126 /\ BlockLen(c, p + shift) \in 1..31
            /\ DataFrom(c, p + shift) = {Whole(c, p + shift)} \cup
                  DataFrom(c, p + shift + BlockLen(c, p + shift) + 1)
        BY <3>2, <4>0, DataStep
      <4>3. BlockLen(c, p + shift) = BlockLen(b, p)
        <5>1. ~Stops(b, p) /\ ~Stops(c, p + shift)
          BY <3>2 DEF AtEnd
        <5>2. Len(Whole(b, p)) = BlockLen(b, p) + 1
          BY <4>1, <5>1, WholeBlock
        <5>3. Len(Whole(c, p + shift)) = BlockLen(c, p + shift) + 1
          BY <4>2, <5>1, WholeBlock
        <5>4. Len(Whole(c, p + shift)) = Len(Whole(b, p))
          BY <3>2
        <5>5. BlockLen(b, p) \in Int /\ BlockLen(c, p + shift) \in Int
          BY <4>1, <4>2
        <5>. QED
          BY ONLY <5>2, <5>3, <5>4, <5>5
      <4>4. /\ p + shift + BlockLen(c, p + shift) + 1 = (p + n) + shift
            /\ p + BlockLen(b, p) + 1 = p + n /\ n \in 2..32
        BY <4>1, <4>3
      <4>. HIDE DEF n
      <4>5. p + n \in S /\ 127 - (p + n) < k
        BY <2>1, <3>2, <4>1, <4>4
      <4>6. DataFrom(c, (p + n) + shift) = DataFrom(b, p + n)
        BY <4>5
      <4>. QED
        BY <3>2, <4>1, <4>2, <4>4, <4>6
    <3>. QED
      BY <3>1, <3>2 DEF InStep
  <2>. QED
    BY <2>1
<1>3. 124 \in T
  <2>. HIDE DEF T
  <2>1. T \in SUBSET Nat
    BY DEF T
  <2>. QED
    BY <1>1, <1>2, <2>1, SetInduction
<1>. QED
  BY <1>0, <1>3

(***************************************************************************)
(* Extensions that are laid out well.                                      *)
(***************************************************************************)

\* S are offsets between the data blocks of b, with the first and the last.
Laid(b, S) ==
    /\ S \subseteq 4..127 /\ 4 \in S
    /\ b[2] \in {0} \cup 4..127
    /\ \A p \in S :
          \/ p = DataEnd(b)
          \/ p < DataEnd(b) /\ b[2] = 0 /\ BlockLen(b, p) = 0
          \/ /\ ~AtEnd(b, p) /\ p < DataEnd(b)
             /\ p + BlockLen(b, p) + 1 \in S

\* The walk over a well laid extension finds them.
LEMMA WellLaidStations ==
    ASSUME NEW b \in ByteBlocks, WellLaid(b)
    PROVE  \E S : Laid(b, S)
<1>. DEFINE S == {4} \cup {o + BlockLen(b, o) + 1 : o \in Chain(b)}
<1>1. ASSUME NEW o \in Chain(b)
      PROVE  /\ o \in 4..126 /\ ~AtEnd(b, o) /\ o < DataEnd(b)
             /\ o + BlockLen(b, o) + 1 \in 4..127
  <2>1. o \in 4..126 /\ ~AtEnd(b, o)
    BY ONLY WalkOffsets DEF Chain
  <2>2. o \in 4..127 /\ o < DataEnd(b) /\ o + BlockLen(b, o) + 1 \in o + 2..127
    <3>1. o \in 4..127
      BY <2>1
    <3>. QED
      BY ONLY <2>1, <3>1, DataStep
  <2>. QED
    BY <2>1, <2>2
<1>2. S \subseteq 4..127 /\ 4 \in S
  BY <1>1
<1>3. ASSUME NEW p \in S
      PROVE  \/ p = DataEnd(b)
             \/ p < DataEnd(b) /\ b[2] = 0 /\ BlockLen(b, p) = 0
             \/ ~AtEnd(b, p) /\ p < DataEnd(b) /\ p + BlockLen(b, p) + 1 \in S
  <2>1. CASE p = DataEnd(b)
    BY <2>1
  <2>2. CASE p \in Chain(b)
    BY <1>1, <2>2
  <2>3. CASE b[2] = 0 /\ BlockLen(b, p) = 0
    <3>1. p \in 4..127 /\ DataEnd(b) = 127
      BY <1>2, <2>3 DEF DataEnd
    <3>. QED
      BY <2>3, <3>1
  <2>. QED
    BY <2>1, <2>2, <2>3 DEF WellLaid
<1>4. b[2] \in {0} \cup 4..127
  BY DEF WellLaid
<1>. HIDE DEF S
<1>5. Laid(b, S)
  BY <1>2, <1>3, <1>4 DEF Laid
<1>. QED
  BY <1>5

\* None of them is behind the data blocks.
LEMMA StationsBefore ==
    ASSUME NEW b \in ByteBlocks, NEW S, Laid(b, S)
    PROVE  DataEnd(b) \in 4..127 /\ \A p \in S : p \in 4..127 /\ p <= DataEnd(b)
<1>1. DataEnd(b) \in 4..127
  BY Offsets
<1>. QED
  BY <1>1 DEF Laid

\* A data block of a well laid extension ends where its timings begin.
LEMMA LaidEnds ==
    ASSUME NEW b \in ByteBlocks, NEW S, Laid(b, S), b[2] >= 4
    PROVE  b[2] = 4 \/ \E o \in Chain(b) : o + BlockLen(b, o) + 1 = b[2]
<1>. DEFINE T == {k \in Nat : \A p \in S : 127 - p < k /\ p < b[2] =>
                     \E o \in Walk(b)[p] : o + BlockLen(b, o) + 1 = b[2]}
<1>1. b[2] \in 4..127 /\ DataEnd(b) = b[2]
  BY DEF Laid, DataEnd
<1>2. \A p \in S : p \in 4..127 /\ p <= b[2]
  BY <1>1, StationsBefore
<1>3. 0 \in T
  BY <1>2
<1>4. ASSUME NEW k \in T PROVE k + 1 \in T
  <2>1. ASSUME NEW p \in S, 127 - p < k + 1, p < b[2]
        PROVE  \E o \in Walk(b)[p] : o + BlockLen(b, o) + 1 = b[2]
    <3>1. ~AtEnd(b, p) /\ p + BlockLen(b, p) + 1 \in S
      BY <1>1, <1>2, <2>1, SMTT(30) DEF Laid
    <3>. DEFINE n == p + BlockLen(b, p) + 1
    <3>2. n \in p + 2..127 /\ Walk(b)[p] = {p} \cup Walk(b)[n]
      BY ONLY <1>2, <3>1, WalkStep
    <3>3. CASE n = b[2]
      BY <3>2, <3>3
    <3>4. CASE n # b[2]
      <4>1. n \in S /\ n < b[2] /\ 127 - n < k
        <5>1. n \in S
          BY <3>1
        <5>. HIDE DEF n
        <5>. QED
          BY <1>1, <1>2, <2>1, <3>2, <3>4, <5>1
      <4>. HIDE DEF n
      <4>. QED
        BY <3>2, <4>1
    <3>. QED
      BY <3>3, <3>4
  <2>. QED
    BY <2>1
<1>5. 124 \in T
  <2>. HIDE DEF T
  <2>1. T \in SUBSET Nat
    BY DEF T
  <2>. QED
    BY <1>3, <1>4, <2>1, SetInduction
<1>6. CASE 4 < b[2]
  <2>1. 4 \in S
    BY DEF Laid
  <2>. QED
    BY <1>5, <1>6, <2>1 DEF Chain
<1>. QED
  BY <1>1, <1>6

\* A change behind the data blocks leaves them as they are.
LEMMA LaidSame ==
    ASSUME NEW b \in ByteBlocks, NEW c \in ByteBlocks, NEW S, Laid(b, S),
           \A i \in 0..DataEnd(b) - 1 : c[i] = b[i]
    PROVE  Laid(c, S) /\ DataEnd(c) = DataEnd(b) /\ DataBlocks(c) = DataBlocks(b)
<1>1. DataEnd(b) \in 4..127 /\ \A p \in S : p \in 4..127 /\ p <= DataEnd(b)
  BY StationsBefore
<1>2. c[2] = b[2]
  BY <1>1
<1>3. DataEnd(c) = DataEnd(b)
  BY <1>2 DEF DataEnd
<1>4. \A p \in 4..DataEnd(b) - 1 : /\ BlockLen(c, p) = BlockLen(b, p)
                                   /\ Stops(c, p) <=> Stops(b, p)
                                   /\ AtEnd(c, p) <=> AtEnd(b, p)
  <2>1. ASSUME NEW p \in 4..DataEnd(b) - 1 PROVE BlockLen(c, p) = BlockLen(b, p)
    <3>1. c[p] = b[p]
      BY <1>1
    <3>. QED
      BY <3>1 DEF BlockLen
  <2>. QED
    BY <1>3, <2>1 DEF Stops, AtEnd
<1>5. ASSUME NEW p \in S
      PROVE  \/ p = DataEnd(c)
             \/ p < DataEnd(c) /\ c[2] = 0 /\ BlockLen(c, p) = 0
             \/ ~AtEnd(c, p) /\ p < DataEnd(c) /\ p + BlockLen(c, p) + 1 \in S
  <2>1. CASE p = DataEnd(b)
    BY <1>3, <2>1
  <2>2. CASE p # DataEnd(b)
    <3>1. p \in 4..DataEnd(b) - 1
      BY ONLY <1>1, <2>2
    <3>. QED
      BY <1>2, <1>3, <1>4, <2>2, <3>1 DEF Laid
  <2>. QED
    BY <2>1, <2>2
<1>6. Laid(c, S)
  BY <1>2, <1>5 DEF Laid
<1>7. ASSUME NEW p \in S
      PROVE  \/ AtEnd(b, p) /\ AtEnd(c, p)
             \/ /\ ~AtEnd(b, p) /\ ~AtEnd(c, p) /\ Whole(c, p) = Whole(b, p)
                /\ p + BlockLen(b, p) + 1 \in S
  <2>1. CASE p = DataEnd(b)
    BY <1>1, <1>3, <2>1 DEF AtEnd
  <2>2. CASE p # DataEnd(b)
    <3>1. p \in 4..DataEnd(b) - 1 /\ p \in 4..126
      BY ONLY <1>1, <2>2
    <3>2. CASE AtEnd(b, p)
      BY <1>4, <3>1, <3>2
    <3>3. CASE ~AtEnd(b, p)
      <4>. DEFINE n == BlockLen(b, p) + 1
      <4>1. p + n \in S /\ p + BlockLen(b, p) + 1 \in S /\ n \in 2..32
        <5>1. BlockLen(b, p) \in 1..31
          BY <3>1, <3>3, DataStep
        <5>2. BlockLen(b, p) # 0
          BY <5>1
        <5>3. p + BlockLen(b, p) + 1 \in S
          BY <2>2, <3>3, <5>2 DEF Laid
        <5>. QED
          BY ONLY <3>1, <5>1, <5>3
      <4>2. Whole(b, p) = [i \in 1..n |-> b[p + i - 1]]
        BY DEF Whole
      <4>3. Whole(c, p) = [i \in 1..n |-> c[p + i - 1]]
        BY <1>4, <3>1 DEF Whole
      <4>. HIDE DEF n
      <4>4. \A i \in 1..n : p + i - 1 \in 0..DataEnd(b) - 1
        BY <1>1, <3>1, <4>1
      <4>5. Whole(c, p) = Whole(b, p)
        BY <4>2, <4>3, <4>4
      <4>. QED
        BY <1>4, <3>1, <3>3, <4>1, <4>5
    <3>. QED
      BY <3>2, <3>3
  <2>. QED
    BY <2>1, <2>2
<1>8. InStep(b, c, S, 0)
  <2>1. \A p \in S : p + 0 = p
    BY <1>1
  <2>. QED
    BY <1>1, <1>7, <2>1 DEF InStep
<1>9. DataFrom(c, 4) = DataFrom(b, 4)
  <2>1. 4 \in S /\ 4 + 0 = 4
    BY DEF Laid
  <2>2. DataFrom(c, 4 + 0) = DataFrom(b, 4)
    BY <1>8, <2>1, WalksInStep
  <2>. QED
    BY <2>1, <2>2
<1>. QED
  BY <1>3, <1>6, <1>9 DEF DataBlocks, DataFrom, Chain

(***************************************************************************)
(* The loop that edits the data blocks.                                    *)
(***************************************************************************)

\* It shortens a data block, removes it or leaves its length.
Editor(edit) ==
    /\ edit \in [DataBlock -> DataBlock \cup {<<>>}]
    /\ \A d \in DataBlock : Len(edit[d]) <= Len(d)

\* c is b with the n bytes of new in place of the data block at off.
Spliced(b, off, n, new, c) ==
    LET cut == BlockLen(b, off) + 1 - n
    IN  /\ c \in ByteBlocks /\ cut \in 0..32 /\ off + n \in off..127
        /\ c[2] = IF b[2] = 0 THEN 0 ELSE (b[2] - cut) % 256
        /\ \A i \in 0..127 : i # 2 /\ (i < off \/ i = 127) => c[i] = b[i]
        /\ \A i \in 1..n : c[off + i - 1] = new[i]
        /\ \A i \in off + n..126 : c[i] = IF i + cut < 127 THEN b[i + cut] ELSE 0

\* That is what a splice makes.
LEMMA SpliceBytes ==
    ASSUME NEW b \in ByteBlocks, NEW off \in 4..126, ~Stops(b, off),
           NEW n \in 0..32, NEW new, new \in [1..n -> 0..255], Len(new) = n,
           n <= BlockLen(b, off) + 1
    PROVE  Spliced(b, off, n, new, Splice(b, off, new))
<1>. DEFINE len == BlockLen(b, off)
            cut == len + 1 - n
            c == Splice(b, off, new)
            start == IF b[2] = 0 THEN 0 ELSE (b[2] - cut) % 256
            moved(i) == IF i + cut < 127 THEN b[i + cut] ELSE 0
<1>0. /\ \A i \in 0..127 : b[i] \in 0..255 /\ b[i] \in Nat
      /\ b[2] \in Nat
  <2>1. 2 \in 0..127
    OBVIOUS
  <2>. QED
    BY ONLY <2>1, Bytewise, Zenon
<1>1. len \in 1..31 /\ off + len + 1 \in off + 2..127 /\ n <= len + 1
  <2>1. off \in 0..126
    OBVIOUS
  <2>2. len \in 1..31 /\ off + len + 1 \in off + 2..127
    BY ONLY <2>1, ~Stops(b, off), b \in ByteBlocks, Offsets
  <2>. QED
    BY <2>2
<1>2. cut \in 0..32 /\ off + n \in off..127
  <2>. HIDE DEF len
  <2>. QED
    BY <1>1
<1>3. c = [i \in 0..127 |->
        CASE i = 2 -> start
          [] i \in off..off + n - 1 -> new[i - off + 1]
          [] i >= off + n /\ i < 127 -> moved(i)
          [] OTHER -> b[i]]
  BY Len(new) = n DEF Splice
<1>. HIDE DEF len, cut, c
<1>4. start \in 0..255 /\ \A i \in off + n..126 : moved(i) \in 0..255
  <2>1. start \in 0..255
    <3>1. b[2] - cut \in Int
      <4>1. \A x \in Nat, y \in 0..32 : x - y \in Int
        OBVIOUS
      <4>. QED
        BY ONLY <1>0, <1>2, <4>1
    <3>2. \A m \in Int : m % 256 \in 0..255
      OBVIOUS
    <3>3. (b[2] - cut) % 256 \in 0..255
      BY ONLY <3>1, <3>2
    <3>. QED
      BY ONLY <3>3
  <2>2. ASSUME NEW i \in off + n..126 PROVE moved(i) \in 0..255
    <3>1. i + cut < 127 => i + cut \in 0..127
      BY ONLY <1>2
    <3>2. i + cut < 127 => b[i + cut] \in 0..255
      BY ONLY <1>0, <3>1, Zenon
    <3>. QED
      BY <3>2
  <2>. QED
    BY ONLY <2>1, <2>2
<1>. HIDE DEF start, moved
<1>5. c[2] = start
  <2>1. 2 \in 0..127
    OBVIOUS
  <2>. QED
    BY ONLY <1>3, <2>1
<1>6. ASSUME NEW i \in 0..127, i # 2, i < off \/ i = 127 PROVE c[i] = b[i]
  <2>1. ~(i \in off..off + n - 1) /\ ~(i >= off + n /\ i < 127)
    BY <1>2, <1>6
  <2>. QED
    BY <1>3, <1>6, <2>1
<1>7. ASSUME NEW i \in off..off + n - 1 PROVE c[i] = new[i - off + 1]
  <2>1. i \in 0..127 /\ i # 2 /\ ~(i >= off + n /\ i < 127)
    BY <1>2
  <2>. QED
    BY <1>3, <1>7, <2>1
<1>8. ASSUME NEW i \in off + n..126 PROVE c[i] = moved(i)
  <2>1. i \in 0..127 /\ i # 2 /\ ~(i \in off..off + n - 1) /\ i >= off + n /\ i < 127
    BY <1>2
  <2>. QED
    BY <1>3, <2>1
<1>9. ASSUME NEW i \in 0..127 PROVE c[i] \in 0..255
  <2>1. CASE i = 2
    BY ONLY <1>4, <1>5, <2>1
  <2>2. CASE i # 2 /\ (i < off \/ i = 127)
    BY ONLY <1>0, <1>6, <2>2, Zenon
  <2>3. CASE i \in off..off + n - 1
    <3>1. i - off + 1 \in 1..n
      BY <1>2, <2>3
    <3>2. new[i - off + 1] \in 0..255
      BY <3>1
    <3>. QED
      BY <1>7, <2>3, <3>2
  <2>4. CASE i \in off + n..126
    BY ONLY <1>4, <1>8, <2>4, SMTT(30)
  <2>. QED
    BY <1>2, <2>1, <2>2, <2>3, <2>4
<1>10. c \in ByteBlocks
  <2>1. c = [i \in 0..127 |-> c[i]]
    BY <1>3
  <2>. QED
    BY <1>9, <2>1, Zenon DEF ByteBlocks
<1>11. ASSUME NEW i \in 1..n PROVE c[off + i - 1] = new[i]
  <2>1. off + i - 1 \in off..off + n - 1 /\ (off + i - 1) - off + 1 = i
    BY <1>2
  <2>. QED
    BY <1>7, <2>1
<1>. QED
  BY <1>2, <1>5, <1>6, <1>8, <1>10, <1>11, SMTT(30) DEF cut, len, c, start, moved, Spliced

\* So many bytes from off on are left, the ones behind are 0.
Within(b, off) == {k \in Nat : \A i \in 0..126 : i >= off + k => b[i] = 0}
Rest(b, off) == CHOOSE k \in Within(b, off) : \A j \in Within(b, off) : k <= j

\* There is such a number.
LEMMA RestExists ==
    ASSUME NEW b, NEW off \in 4..127
    PROVE  /\ Rest(b, off) \in Within(b, off) /\ Rest(b, off) \in 0..127
           /\ \A j \in Within(b, off) : Rest(b, off) <= j
<1>1. 127 \in Within(b, off) /\ Within(b, off) \in SUBSET Nat
  BY DEF Within
<1>2. \E k \in Within(b, off) : \A j \in Within(b, off) : k <= j
  BY <1>1, Smallest
<1>3. Rest(b, off) \in Within(b, off) /\ \A j \in Within(b, off) : Rest(b, off) <= j
  BY <1>2 DEF Rest
<1>. QED
  BY <1>1, <1>3

\* A state of the loop: the block, the offset and the end.
LoopStates == ByteBlocks \X (4..127) \X Int
LoopEnds(s) == s[2] >= s[3] \/ Stops(s[1], s[2])
LoopStep(s, edit) ==
    LET new == edit[Whole(s[1], s[2])]
        cut == BlockLen(s[1], s[2]) + 1 - Len(new)
    IN  <<Splice(s[1], s[2], new), s[2] + Len(new), IF s[1][2] # 0 THEN s[3] - cut ELSE s[3]>>

\* What a step gets from the data block at off, and the block c it makes.
StepBytes(b, off, new, n, c) ==
    /\ off \in 4..126 /\ BlockLen(b, off) \in 1..31
    /\ off + BlockLen(b, off) + 1 <= 127
    /\ Whole(b, off) \in DataBlock
    /\ new \in DataBlock \cup {<<>>} /\ n \in 0..32
    /\ new \in [1..n -> 0..255]
    /\ Spliced(b, off, n, new, c)

\* That is what a step of the loop does.
LEMMA LoopStepBytes ==
    ASSUME NEW b \in ByteBlocks, NEW off \in 4..127, ~Stops(b, off),
           NEW edit, Editor(edit)
    PROVE  StepBytes(b, off, edit[Whole(b, off)], Len(edit[Whole(b, off)]),
                     Splice(b, off, edit[Whole(b, off)]))
<1>0. PICK new, n, c : new = edit[Whole(b, off)] /\ n = Len(new) /\ c = Splice(b, off, new)
  OBVIOUS
<1>1. BlockLen(b, off) \in 0..31
  <2>1. off \in 0..127
    OBVIOUS
  <2>. QED
    BY ONLY <2>1, b \in ByteBlocks, Offsets, Zenon
<1>2. off \in 4..126
  BY ONLY <1>1, off \in 4..127, ~Stops(b, off) DEF Stops
<1>3. BlockLen(b, off) \in 1..31 /\ off + BlockLen(b, off) + 1 <= 127
  <2>1. off \in 0..126
    BY ONLY <1>2
  <2>2. off + BlockLen(b, off) + 1 \in off + 2..127
    BY ONLY <2>1, ~Stops(b, off), b \in ByteBlocks, Offsets
  <2>. QED
    BY <1>1, <2>2 DEF Stops
<1>4. Whole(b, off) \in DataBlock /\ Len(Whole(b, off)) = BlockLen(b, off) + 1
  BY <1>2, WholeBlock
<1>5. new \in DataBlock \cup {<<>>} /\ n <= BlockLen(b, off) + 1
  <2>1. edit[Whole(b, off)] \in DataBlock \cup {<<>>}
    BY <1>4 DEF Editor
  <2>2. Len(edit[Whole(b, off)]) <= Len(Whole(b, off))
    BY <1>4 DEF Editor
  <2>. QED
    BY <1>0, <1>4, <2>1, <2>2
<1>6. new \in Seq(0..255)
  <2>1. CASE new = <<>>
    BY <2>1
  <2>2. CASE new \in DataBlock
    BY <2>2 DEF DataBlock
  <2>. QED
    BY <1>5, <2>1, <2>2
<1>7. n \in Nat /\ new \in [1..n -> 0..255] /\ Len(new) = n
  <2>1. Len(new) \in Nat /\ new \in [1..Len(new) -> 0..255]
    BY ONLY <1>6, LenProperties, Zenon
  <2>. QED
    BY ONLY <1>0, <2>1
<1>8. n \in 0..32
  <2>1. n \in Nat /\ n <= BlockLen(b, off) + 1 /\ BlockLen(b, off) \in 1..31
    BY <1>3, <1>5, <1>7
  <2>. QED
    BY ONLY <2>1
<1>9. Spliced(b, off, n, new, c)
  <2>1. Spliced(b, off, n, new, Splice(b, off, new))
    BY ONLY <1>2, <1>5, <1>7, <1>8, ~Stops(b, off), b \in ByteBlocks, SpliceBytes, Zenon
  <2>. QED
    BY ONLY <1>0, <2>1, Zenon
<1>10. StepBytes(b, off, new, n, c)
  BY ONLY <1>2, <1>3, <1>4, <1>5, <1>7, <1>8, <1>9 DEF StepBytes
<1>. QED
  BY ONLY <1>0, <1>10, Zenon

\* Every step leaves fewer bytes.
LEMMA RestDrops ==
    ASSUME NEW b \in ByteBlocks, NEW off \in 4..127, ~Stops(b, off),
           NEW edit, Editor(edit)
    PROVE  LET new == edit[Whole(b, off)]
           IN  Rest(Splice(b, off, new), off + Len(new)) < Rest(b, off)
<1>. DEFINE new == edit[Whole(b, off)]
            n == Len(new)
            len == BlockLen(b, off)
            cut == len + 1 - n
            c == Splice(b, off, new)
            k == Rest(b, off)
<1>. HIDE DEF k
<1>0. off \in 4..126 /\ len \in 1..31 /\ n \in 0..32 /\ Spliced(b, off, n, new, c)
  <2>1. StepBytes(b, off, new, n, c)
    BY LoopStepBytes, Zenon
  <2>. HIDE DEF new, n, c
  <2>. QED
    BY ONLY <2>1 DEF StepBytes
<1>. HIDE DEF n, c, new
<1>1. /\ cut \in 0..32 /\ off + n \in off..127 /\ c \in ByteBlocks
      /\ \A i \in off + n..126 : c[i] = IF i + cut < 127 THEN b[i + cut] ELSE 0
  BY <1>0 DEF Spliced
<1>2. k \in Nat /\ \A i \in 0..126 : i >= off + k => b[i] = 0
  BY RestExists, Zenon DEF Within, k
<1>3. k # 0
  <2>1. b[off] # 0
    <3>1. b[off] % 32 # 0
      BY <1>0 DEF BlockLen
    <3>2. 0 % 32 = 0
      OBVIOUS
    <3>. QED
      BY <3>1, <3>2
  <2>2. off \in 0..126
    BY <1>0
  <2>3. ASSUME k = 0 PROVE FALSE
    BY ONLY <1>2, <2>1, <2>2, <2>3
  <2>. QED
    BY <2>3
<1>4. cut = len + 1 - n
  OBVIOUS
<1>. HIDE DEF cut, len
<1>5. ASSUME NEW i \in 0..126, i >= (off + n) + (k - 1) PROVE c[i] = 0
  <2>1. i \in off + n..126
    BY <1>1, <1>2, <1>3, <1>5
  <2>2. i + cut >= off + k
    BY <1>0, <1>1, <1>2, <1>3, <1>4, <1>5
  <2>3. CASE i + cut < 127
    <3>1. i + cut \in 0..126
      BY <1>1, <2>3
    <3>2. b[i + cut] = 0
      BY <1>2, <2>2, <3>1
    <3>. QED
      BY <1>1, <2>1, <2>3, <3>2
  <2>. QED
    BY <1>1, <2>1, <2>3
<1>6. k - 1 \in Within(c, off + n)
  BY <1>2, <1>3, <1>5 DEF Within
<1>7. off + n \in 4..127
  BY ONLY <1>1
<1>8. Rest(c, off + n) <= k - 1 /\ Rest(c, off + n) \in 0..127
  BY <1>6, <1>7, RestExists
<1>9. Rest(c, off + n) < k
  BY <1>2, <1>8
<1>. QED
  BY <1>9 DEF n, c, k, new

\* A step leads from a state of the loop to one.
LEMMA LoopStepTyped ==
    ASSUME NEW s \in LoopStates, ~LoopEnds(s), NEW edit, Editor(edit)
    PROVE  /\ LoopStep(s, edit) \in LoopStates
           /\ Rest(LoopStep(s, edit)[1], LoopStep(s, edit)[2]) < Rest(s[1], s[2])
<1>1. PICK b \in ByteBlocks, off \in 4..127, end \in Int : s = <<b, off, end>>
  BY DEF LoopStates
<1>2. ~Stops(b, off) /\ s[1] = b /\ s[2] = off /\ s[3] = end
  BY <1>1, SMTT(30) DEF LoopEnds
<1>. DEFINE new == edit[Whole(b, off)]
            n == Len(new)
            len == BlockLen(b, off)
            c == Splice(b, off, new)
            end2 == IF b[2] # 0 THEN end - (len + 1 - n) ELSE end
<1>3. /\ off \in 4..126 /\ len \in 1..31 /\ n \in 0..32
      /\ Spliced(b, off, n, new, c)
  <2>1. StepBytes(b, off, new, n, c)
    BY <1>2, LoopStepBytes, Zenon
  <2>. HIDE DEF new, n, c
  <2>. QED
    BY ONLY <2>1 DEF StepBytes
<1>4. LoopStep(s, edit) = <<c, off + n, end2>>
  BY <1>2 DEF LoopStep
<1>5. Rest(c, off + n) < Rest(b, off)
  BY <1>2, RestDrops
<1>. HIDE DEF new, n, len, c
<1>6. c \in ByteBlocks /\ off + n \in 4..127 /\ end2 \in Int
  BY <1>3 DEF Spliced
<1>. HIDE DEF end2
<1>. QED
  BY <1>2, <1>4, <1>5, <1>6 DEF LoopStates

(***************************************************************************)
(* What an invariant of the loop says of its end holds of what it returns. *)
(***************************************************************************)
LEMMA EditLoop ==
    ASSUME NEW block \in ByteBlocks, NEW edit, Editor(edit),
           NEW I \in SUBSET LoopStates, NEW Q \in SUBSET ByteBlocks,
           <<block, 4, DataEnd(block)>> \in I,
           \A s \in I : LoopEnds(s) => s[1] \in Q,
           \A s \in I : ~LoopEnds(s) => LoopStep(s, edit) \in I
    PROVE  EditBlocks(block, edit) \in Q
<1>. DEFINE D == LoopStates
            R == ByteBlocks
            stop == {s \in D : LoopEnds(s)}
            Eq(f) == f = [s \in ByteBlocks \X (4..127) \X Int |->
                            IF LoopEnds(s) THEN s[1] ELSE f[LoopStep(s, edit)]]
            rank == [s \in D |-> Rest(s[1], s[2])]
            base == [s \in D |-> s[1]]
            next == [s \in D |-> IF s \in stop THEN s ELSE LoopStep(s, edit)]
            step == [s \in D |-> [v \in R |-> v]]
<1>1. ASSUME NEW s \in D \ stop
      PROVE  next[s] = LoopStep(s, edit) /\ next[s] \in D /\ rank[next[s]] < rank[s]
  <2>1. ~LoopEnds(s)
    OBVIOUS
  <2>2. next[s] = LoopStep(s, edit)
    OBVIOUS
  <2>3. /\ LoopStep(s, edit) \in D
        /\ Rest(LoopStep(s, edit)[1], LoopStep(s, edit)[2]) < Rest(s[1], s[2])
    BY <2>1, LoopStepTyped
  <2>4. s \in D
    OBVIOUS
  <2>. HIDE DEF next, D
  <2>. QED
    BY <2>2, <2>3, <2>4
<1>2. stop \in SUBSET D /\ 127 \in Nat
  OBVIOUS
<1>3. rank \in [D -> 0..127]
  <2>1. ASSUME NEW s \in D PROVE Rest(s[1], s[2]) \in 0..127
    BY RestExists DEF LoopStates
  <2>. QED
    BY ONLY <2>1
<1>4. base \in [D -> R] /\ \A s \in D : base[s] = s[1]
  BY DEF LoopStates
<1>5. next \in [D -> D]
  <2>1. ASSUME NEW s \in D PROVE next[s] \in D
    BY <1>1
  <2>2. next = [s \in D |-> next[s]]
    OBVIOUS
  <2>. HIDE DEF next, D
  <2>. QED
    BY <2>1, <2>2
<1>6. step \in [D -> [R -> R]] /\ \A s \in D, v \in R : step[s][v] = v
  OBVIOUS
<1>. HIDE DEF rank, base, next, step
<1>7. PICK f : Solves(f, D, R, stop, base, next, step)
  <2>1. Terminates(D, R, 127, rank, stop, base, next, step)
    BY <1>1, <1>2, <1>3, <1>4, <1>5, <1>6 DEF Terminates
  <2>. HIDE DEF D, R, stop
  <2>. QED
    BY <2>1, Recursion
<1>8. \A s \in D : s \in stop <=> LoopEnds(s)
  OBVIOUS
<1>9. f \in [D -> R] /\ \A s \in D : LoopEnds(s) => f[s] = s[1]
  BY <1>4, <1>7, <1>8 DEF Solves
<1>10. \A s \in D : ~LoopEnds(s) =>
          LoopStep(s, edit) \in D /\ f[s] = f[LoopStep(s, edit)]
  <2>1. ASSUME NEW s \in D, ~LoopEnds(s)
        PROVE  LoopStep(s, edit) \in D /\ f[s] = f[LoopStep(s, edit)]
    <3>1. s \in D \ stop
      BY <1>8, <2>1
    <3>2. next[s] = LoopStep(s, edit) /\ next[s] \in D
      BY <1>1, <3>1
    <3>3. f[s] = step[s][f[next[s]]] /\ f[next[s]] \in R
      BY <1>7, <1>9, <3>1, <3>2 DEF Solves
    <3>. QED
      BY <1>6, <3>2, <3>3
  <2>. QED
    BY <2>1
<1>11. Eq(f)
  <2>1. \A s \in D : f[s] = IF LoopEnds(s) THEN s[1] ELSE f[LoopStep(s, edit)]
    BY <1>9, <1>10
  <2>2. f = [s \in D |-> f[s]]
    BY <1>9
  <2>3. f = [s \in D |-> IF LoopEnds(s) THEN s[1] ELSE f[LoopStep(s, edit)]]
    <3>. HIDE DEF D
    <3>. QED
      BY ONLY <2>1, <2>2
  <2>. QED
    BY <2>3 DEF LoopStates
<1>12. ASSUME NEW g, Eq(g) PROVE g = f
  <2>0. g = [s \in D |-> IF LoopEnds(s) THEN s[1] ELSE g[LoopStep(s, edit)]]
    BY <1>12 DEF LoopStates
  <2>1. /\ g = [d \in D |-> g[d]]
        /\ \A d \in D : g[d] = IF LoopEnds(d) THEN d[1] ELSE g[LoopStep(d, edit)]
    <3>. HIDE DEF D
    <3>. QED
      BY ONLY <2>0
  <2>2. \A d \in stop : g[d] = base[d]
    BY <1>4, <1>8, <2>1
  <2>3. ASSUME NEW d \in D \ stop, g[next[d]] \in R PROVE g[d] = step[d][g[next[d]]]
    <3>1. next[d] = LoopStep(d, edit) /\ g[d] = g[LoopStep(d, edit)]
      BY <1>1, <1>8, <2>1
    <3>. QED
      BY <1>6, <2>3, <3>1
  <2>. HIDE DEF D, R, stop, Eq
  <2>. QED
    BY <1>7, <2>1, <2>2, <2>3 DEF Solves
<1>13. f = CHOOSE g : Eq(g)
  BY <1>11, <1>12
<1>14. EditBlocks(block, edit) = f[<<block, 4, DataEnd(block)>>]
  <2>1. (CHOOSE g : Eq(g))[<<block, 4, DataEnd(block)>>] = EditBlocks(block, edit)
    BY DEF EditBlocks, LoopEnds, LoopStep
  <2>. QED
    BY <1>13, <2>1
<1>. DEFINE T == {k \in Nat : \A s \in I : rank[s] < k => f[s] \in Q}
<1>15. \A s \in I : rank[s] \in 0..127 /\ s \in D
  BY <1>3
<1>16. 0 \in T
  BY <1>15
<1>17. ASSUME NEW k \in T PROVE k + 1 \in T
  <2>1. ASSUME NEW s \in I, rank[s] < k + 1 PROVE f[s] \in Q
    <3>1. CASE LoopEnds(s)
      BY <1>9, <1>15, <3>1
    <3>2. CASE ~LoopEnds(s)
      <4>1. LoopStep(s, edit) \in I /\ f[s] = f[LoopStep(s, edit)]
        BY <1>10, <1>15, <3>2
      <4>2. rank[LoopStep(s, edit)] < rank[s]
        BY <1>1, <1>8, <1>15, <3>2
      <4>3. rank[LoopStep(s, edit)] < k
        <5>1. rank[LoopStep(s, edit)] \in 0..127 /\ rank[s] \in 0..127
          BY <1>15, <4>1
        <5>. QED
          BY ONLY <2>1, <4>2, <5>1, k \in Nat
      <4>. QED
        BY <4>1, <4>3
    <3>. QED
      BY <3>1, <3>2
  <2>. QED
    BY <2>1
<1>18. 128 \in T
  <2>. HIDE DEF T
  <2>1. T \in SUBSET Nat
    BY DEF T
  <2>. QED
    BY <1>16, <1>17, <2>1, SetInduction
<1>. QED
  BY <1>14, <1>15, <1>18

(***************************************************************************)
(* What the loop makes of an extension that is laid out well.              *)
(***************************************************************************)

\* The loop has come to off and has taken out shift bytes: what is left of b is
\* the rest of block from the station off + shift on.
Tracks(block, S, b, off, shift) ==
    /\ off \in 4..127 /\ shift \in Nat /\ off + shift \in S
    /\ b[2] = IF block[2] = 0 THEN 0 ELSE block[2] - shift
    /\ \A i \in off..126 : b[i] = IF i + shift < 127 THEN block[i + shift] ELSE 0

\* The timings of b are where its byte 2 says.
LEMMA TracksEnd ==
    ASSUME NEW block \in ByteBlocks, NEW S, Laid(block, S),
           NEW b, NEW off, NEW shift, Tracks(block, S, b, off, shift)
    PROVE  /\ off + shift \in 4..127 /\ off + shift <= DataEnd(block)
           /\ off <= DataEnd(b) /\ DataEnd(b) \in 4..127
           /\ block[2] = 0 => b[2] = 0 /\ DataEnd(b) = 127 /\ DataEnd(block) = 127
           /\ block[2] # 0 => /\ block[2] \in 4..127 /\ DataEnd(block) = block[2]
                              /\ b[2] = block[2] - shift /\ b[2] \in 4..127
                              /\ DataEnd(b) = b[2]
<1>1. off + shift \in 4..127 /\ off + shift <= DataEnd(block) /\ off \in 4..127 /\ shift \in Nat
  BY StationsBefore DEF Tracks
<1>2. CASE block[2] = 0
  <2>1. b[2] = 0
    BY <1>2 DEF Tracks
  <2>2. DataEnd(b) = 127 /\ DataEnd(block) = 127
    BY <1>2, <2>1 DEF DataEnd
  <2>. QED
    BY <1>1, <1>2, <2>1, <2>2
<1>3. CASE block[2] # 0
  <2>1. block[2] \in 4..127
    BY <1>3 DEF Laid
  <2>2. DataEnd(block) = block[2]
    BY <2>1 DEF DataEnd
  <2>3. b[2] = block[2] - shift
    BY <1>3 DEF Tracks
  <2>4. b[2] \in 4..127 /\ off <= b[2]
    <3>1. off + shift <= block[2]
      BY <1>1, <2>2
    <3>2. off \in Nat /\ off >= 4 /\ shift \in Nat
      BY <1>1
    <3>. QED
      BY ONLY <2>1, <2>3, <3>1, <3>2, SMTT(30)
  <2>5. DataEnd(b) = b[2]
    BY <2>4 DEF DataEnd
  <2>. QED
    BY <1>1, <1>3, <2>1, <2>2, <2>3, <2>4, <2>5
<1>. QED
  BY <1>2, <1>3

\* Both walks are at their end, or at the same data block.
LEMMA TracksBlock ==
    ASSUME NEW block \in ByteBlocks, NEW S, Laid(block, S),
           NEW b \in ByteBlocks, NEW off, NEW shift, Tracks(block, S, b, off, shift)
    PROVE  \/ /\ AtEnd(b, off) /\ AtEnd(block, off + shift)
              /\ off = DataEnd(b) \/ (off < DataEnd(b) /\ b[2] = 0 /\ BlockLen(b, off) = 0)
           \/ /\ ~AtEnd(b, off) /\ ~AtEnd(block, off + shift)
              /\ BlockLen(block, off + shift) = BlockLen(b, off)
              /\ Whole(block, off + shift) = Whole(b, off)
              /\ off + shift + BlockLen(b, off) + 1 \in S
<1>0. /\ off + shift \in 4..127 /\ off + shift <= DataEnd(block)
      /\ off <= DataEnd(b) /\ DataEnd(b) \in 4..127
      /\ block[2] = 0 => b[2] = 0 /\ DataEnd(b) = 127 /\ DataEnd(block) = 127
      /\ block[2] # 0 => /\ block[2] \in 4..127 /\ DataEnd(block) = block[2]
                         /\ b[2] = block[2] - shift /\ b[2] \in 4..127
                         /\ DataEnd(b) = b[2]
  BY TracksEnd
<1>. DEFINE p == off + shift
<1>1. /\ p \in S /\ p \in 4..127 /\ p <= DataEnd(block) /\ off <= DataEnd(b)
      /\ off \in 4..127 /\ shift \in Nat /\ DataEnd(b) \in 4..127
      /\ block[2] = 0 => b[2] = 0 /\ DataEnd(b) = 127 /\ DataEnd(block) = 127
      /\ block[2] # 0 => b[2] = block[2] - shift /\ DataEnd(b) = b[2]
                         /\ DataEnd(block) = block[2] /\ block[2] \in 4..127
  BY <1>0 DEF Tracks
<1>2. p = off + shift
  OBVIOUS
<1>. HIDE DEF p
<1>3. \A i \in off..126 : b[i] = IF i + shift < 127 THEN block[i + shift] ELSE 0
  BY DEF Tracks
<1>4. p \in 4..126 => /\ off \in 4..126 /\ b[off] = block[p]
                      /\ BlockLen(b, off) = BlockLen(block, p)
  <2>1. ASSUME p \in 4..126 PROVE off \in 4..126 /\ b[off] = block[p]
    BY <1>1, <1>2, <1>3, <2>1
  <2>. QED
    BY <2>1 DEF BlockLen
<1>5. CASE p = DataEnd(block)
  <2>1. AtEnd(block, p)
    BY <1>1, <1>5 DEF AtEnd
  <2>2. CASE off = DataEnd(b)
    <3>1. AtEnd(b, off)
      BY <1>1, <2>2 DEF AtEnd
    <3>2. AtEnd(block, off + shift)
      BY <1>2, <2>1
    <3>. QED
      BY ONLY <2>2, <3>1, <3>2
  <2>3. CASE off # DataEnd(b)
    <3>1. block[2] = 0
      BY <1>1, <1>2, <1>5, <2>3
    <3>2. off \in off..126 /\ ~(off + shift < 127) /\ off < DataEnd(b)
      BY <1>1, <1>2, <1>5, <2>3, <3>1
    <3>3. b[off] = 0
      BY <1>3, <3>2
    <3>4. BlockLen(b, off) = 0
      BY <3>3 DEF BlockLen
    <3>5. AtEnd(b, off)
      BY <3>4 DEF AtEnd, Stops
    <3>. QED
      BY <1>1, <1>2, <2>1, <3>1, <3>2, <3>4, <3>5
  <2>. QED
    BY <2>2, <2>3
<1>6. CASE p < DataEnd(block) /\ block[2] = 0 /\ BlockLen(block, p) = 0
  <2>1. p \in 4..126
    BY <1>1, <1>6
  <2>2. BlockLen(b, off) = 0 /\ b[2] = 0 /\ off < DataEnd(b)
    BY <1>1, <1>4, <1>6, <2>1
  <2>3. AtEnd(b, off) /\ AtEnd(block, p)
    BY <1>6, <2>2 DEF AtEnd, Stops
  <2>. QED
    BY <1>2, <2>2, <2>3
<1>7. CASE ~AtEnd(block, p) /\ p < DataEnd(block) /\ p + BlockLen(block, p) + 1 \in S
  <2>. DEFINE len == BlockLen(block, p)
  <2>1. p \in 4..126 /\ len \in 1..31 /\ p + len + 1 \in p + 2..127
    <3>1. p \in 4..127 /\ ~AtEnd(block, p)
      BY <1>1, <1>7
    <3>. QED
      BY ONLY <3>1, block \in ByteBlocks, DataStep, ZenonT(60)
  <2>2. BlockLen(b, off) = len /\ off \in 4..126
    BY <1>4, <2>1
  <2>3. Whole(block, p) = [i \in 1..len + 1 |-> block[p + i - 1]]
    BY DEF Whole
  <2>4. Whole(b, off) = [i \in 1..len + 1 |-> b[off + i - 1]]
    BY <2>2 DEF Whole
  <2>5. p + len + 1 \in S
    BY <1>7
  <2>. HIDE DEF len
  <2>6. ASSUME NEW i \in 1..len + 1 PROVE b[off + i - 1] = block[p + i - 1]
    <3>1. /\ off + i - 1 \in off..126 /\ (off + i - 1) + shift = p + i - 1
          /\ (off + i - 1) + shift < 127
      BY <1>1, <1>2, <2>1
    <3>2. b[off + i - 1] = block[(off + i - 1) + shift]
      BY <1>3, <3>1
    <3>. QED
      BY <3>1, <3>2
  <2>7. Whole(block, p) = Whole(b, off)
    BY <2>3, <2>4, <2>6
  <2>8. ~AtEnd(b, off)
    <3>1. off < DataEnd(b)
      BY ONLY <1>1, <1>2, <1>7
    <3>2. ~(off + BlockLen(b, off) >= 127) /\ BlockLen(b, off) # 0
      BY <1>1, <1>2, <2>1, <2>2
    <3>. QED
      BY <1>1, <3>1, <3>2 DEF AtEnd, Stops
  <2>. QED
    BY ONLY <1>2, <1>7, <2>2, <2>5, <2>7, <2>8 DEF len
<1>. QED
  BY <1>1, <1>5, <1>6, <1>7 DEF Laid

\* The data blocks after the edit.
Image(data, edit) == {edit[d] : d \in data} \ {<<>>}

\* What is before off in b are the data blocks done, whatever comes from off on.
Done(b, off, done) ==
    \A c \in ByteBlocks : (\A i \in 4..off - 1 : c[i] = b[i]) /\ off <= DataEnd(c) =>
        DataFrom(c, 4) = done \cup DataFrom(c, off)

\* G are the offsets between them.
Passed(b, off, G) ==
    /\ G \subseteq 4..off /\ 4 \in G /\ off \in G
    /\ \A q \in G : q # off => BlockLen(b, q) # 0 /\ q + BlockLen(b, q) + 1 \in G

\* A step keeps the track.
LEMMA TracksStep ==
    ASSUME NEW block \in ByteBlocks, NEW S, Laid(block, S),
           NEW b \in ByteBlocks, NEW off, NEW shift, Tracks(block, S, b, off, shift),
           ~AtEnd(b, off), NEW n \in 0..32, NEW new, NEW c, Spliced(b, off, n, new, c),
           NEW cut, cut = BlockLen(b, off) + 1 - n
    PROVE  /\ Tracks(block, S, c, off + n, shift + cut)
           /\ off + n + (shift + cut) = off + shift + BlockLen(b, off) + 1
           /\ DataEnd(c) = IF b[2] # 0 THEN DataEnd(b) - cut ELSE DataEnd(b)
<1>1. /\ ~AtEnd(block, off + shift)
      /\ off + shift + BlockLen(b, off) + 1 \in S
  BY TracksBlock
<1>2. /\ off + shift \in 4..127 /\ off + shift <= DataEnd(block)
      /\ off <= DataEnd(b) /\ DataEnd(b) \in 4..127
      /\ block[2] = 0 => b[2] = 0 /\ DataEnd(b) = 127 /\ DataEnd(block) = 127
      /\ block[2] # 0 => /\ block[2] \in 4..127 /\ DataEnd(block) = block[2]
                         /\ b[2] = block[2] - shift /\ b[2] \in 4..127
                         /\ DataEnd(b) = b[2]
  BY TracksEnd
<1>3. /\ off \in 4..127 /\ shift \in Nat
      /\ \A i \in off..126 : b[i] = IF i + shift < 127 THEN block[i + shift] ELSE 0
  BY DEF Tracks
<1>. DEFINE len == BlockLen(b, off)
            p == off + shift
<1>4. /\ cut \in 0..32 /\ off + n \in off..127 /\ c \in ByteBlocks
      /\ c[2] = IF b[2] = 0 THEN 0 ELSE (b[2] - cut) % 256
      /\ \A i \in off + n..126 : c[i] = IF i + cut < 127 THEN b[i + cut] ELSE 0
  BY DEF Spliced
<1>5. off \in 4..126 /\ len \in 1..31 /\ off + len + 1 \in off + 2..127
  BY <1>3, DataStep, ZenonT(60)
<1>6. p + len + 1 \in S /\ p + len + 1 \in 4..127 /\ p + len + 1 <= DataEnd(block)
  BY <1>1, StationsBefore
<1>7. cut = len + 1 - n /\ p = off + shift
  OBVIOUS
<1>8. off + n + (shift + cut) = off + shift + len + 1
  <2>1. n \in Int /\ cut \in Int
    BY <1>4
  <2>. HIDE DEF len, p
  <2>. QED
    BY ONLY <1>3, <1>5, <1>7, <2>1
<1>. HIDE DEF len, p
<1>9. shift + cut \in Nat /\ off + n \in 4..127
  BY <1>3, <1>4
<1>10. off + n + (shift + cut) = p + len + 1
  BY <1>7, <1>8
<1>11. c[2] = IF block[2] = 0 THEN 0 ELSE block[2] - (shift + cut)
  <2>1. CASE block[2] = 0
    BY <1>2, <1>4, <2>1
  <2>2. CASE block[2] # 0
    <3>1. block[2] \in 4..127 /\ b[2] = block[2] - shift /\ b[2] \in 4..127
          /\ p + len + 1 <= block[2]
      BY <1>2, <1>6, <2>2
    <3>2. b[2] - cut = block[2] - (shift + cut) /\ b[2] - cut \in 4..127
      <4>1. off + n + (shift + cut) <= block[2]
        BY <1>10, <3>1
      <4>. QED
        <5>1. off + n \in 4..127 /\ shift \in Nat /\ cut \in 0..32 /\ off \in Int
          BY <1>3, <1>4, <1>9
        <5>2. \A x, y, z, o \in Int :
                 o >= 4 /\ o + (y + z) <= x /\ x <= 127 /\ y >= 0 /\ z >= 0 =>
                    (x - y) - z = x - (y + z) /\ (x - y) - z \in 4..127
          OBVIOUS
        <5>3. /\ block[2] \in Int /\ block[2] <= 127 /\ shift \in Int /\ shift >= 0
              /\ cut \in Int /\ cut >= 0 /\ off + n \in Int /\ off + n >= 4
          BY ONLY <3>1, <5>1
        <5>4. /\ (block[2] - shift) - cut = block[2] - (shift + cut)
              /\ (block[2] - shift) - cut \in 4..127
          BY ONLY <4>1, <5>2, <5>3
        <5>. QED
          BY ONLY <3>1, <5>4
    <3>3. \A m \in 4..127 : m % 256 = m
      OBVIOUS
    <3>4. (b[2] - cut) % 256 = b[2] - cut
      BY ONLY <3>2, <3>3
    <3>5. c[2] = (b[2] - cut) % 256
      BY <1>4, <3>1
    <3>. QED
      BY ONLY <2>2, <3>2, <3>4, <3>5
  <2>. QED
    BY <2>1, <2>2
<1>12. ASSUME NEW i \in off + n..126
       PROVE  c[i] = IF i + (shift + cut) < 127 THEN block[i + (shift + cut)] ELSE 0
  <2>1. i + (shift + cut) = (i + cut) + shift /\ i + cut >= off /\ i \in Int
    <3>1. i \in Int /\ i >= off + n /\ n \in Nat
      OBVIOUS
    <3>. QED
      BY ONLY <1>3, <1>4, <3>1
  <2>2. c[i] = IF i + cut < 127 THEN b[i + cut] ELSE 0
    BY <1>4
  <2>3. CASE i + cut < 127
    <3>1. i + cut \in off..126
      BY <1>3, <1>4, <2>1, <2>3
    <3>2. b[i + cut] = IF (i + cut) + shift < 127 THEN block[(i + cut) + shift] ELSE 0
      BY <1>3, <3>1
    <3>. QED
      BY <2>1, <2>2, <2>3, <3>2
  <2>4. CASE ~(i + cut < 127)
    <3>1. ~((i + cut) + shift < 127)
      BY <1>3, <1>4, <2>1, <2>4
    <3>. QED
      BY <2>1, <2>2, <2>4, <3>1
  <2>. QED
    BY <2>3, <2>4
<1>13. off + n + (shift + cut) \in S
  BY <1>6, <1>10
<1>14. Tracks(block, S, c, off + n, shift + cut)
  BY <1>9, <1>11, <1>12, <1>13 DEF Tracks
<1>15. DataEnd(c) = IF b[2] # 0 THEN DataEnd(b) - cut ELSE DataEnd(b)
  <2>1. CASE block[2] = 0
    <3>1. c[2] = 0
      BY <1>11, <2>1
    <3>2. DataEnd(c) = 127
      BY <3>1 DEF DataEnd
    <3>. QED
      BY <1>2, <2>1, <3>2
  <2>2. CASE block[2] # 0
    <3>1. DataEnd(c) = c[2] /\ c[2] = block[2] - (shift + cut)
      BY <1>14, <2>2, TracksEnd
    <3>2. b[2] = block[2] - shift /\ b[2] # 0 /\ DataEnd(b) = b[2] /\ block[2] \in Int
      BY <1>2, <2>2
    <3>. QED
      BY ONLY <1>3, <1>4, <3>1, <3>2
  <2>. QED
    BY <2>1, <2>2
<1>. QED
  BY <1>8, <1>14, <1>15 DEF len

\* A step puts what it leaves of the data block behind those that are done.
LEMMA DoneStep ==
    ASSUME NEW b \in ByteBlocks, NEW off \in 4..126,
           NEW n, NEW new, NEW c, Spliced(b, off, n, new, c),
           \/ new = <<>> /\ n = 0
           \/ new \in DataBlock /\ Len(new) = n /\ n \in 2..32,
           NEW done, Done(b, off, done), NEW G, Passed(b, off, G)
    PROVE  /\ Done(c, off + n, done \cup ({new} \ {<<>>}))
           /\ Passed(c, off + n, G \cup {off + n})
<1>1. /\ \A i \in 0..127 : i # 2 /\ (i < off \/ i = 127) => c[i] = b[i]
      /\ \A i \in 1..n : c[off + i - 1] = new[i]
      /\ off + n \in off..127 /\ c \in ByteBlocks
  BY DEF Spliced
<1>2. \A i \in 4..off - 1 : c[i] = b[i]
  <2>1. \A i \in 4..off - 1 : i \in 0..127 /\ i # 2 /\ i < off
    OBVIOUS
  <2>. QED
    BY <1>1, <2>1
<1>3. \A q \in 4..off - 1 : BlockLen(c, q) = BlockLen(b, q)
  BY <1>2 DEF BlockLen
<1>4. /\ G \subseteq 4..off /\ 4 \in G /\ off \in G
      /\ \A q \in G : q # off => BlockLen(b, q) # 0 /\ q + BlockLen(b, q) + 1 \in G
  BY DEF Passed
<1>5. CASE new = <<>> /\ n = 0
  <2>1. off + n = off
    BY <1>5
  <2>2. Done(c, off, done)
    <3>1. ASSUME NEW d \in ByteBlocks, \A i \in 4..off - 1 : d[i] = c[i], off <= DataEnd(d)
          PROVE  DataFrom(d, 4) = done \cup DataFrom(d, off)
      <4>1. \A i \in 4..off - 1 : d[i] = b[i]
        BY <1>2, <3>1
      <4>. QED
        BY <3>1, <4>1 DEF Done
    <3>. QED
      BY <3>1 DEF Done
  <2>3. Passed(c, off, G)
    <3>1. ASSUME NEW q \in G, q # off
          PROVE  BlockLen(c, q) # 0 /\ q + BlockLen(c, q) + 1 \in G
      <4>1. q \in 4..off - 1
        BY <1>4, <3>1
      <4>. QED
        BY <1>3, <1>4, <3>1, <4>1
    <3>. QED
      BY <1>4, <3>1 DEF Passed
  <2>4. done \cup ({new} \ {<<>>}) = done /\ G \cup {off} = G
    BY <1>4, <1>5
  <2>. QED
    BY <2>1, <2>2, <2>3, <2>4
<1>6. CASE new \in DataBlock /\ Len(new) = n /\ n \in 2..32
  <2>1. {new} \ {<<>>} = {new}
    <3>1. Len(<<>>) = 0
      OBVIOUS
    <3>. QED
      BY <1>6, <3>1
  <2>2. /\ new[1] % 32 = n - 1 /\ off + n \in off + 2..127
        /\ new \in Seq(0..255) /\ new = [i \in 1..n |-> new[i]]
    <3>1. new \in Seq(0..255) /\ new[1] % 32 = n - 1
      BY <1>6 DEF DataBlock
    <3>2. new \in [1..n -> 0..255]
      BY ONLY <1>6, <3>1, LenProperties
    <3>. QED
      BY <1>1, <1>6, <3>1, <3>2
  <2>3. ASSUME NEW d \in ByteBlocks, \A i \in 4..off + n - 1 : d[i] = c[i], off + n <= DataEnd(d)
        PROVE  DataFrom(d, 4) = (done \cup {new}) \cup DataFrom(d, off + n)
    <3>1. off <= DataEnd(d) /\ off < DataEnd(d) /\ DataEnd(d) \in 4..127
      <4>1. DataEnd(d) \in 4..127
        BY Offsets
      <4>. QED
        <5>1. off + n \in off + 2..127 /\ off + n <= DataEnd(d)
          BY ONLY <2>2, <2>3
        <5>. QED
          BY ONLY <4>1, <5>1, off \in 4..126
    <3>2. DataFrom(d, 4) = done \cup DataFrom(d, off)
      <4>1. \A i \in 4..off - 1 : i \in 4..off + n - 1
        BY <1>6
      <4>2. \A i \in 4..off - 1 : d[i] = b[i]
        BY <1>2, <2>3, <4>1
      <4>. QED
        BY <3>1, <4>2 DEF Done
    <3>3. \A i \in 1..n : d[off + i - 1] = new[i]
      <4>1. \A i \in 1..n : off + i - 1 \in 4..off + n - 1
        BY <1>6
      <4>. QED
        BY <1>1, <2>3, <4>1
    <3>4. d[off] = new[1]
      <4>1. 1 \in 1..n /\ off + 1 - 1 = off
        BY <1>6
      <4>2. d[off + 1 - 1] = new[1]
        BY <3>3, <4>1
      <4>. QED
        BY <4>1, <4>2
    <3>5. BlockLen(d, off) = n - 1
      BY <2>2, <3>4 DEF BlockLen
    <3>6. ~AtEnd(d, off)
      <4>1. ~(off >= DataEnd(d))
        BY ONLY <3>1, off \in 4..126
      <4>2. n - 1 # 0 /\ ~(off + (n - 1) >= 127)
        <5>1. off + n \in off + 2..127 /\ n \in 2..32
          BY <1>6, <2>2
        <5>. QED
          BY ONLY <5>1, off \in 4..126
      <4>. QED
        BY <3>5, <4>1, <4>2 DEF AtEnd, Stops
    <3>7. BlockLen(d, off) + 1 = n /\ off + BlockLen(d, off) + 1 = off + n
      BY <1>6, <3>5
    <3>8. Whole(d, off) = new
      <4>1. Whole(d, off) = [i \in 1..n |-> d[off + i - 1]]
        BY <3>7 DEF Whole
      <4>. QED
        BY <2>2, <3>3, <4>1
    <3>9. DataFrom(d, off) = {new} \cup DataFrom(d, off + n)
      <4>1. off \in 4..127
        OBVIOUS
      <4>2. DataFrom(d, off) = {Whole(d, off)} \cup DataFrom(d, off + BlockLen(d, off) + 1)
        BY <3>6, <4>1, DataStep
      <4>. QED
        BY <3>7, <3>8, <4>2
    <3>. QED
      BY <3>2, <3>9
  <2>4. Done(c, off + n, done \cup {new})
    BY <2>3 DEF Done
  <2>5. c[off] = new[1]
    <3>1. 1 \in 1..n /\ off + 1 - 1 = off
      BY <1>6
    <3>2. c[off + 1 - 1] = new[1]
      BY <1>1, <3>1
    <3>. QED
      BY <3>1, <3>2
  <2>6. BlockLen(c, off) = n - 1
    BY <2>2, <2>5 DEF BlockLen
  <2>7. ASSUME NEW q \in G \cup {off + n}, q # off + n
        PROVE  BlockLen(c, q) # 0 /\ q + BlockLen(c, q) + 1 \in G \cup {off + n}
    <3>1. CASE q = off
      <4>1. n - 1 # 0 /\ off + (n - 1) + 1 = off + n
        BY <1>6
      <4>. QED
        BY <2>6, <3>1, <4>1
    <3>2. CASE q # off
      <4>1. q \in G /\ q \in 4..off - 1
        BY <1>4, <2>7, <3>2
      <4>. QED
        BY <1>3, <1>4, <3>2, <4>1
    <3>. QED
      BY <3>1, <3>2
  <2>8. Passed(c, off + n, G \cup {off + n})
    <3>1. G \cup {off + n} \subseteq 4..off + n
      BY <1>4, <2>2
    <3>. QED
      BY <1>4, <2>7, <3>1 DEF Passed
  <2>. QED
    BY <2>1, <2>4, <2>8
<1>. QED
  BY <1>5, <1>6

\* The invariant of the loop over block.
LoopAt(block, S, edit, b, off, shift, done, G) ==
    /\ Tracks(block, S, b, off, shift)
    /\ Done(b, off, done) /\ Passed(b, off, G)
    /\ done \cup Image(DataFrom(block, off + shift), edit) = Image(DataFrom(block, 4), edit)

LoopInv(block, S, edit, s) ==
    /\ s[3] = DataEnd(s[1]) /\ s[1][0] = block[0]
    /\ \E shift, done, G : LoopAt(block, S, edit, s[1], s[2], shift, done, G)

\* The timings of c are those of b, shift bytes to the left.
Moved(b, c, shift) ==
    /\ shift \in Nat
    /\ b[2] = 0 => c[2] = 0
    /\ b[2] # 0 => /\ b[2] \in 4..127 /\ c[2] = b[2] - shift /\ c[2] \in 4..127
                   /\ \A i \in c[2]..126 : c[i] = IF i + shift < 127 THEN b[i + shift] ELSE 0

\* c is b with its data blocks edited.
EditOf(b, edit, c) ==
    /\ c \in ByteBlocks /\ c[0] = b[0]
    /\ \E S : Laid(c, S)
    /\ DataBlocks(c) = Image(DataBlocks(b), edit)
    /\ \E shift : Moved(b, c, shift)

\* It holds at the start.
LEMMA LoopInvInit ==
    ASSUME NEW block \in ByteBlocks, NEW S, Laid(block, S), NEW edit
    PROVE  LoopInv(block, S, edit, <<block, 4, DataEnd(block)>>)
<1>1. Tracks(block, S, block, 4, 0)
  <2>0. block[2] \in {0} \cup 4..127 /\ 4 \in S
    BY DEF Laid
  <2>1. block[2] = IF block[2] = 0 THEN 0 ELSE block[2] - 0
    BY <2>0
  <2>2. \A i \in 4..126 : i + 0 < 127 /\ i + 0 = i
    OBVIOUS
  <2>3. 4 + 0 \in S
    BY <2>0
  <2>. QED
    BY <2>1, <2>2, <2>3 DEF Tracks
<1>2. Done(block, 4, {})
  BY DEF Done
<1>3. Passed(block, 4, {4})
  BY DEF Passed
<1>4. {} \cup Image(DataFrom(block, 4 + 0), edit) = Image(DataFrom(block, 4), edit)
  OBVIOUS
<1>5. LoopAt(block, S, edit, block, 4, 0, {}, {4})
  BY <1>1, <1>2, <1>3, <1>4 DEF LoopAt
<1>. QED
  BY <1>5 DEF LoopInv

\* Every step keeps it.
LEMMA LoopInvStep ==
    ASSUME NEW block \in ByteBlocks, NEW S, Laid(block, S), NEW edit, Editor(edit),
           NEW s \in LoopStates, LoopInv(block, S, edit, s), ~LoopEnds(s)
    PROVE  LoopInv(block, S, edit, LoopStep(s, edit))
<1>1. PICK b \in ByteBlocks, off \in 4..127, end \in Int : s = <<b, off, end>>
  BY DEF LoopStates
<1>2. ~Stops(b, off) /\ ~(off >= end) /\ s[1] = b /\ s[2] = off /\ s[3] = end
  BY <1>1 DEF LoopEnds
<1>3. end = DataEnd(b) /\ b[0] = block[0]
  BY <1>2 DEF LoopInv
<1>4. PICK shift, done, G : LoopAt(block, S, edit, b, off, shift, done, G)
  BY <1>2 DEF LoopInv
<1>5. ~AtEnd(b, off)
  BY <1>2, <1>3, SMTT(30) DEF AtEnd
<1>. DEFINE new == edit[Whole(b, off)]
            n == Len(new)
            cut == BlockLen(b, off) + 1 - n
            c == Splice(b, off, new)
            end2 == IF b[2] # 0 THEN end - cut ELSE end
<1>6. /\ off \in 4..126 /\ BlockLen(b, off) \in 1..31 /\ n \in 0..32
      /\ Whole(b, off) \in DataBlock
      /\ new \in DataBlock \cup {<<>>}
      /\ Spliced(b, off, n, new, c)
  <2>1. StepBytes(b, off, new, n, c)
    BY <1>2, LoopStepBytes, Zenon
  <2>. HIDE DEF new, n, c
  <2>. QED
    BY ONLY <2>1 DEF StepBytes
<1>7. LoopStep(s, edit) = <<c, off + n, end2>>
  BY <1>2 DEF LoopStep
<1>8. \/ new = <<>> /\ n = 0
      \/ new \in DataBlock /\ Len(new) = n /\ n \in 2..32
  <2>1. CASE new = <<>>
    BY <2>1
  <2>2. CASE new \in DataBlock
    BY <2>2 DEF DataBlock
  <2>. QED
    BY <1>6, <2>1, <2>2
<1>9. /\ ~AtEnd(block, off + shift)
      /\ BlockLen(block, off + shift) = BlockLen(b, off)
      /\ Whole(block, off + shift) = Whole(b, off)
  BY <1>4, <1>5, TracksBlock DEF LoopAt
<1>10. new = edit[Whole(block, off + shift)]
  BY <1>9
<1>11. cut = BlockLen(b, off) + 1 - n
  OBVIOUS
<1>12. end2 = IF b[2] # 0 THEN end - cut ELSE end
  OBVIOUS
<1>. HIDE DEF new, n, cut, c, end2
<1>13. /\ Tracks(block, S, c, off + n, shift + cut)
       /\ off + n + (shift + cut) = off + shift + BlockLen(b, off) + 1
       /\ DataEnd(c) = IF b[2] # 0 THEN DataEnd(b) - cut ELSE DataEnd(b)
  BY <1>4, <1>5, <1>6, <1>11, TracksStep DEF LoopAt
<1>14. /\ Done(c, off + n, done \cup ({new} \ {<<>>}))
       /\ Passed(c, off + n, G \cup {off + n})
  BY <1>4, <1>6, <1>8, DoneStep DEF LoopAt
<1>15. end2 = DataEnd(c)
  BY <1>3, <1>12, <1>13
<1>16. c[0] = block[0]
  <2>1. 0 \in 0..127 /\ 0 # 2 /\ 0 < off
    BY <1>6
  <2>2. c[0] = b[0]
    BY <1>6, <2>1 DEF Spliced
  <2>. QED
    BY <1>3, <2>2
<1>17. (done \cup ({new} \ {<<>>})) \cup Image(DataFrom(block, off + n + (shift + cut)), edit)
          = Image(DataFrom(block, 4), edit)
  <2>. DEFINE p == off + shift
              q == off + shift + BlockLen(b, off) + 1
  <2>1. p \in 4..127 /\ ~AtEnd(block, p) /\ BlockLen(block, p) = BlockLen(b, off)
    BY <1>4, <1>9, TracksEnd DEF LoopAt
  <2>2. DataFrom(block, p) = {Whole(block, p)} \cup DataFrom(block, p + BlockLen(block, p) + 1)
    <3>. HIDE DEF p
    <3>. QED
      BY <2>1, DataStep
  <2>3. p + BlockLen(block, p) + 1 = q
    BY <2>1
  <2>4. new = edit[Whole(block, p)]
    BY <1>10
  <2>5. done \cup Image(DataFrom(block, p), edit) = Image(DataFrom(block, 4), edit)
    BY <1>4 DEF LoopAt
  <2>6. off + n + (shift + cut) = q
    BY <1>13
  <2>. HIDE DEF p, q
  <2>7. Image(DataFrom(block, p), edit) = ({new} \ {<<>>}) \cup Image(DataFrom(block, q), edit)
    BY <2>2, <2>3, <2>4 DEF Image
  <2>. QED
    BY <2>5, <2>6, <2>7
<1>18. LoopAt(block, S, edit, c, off + n, shift + cut,
             done \cup ({new} \ {<<>>}), G \cup {off + n})
  BY <1>13, <1>14, <1>17 DEF LoopAt
<1>19. LoopStep(s, edit)[1] = c /\ LoopStep(s, edit)[2] = off + n /\ LoopStep(s, edit)[3] = end2
  BY <1>7
<1>. QED
  BY <1>15, <1>16, <1>18, <1>19 DEF LoopInv

\* What it says at the end.
LEMMA LoopInvEnd ==
    ASSUME NEW block \in ByteBlocks, NEW S, Laid(block, S), NEW edit,
           NEW s \in LoopStates, LoopInv(block, S, edit, s), LoopEnds(s)
    PROVE  EditOf(block, edit, s[1])
<1>1. PICK b \in ByteBlocks, off \in 4..127, end \in Int : s = <<b, off, end>>
  BY DEF LoopStates
<1>2. (Stops(b, off) \/ off >= end) /\ s[1] = b /\ s[2] = off /\ s[3] = end
  BY <1>1 DEF LoopEnds
<1>3. end = DataEnd(b) /\ b[0] = block[0]
  BY <1>2 DEF LoopInv
<1>4. PICK shift, done, G : LoopAt(block, S, edit, b, off, shift, done, G)
  BY <1>2 DEF LoopInv
<1>5. AtEnd(b, off)
  BY <1>2, <1>3 DEF AtEnd
<1>6. /\ AtEnd(block, off + shift)
      /\ off = DataEnd(b) \/ (off < DataEnd(b) /\ b[2] = 0 /\ BlockLen(b, off) = 0)
  BY <1>4, <1>5, TracksBlock DEF LoopAt
<1>7. /\ off + shift \in 4..127 /\ off <= DataEnd(b) /\ DataEnd(b) \in 4..127
      /\ block[2] = 0 => b[2] = 0 /\ DataEnd(b) = 127
      /\ block[2] # 0 => /\ block[2] \in 4..127 /\ b[2] = block[2] - shift /\ b[2] \in 4..127
                         /\ DataEnd(b) = b[2]
  BY <1>4, TracksEnd DEF LoopAt
<1>8. /\ shift \in Nat
      /\ \A i \in off..126 : b[i] = IF i + shift < 127 THEN block[i + shift] ELSE 0
  BY <1>4 DEF LoopAt, Tracks
<1>9. DataBlocks(b) = Image(DataBlocks(block), edit)
  <2>1. DataFrom(b, off) = {} /\ DataFrom(block, off + shift) = {}
    BY ONLY <1>5, <1>6, <1>7, DataStep, Zenon
  <2>2. DataFrom(b, 4) = done \cup DataFrom(b, off)
    BY <1>4, <1>7 DEF LoopAt, Done
  <2>3. done \cup Image(DataFrom(block, off + shift), edit) = Image(DataFrom(block, 4), edit)
    BY <1>4 DEF LoopAt
  <2>4. DataFrom(b, 4) = Image(DataFrom(block, 4), edit)
    BY <2>1, <2>2, <2>3 DEF Image
  <2>. QED
    BY ONLY <2>4 DEF DataBlocks, DataFrom, Chain
<1>10. Laid(b, G)
  <2>1. /\ G \subseteq 4..off /\ 4 \in G /\ off \in G
        /\ \A q \in G : q # off => BlockLen(b, q) # 0 /\ q + BlockLen(b, q) + 1 \in G
    BY <1>4 DEF LoopAt, Passed
  <2>2. b[2] \in {0} \cup 4..127
    BY <1>7
  <2>3. ASSUME NEW q \in G
        PROVE  \/ q = DataEnd(b)
               \/ q < DataEnd(b) /\ b[2] = 0 /\ BlockLen(b, q) = 0
               \/ ~AtEnd(b, q) /\ q < DataEnd(b) /\ q + BlockLen(b, q) + 1 \in G
    <3>1. CASE q = off
      BY <1>6, <3>1
    <3>2. CASE q # off
      <4>1. q \in 4..off /\ q < off
        BY <2>1, <3>2
      <4>2. BlockLen(b, q) # 0 /\ q + BlockLen(b, q) + 1 \in 4..off
        BY <2>1, <3>2
      <4>3. BlockLen(b, q) \in 0..31
        <5>1. q \in 0..127
          BY <4>1
        <5>. QED
          BY <5>1, Offsets
      <4>4. ~(q + BlockLen(b, q) >= 127) /\ q < DataEnd(b)
        BY <1>7, <4>1, <4>2, <4>3
      <4>5. ~AtEnd(b, q)
        BY <1>7, <4>1, <4>2, <4>4 DEF AtEnd, Stops
      <4>. QED
        BY <2>1, <3>2, <4>4, <4>5
    <3>. QED
      BY <3>1, <3>2
  <2>4. G \subseteq 4..127
    BY <1>7, <2>1
  <2>. QED
    BY <2>1, <2>2, <2>3, <2>4 DEF Laid
<1>11. Moved(block, b, shift)
  <2>1. ASSUME block[2] # 0, NEW i \in b[2]..126
        PROVE  b[i] = IF i + shift < 127 THEN block[i + shift] ELSE 0
    <3>1. i \in off..126
      BY ONLY <1>7, <2>1
    <3>. QED
      BY <1>8, <3>1
  <2>. QED
    BY <1>7, <1>8, <2>1 DEF Moved
<1>. QED
  BY <1>2, <1>3, <1>9, <1>10, <1>11 DEF EditOf

\* The loop edits the data blocks, and nothing else.
LEMMA EditLaid ==
    ASSUME NEW block \in ByteBlocks, NEW S, Laid(block, S), NEW edit, Editor(edit)
    PROVE  EditOf(block, edit, EditBlocks(block, edit))
<1>. DEFINE I == {s \in LoopStates : LoopInv(block, S, edit, s)}
            Q == {c \in ByteBlocks : EditOf(block, edit, c)}
<1>1. <<block, 4, DataEnd(block)>> \in LoopStates
  BY ONLY Offsets DEF LoopStates
<1>2. <<block, 4, DataEnd(block)>> \in I
  BY <1>1, LoopInvInit
<1>3. \A s \in I : LoopEnds(s) => s[1] \in Q
  <2>1. \A s \in LoopStates : s[1] \in ByteBlocks
    BY DEF LoopStates
  <2>. QED
    BY <2>1, LoopInvEnd
<1>4. \A s \in I : ~LoopEnds(s) => LoopStep(s, edit) \in I
  BY LoopStepTyped, LoopInvStep
<1>5. I \in SUBSET LoopStates /\ Q \in SUBSET ByteBlocks
  OBVIOUS
<1>. HIDE DEF I, Q
<1>6. EditBlocks(block, edit) \in Q
  BY <1>2, <1>3, <1>4, <1>5, EditLoop
<1>. QED
  BY ONLY <1>6 DEF Q

\* Whatever the layout, what it returns is a block.
LEMMA EditTyped ==
    ASSUME NEW block \in ByteBlocks, NEW edit, Editor(edit)
    PROVE  EditBlocks(block, edit) \in ByteBlocks /\ EditBlocks(block, edit)[0] = block[0]
<1>. DEFINE I == {s \in LoopStates : s[1][0] = block[0]}
            Q == {c \in ByteBlocks : c[0] = block[0]}
<1>1. <<block, 4, DataEnd(block)>> \in I
  BY Offsets DEF LoopStates
<1>2. \A s \in I : LoopEnds(s) => s[1] \in Q
  BY DEF LoopStates
<1>3. ASSUME NEW s \in I, ~LoopEnds(s) PROVE LoopStep(s, edit) \in I
  <2>1. PICK b \in ByteBlocks, off \in 4..127, end \in Int : s = <<b, off, end>>
    BY DEF LoopStates
  <2>2. ~Stops(b, off) /\ s[1] = b /\ s[2] = off
    BY <1>3, <2>1 DEF LoopEnds
  <2>3. LoopStep(s, edit)[1] = Splice(b, off, edit[Whole(b, off)])
    BY <2>2 DEF LoopStep
  <2>4. Splice(b, off, edit[Whole(b, off)])[0] = b[0]
    <3>1. 0 \in 0..127 /\ 0 # 2 /\ 0 < off
      BY SMTT(30)
    <3>2. Spliced(b, off, Len(edit[Whole(b, off)]), edit[Whole(b, off)],
                  Splice(b, off, edit[Whole(b, off)]))
      <4>1. PICK new : new = edit[Whole(b, off)]
        OBVIOUS
      <4>2. StepBytes(b, off, new, Len(new), Splice(b, off, new))
        BY <2>2, <4>1, LoopStepBytes, Zenon
      <4>. QED
        BY ONLY <4>1, <4>2, Zenon DEF StepBytes
    <3>. QED
      BY <3>1, <3>2 DEF Spliced
  <2>5. LoopStep(s, edit) \in LoopStates
    BY <1>3, LoopStepTyped
  <2>. QED
    BY <2>2, <2>3, <2>4, <2>5
<1>4. I \in SUBSET LoopStates /\ Q \in SUBSET ByteBlocks
  OBVIOUS
<1>. HIDE DEF I, Q
<1>5. EditBlocks(block, edit) \in Q
  BY <1>1, <1>2, <1>3, <1>4, EditLoop
<1>. QED
  BY ONLY <1>5 DEF Q

(***************************************************************************)
(* The three edits.                                                        *)
(***************************************************************************)

\* The VICs of a list of bytes.
Masked(s) == {s[j] % 128 : j \in 1..Len(s)}

\* With one byte more.
LEMMA MaskedAppend ==
    ASSUME NEW s \in Seq(0..255), NEW x \in 0..255
    PROVE  /\ Append(s, x) \in Seq(0..255) /\ Len(Append(s, x)) = Len(s) + 1
           /\ Masked(Append(s, x)) = Masked(s) \cup {x % 128}
<1>1. /\ Append(s, x) \in Seq(0..255) /\ Len(Append(s, x)) = Len(s) + 1 /\ Len(s) \in Nat
      /\ \A i \in 1..Len(s) : Append(s, x)[i] = s[i]
      /\ Append(s, x)[Len(s) + 1] = x
  BY AppendProperties, LenProperties
<1>. DEFINE n == Len(s)
            a == Append(s, x)
<1>2. Masked(a) = {a[j] % 128 : j \in 1..n + 1}
  BY <1>1 DEF Masked
<1>3. Masked(s) = {s[j] % 128 : j \in 1..n}
  BY DEF Masked
<1>4. /\ n \in Nat /\ \A i \in 1..n : a[i] = s[i]
      /\ a[n + 1] = x
  BY <1>1
<1>. HIDE DEF n, a
<1>5. 1..n + 1 = (1..n) \cup {n + 1}
  BY <1>4
<1>6. {a[j] % 128 : j \in 1..n + 1} = {s[j] % 128 : j \in 1..n} \cup {x % 128}
  BY ONLY <1>4, <1>5, ZenonT(60)
<1>. QED
  BY <1>1, <1>2, <1>3, <1>6 DEF n, a

\* The bytes that are kept are the ones whose VIC is in vics.
LEMMA KeptVics ==
    ASSUME NEW d \in DataBlock, NEW first \in 2..Len(d), NEW vics
    PROVE  /\ Kept(d, first, vics) \in Seq(0..255)
           /\ Len(Kept(d, first, vics)) <= Len(d) - first + 1
           /\ Masked(Kept(d, first, vics)) = {d[j] % 128 : j \in first..Len(d)} \cap vics
<1>. DEFINE len == Len(d)
<1>0. len \in 2..32 /\ first \in 2..len /\ \A i \in 1..len : d[i] \in 0..255
  <2>1. d \in Seq(0..255) /\ len \in 2..32
    BY DEF DataBlock
  <2>2. d \in [1..len -> 0..255]
    BY ONLY <2>1, LenProperties, Zenon
  <2>. QED
    BY <2>1, <2>2
<1>. DEFINE D == 1..len
            R == Seq(0..255)
            stop == {i \in D : i < first}
            Eq(f) == f = [i \in 1..Len(d) |->
                            CASE i < first -> <<>>
                              [] i >= first /\ d[i] % 128 \in vics -> Append(f[i - 1], d[i])
                              [] OTHER -> f[i - 1]]
            rank == [i \in D |-> i]
            base == [i \in D |-> <<>>]
            next == [i \in D |-> IF i = 1 THEN 1 ELSE i - 1]
            step == [i \in D |-> [v \in R |->
                        IF d[i] % 128 \in vics THEN Append(v, d[i]) ELSE v]]
<1>. HIDE DEF len
<1>1. rank \in [D -> 0..32] /\ stop \in SUBSET D /\ 32 \in Nat
  BY <1>0
<1>2. base \in [D -> R] /\ \A i \in D : base[i] = <<>>
  OBVIOUS
<1>3. next \in [D -> D] /\ \A i \in D \ stop : next[i] = i - 1 /\ next[i] \in D
  BY <1>0
<1>4. \A i \in D \ stop : rank[next[i]] < rank[i]
  BY <1>0, <1>3
<1>5. step \in [D -> [R -> R]]
  BY ONLY <1>0, MaskedAppend, Zenon
<1>6. \A i \in D, v \in R : step[i][v] = IF d[i] % 128 \in vics THEN Append(v, d[i]) ELSE v
  OBVIOUS
<1>. HIDE DEF rank, base, next, step
<1>7. PICK f : Solves(f, D, R, stop, base, next, step)
  <2>1. Terminates(D, R, 32, rank, stop, base, next, step)
    BY <1>1, <1>2, <1>3, <1>4, <1>5 DEF Terminates
  <2>. HIDE DEF D, R, stop
  <2>. QED
    BY <2>1, Recursion
<1>8. f \in [D -> R]
  BY <1>7 DEF Solves
<1>9. \A i \in D : i < first => f[i] = <<>>
  BY <1>2, <1>7 DEF Solves
<1>10. \A i \in D : ~(i < first) =>
          i - 1 \in D /\ f[i] = IF d[i] % 128 \in vics THEN Append(f[i - 1], d[i]) ELSE f[i - 1]
  <2>1. ASSUME NEW i \in D, ~(i < first)
        PROVE  /\ i - 1 \in D
               /\ f[i] = IF d[i] % 128 \in vics THEN Append(f[i - 1], d[i]) ELSE f[i - 1]
    <3>1. i \in D \ stop /\ next[i] = i - 1 /\ i - 1 \in D
      BY <1>3, <2>1
    <3>2. f[i] = step[i][f[next[i]]] /\ f[next[i]] \in R
      BY <1>7, <1>8, <3>1 DEF Solves
    <3>. QED
      BY <1>6, <3>1, <3>2
  <2>. QED
    BY <2>1
<1>11. Eq(f)
  <2>1. ASSUME NEW i \in D
        PROVE  f[i] = CASE i < first -> <<>>
                        [] i >= first /\ d[i] % 128 \in vics -> Append(f[i - 1], d[i])
                        [] OTHER -> f[i - 1]
    <3>1. CASE i < first
      BY <1>0, <1>9, <3>1
    <3>2. CASE i >= first /\ d[i] % 128 \in vics
      BY <1>0, <1>10, <3>2
    <3>3. CASE i >= first /\ d[i] % 128 \notin vics
      BY <1>0, <1>10, <3>3
    <3>. QED
      BY <1>0, <3>1, <3>2, <3>3
  <2>2. f = [i \in D |-> f[i]]
    BY <1>8
  <2>. QED
    BY <2>1, <2>2 DEF len
<1>12. ASSUME NEW g, Eq(g) PROVE g = f
  <2>0. D = 1..Len(d)
    BY DEF len
  <2>1. g = [i \in D |-> g[i]]
    BY <1>12, <2>0
  <2>2. \A i \in stop : g[i] = base[i]
    BY <1>0, <1>2, <1>12, <2>0
  <2>3. ASSUME NEW i \in D \ stop, g[next[i]] \in R PROVE g[i] = step[i][g[next[i]]]
    <3>1. next[i] = i - 1 /\ i \in D /\ ~(i < first) /\ i >= first
      BY <1>0, <1>3
    <3>2. g[i] = IF d[i] % 128 \in vics THEN Append(g[i - 1], d[i]) ELSE g[i - 1]
      BY <1>12, <2>0, <3>1
    <3>. QED
      BY <1>6, <2>3, <3>1, <3>2
  <2>. HIDE DEF D, R, stop, Eq
  <2>. QED
    BY <1>7, <2>1, <2>2, <2>3 DEF Solves
<1>13. f = CHOOSE g : Eq(g)
  BY <1>11, <1>12
<1>14. Kept(d, first, vics) = f[len]
  BY <1>13 DEF Kept, len
<1>. DEFINE Right(i) == /\ Len(f[i]) <= IF i < first THEN 0 ELSE i - first + 1
                        /\ Masked(f[i]) = {d[j] % 128 : j \in first..i} \cap vics
            T == {k \in Nat : k + 1 \in D => Right(k + 1)}
<1>. HIDE DEF Eq, stop
<1>15. ASSUME NEW i \in D, i < first PROVE Right(i)
  <2>1. f[i] = <<>> /\ first..i = {}
    BY <1>0, <1>9, <1>15
  <2>2. Masked(<<>>) = {}
    BY DEF Masked
  <2>. QED
    BY <1>15, <2>1, <2>2
<1>16. ASSUME NEW i \in D, ~(i < first), Right(i - 1) PROVE Right(i)
  <2>1. i - 1 \in D /\ f[i - 1] \in R /\ d[i] \in 0..255
    BY <1>0, <1>8, <1>10, <1>16
  <2>2. Len(f[i - 1]) <= i - first /\ Len(f[i - 1]) \in Nat
    BY <1>0, <1>16, <2>1, LenProperties
  <2>3. first..i = (first..i - 1) \cup {i}
    BY <1>0, <1>16
  <2>4. Masked(f[i - 1]) = {d[j] % 128 : j \in first..i - 1} \cap vics
    BY <1>16
  <2>5. CASE d[i] % 128 \in vics
    <3>1. f[i] = Append(f[i - 1], d[i])
      BY <1>10, <1>16, <2>5
    <3>2. /\ Len(f[i]) = Len(f[i - 1]) + 1
          /\ Masked(f[i]) = Masked(f[i - 1]) \cup {d[i] % 128}
      <4>. DEFINE v == f[i - 1]
                  x == d[i]
      <4>1. v \in Seq(0..255) /\ x \in 0..255 /\ f[i] = Append(v, x)
        BY <2>1, <3>1
      <4>. HIDE DEF v, x
      <4>2. Len(Append(v, x)) = Len(v) + 1 /\ Masked(Append(v, x)) = Masked(v) \cup {x % 128}
        BY ONLY <4>1, MaskedAppend, Zenon
      <4>. QED
        BY <4>1, <4>2 DEF v, x
    <3>3. Len(f[i]) <= i - first + 1
      BY <1>0, <2>2, <3>2
    <3>4. Masked(f[i]) = {d[j] % 128 : j \in first..i} \cap vics
      BY <2>3, <2>4, <2>5, <3>2
    <3>. QED
      BY <1>16, <3>3, <3>4
  <2>6. CASE d[i] % 128 \notin vics
    <3>1. f[i] = f[i - 1]
      BY <1>10, <1>16, <2>6
    <3>2. Len(f[i]) <= i - first + 1
      BY <1>0, <2>2, <3>1
    <3>3. Masked(f[i]) = {d[j] % 128 : j \in first..i} \cap vics
      BY <2>3, <2>4, <2>6, <3>1
    <3>. QED
      BY <1>16, <3>2, <3>3
  <2>. QED
    BY <2>5, <2>6
<1>. HIDE DEF Right
<1>17. 0 \in T
  <2>1. 1 \in D /\ 1 < first
    BY <1>0
  <2>. QED
    BY <1>15, <2>1
<1>18. ASSUME NEW k \in T PROVE k + 1 \in T
  <2>1. ASSUME k + 1 + 1 \in D PROVE Right(k + 1 + 1)
    <3>1. k + 1 \in D /\ k + 1 + 1 - 1 = k + 1
      BY <1>0, <2>1
    <3>2. Right(k + 1)
      BY <3>1
    <3>. QED
      BY <1>15, <1>16, <2>1, <3>1, <3>2
  <2>. QED
    BY <2>1
<1>19. len - 1 \in T
  <2>. HIDE DEF T
  <2>1. T \in SUBSET Nat
    BY DEF T
  <2>2. T = Nat
    BY <1>17, <1>18, <2>1, SetInduction
  <2>. QED
    BY <1>0, <2>2
<1>20. Right(len)
  <2>1. len - 1 + 1 = len /\ len \in D
    BY <1>0
  <2>. QED
    BY <1>19, <2>1
<1>21. Len(f[len]) <= len - first + 1 /\ Masked(f[len]) = {d[j] % 128 : j \in first..len} \cap vics
  <2>1. ~(len < first)
    BY ONLY <1>0
  <2>. QED
    BY ONLY <1>20, <2>1 DEF Right
<1>22. f[len] \in Seq(0..255)
  BY <1>0, <1>8
<1>. QED
  BY <1>14, <1>21, <1>22 DEF len

\* A data block's parts.
LEMMA DataBlockParts ==
    ASSUME NEW d \in DataBlock
    PROVE  /\ Len(d) \in 2..32 /\ d \in [1..Len(d) -> 0..255] /\ d \in Seq(0..255)
           /\ d[1] \in 0..255 /\ d[1] % 32 = Len(d) - 1 /\ d # <<>>
<1>1. d \in Seq(0..255) /\ Len(d) \in 2..32 /\ d[1] % 32 = Len(d) - 1
  BY DEF DataBlock
<1>2. d \in [1..Len(d) -> 0..255]
  BY ONLY <1>1, LenProperties, Zenon
<1>3. d[1] \in 0..255
  <2>. DEFINE n == Len(d)
  <2>1. n \in 2..32 /\ d \in [1..n -> 0..255]
    BY <1>1, <1>2
  <2>. HIDE DEF n
  <2>2. 1 \in 1..n
    BY ONLY <2>1
  <2>. QED
    BY ONLY <2>1, <2>2
<1>4. d # <<>>
  <2>1. Len(<<>>) = 0
    OBVIOUS
  <2>. QED
    BY <1>1, <2>1
<1>. QED
  BY <1>1, <1>2, <1>3, <1>4

\* A video block of the VICs in kept.
LEMMA VideoBlock ==
    ASSUME NEW kept \in Seq(0..255), Len(kept) \in 1..31
    PROVE  LET r == <<64 + Len(kept)>> \o kept
           IN  r \in DataBlock /\ Len(r) = Len(kept) + 1 /\ IsVideo(r) /\ Vics(r) = Masked(kept)
<1>. DEFINE k == Len(kept)
            head == <<64 + k>>
            r == head \o kept
<1>1. k \in 1..31 /\ kept \in [1..k -> 0..255]
  BY LenProperties
<1>2. 64 + k \in 0..255 /\ (64 + k) % 32 = k /\ (64 + k) \div 32 = 2
  <2>. HIDE DEF k
  <2>. QED
    BY <1>1
<1>3. head \in Seq(0..255) /\ Len(head) = 1 /\ head[1] = 64 + k
  BY <1>2
<1>4. /\ r \in Seq(0..255) /\ Len(r) = k + 1 /\ r[1] = 64 + k
      /\ \A i \in 2..k + 1 : r[i] = kept[i - 1]
  <2>0. Len(head) = 1 /\ Len(kept) = k
    BY <1>3
  <2>a. r = head \o kept /\ head \in Seq(0..255) /\ kept \in Seq(0..255)
    BY <1>3
  <2>. HIDE DEF head, k, r
  <2>1. /\ r \in Seq(0..255) /\ Len(r) = Len(head) + Len(kept)
        /\ \A i \in 1..Len(head) + Len(kept) :
               r[i] = IF i <= Len(head) THEN head[i] ELSE kept[i - Len(head)]
    BY ONLY <2>a, ConcatProperties
  <2>2. /\ r \in Seq(0..255) /\ Len(r) = 1 + k
        /\ \A i \in 1..1 + k : r[i] = IF i <= 1 THEN head[i] ELSE kept[i - 1]
    BY ONLY <2>0, <2>1
  <2>. QED
    BY ONLY <1>1, <1>3, <2>2
<1>. HIDE DEF r, head
<1>5. IsVideo(r)
  BY <1>2, <1>4 DEF IsVideo, BlockTag
<1>6. r \in DataBlock
  <2>. HIDE DEF k
  <2>1. Len(r) \in 2..32 /\ r[1] % 32 = Len(r) - 1
    BY ONLY <1>1, <1>2, <1>4
  <2>. QED
    BY ONLY <1>4, <2>1 DEF DataBlock
<1>7. Vics(r) = Masked(kept)
  <2>1. Vics(r) = {r[i] % 128 : i \in 2..k + 1}
    BY <1>4, <1>5 DEF Vics
  <2>2. Masked(kept) = {kept[j] % 128 : j \in 1..k}
    BY DEF Masked
  <2>. HIDE DEF k
  <2>3. \A i \in 2..k + 1 : i - 1 \in 1..k /\ r[i] = kept[i - 1]
    BY <1>1, <1>4
  <2>4. \A j \in 1..k : j + 1 \in 2..k + 1 /\ (j + 1) - 1 = j
    BY <1>1
  <2>. QED
    BY <2>1, <2>2, <2>3, <2>4
<1>. QED
  BY <1>4, <1>5, <1>6, <1>7 DEF r, head

\* A YCbCr 4:2:0 video block of the VICs in kept.
LEMMA Video420Block ==
    ASSUME NEW kept \in Seq(0..255), Len(kept) \in 1..30
    PROVE  LET r == <<225 + Len(kept), 14>> \o kept
           IN  /\ r \in DataBlock /\ Len(r) = Len(kept) + 2
               /\ ~IsVideo(r) /\ IsVideo420(r) /\ Vics(r) = Masked(kept)
<1>. DEFINE k == Len(kept)
            head == <<225 + k, 14>>
            r == head \o kept
<1>1. k \in 1..30 /\ kept \in [1..k -> 0..255]
  BY LenProperties
<1>2. 225 + k \in 0..255 /\ (225 + k) % 32 = k + 1 /\ (225 + k) \div 32 = 7
  <2>. HIDE DEF k
  <2>. QED
    BY <1>1
<1>3. head \in Seq(0..255) /\ Len(head) = 2 /\ head[1] = 225 + k /\ head[2] = 14
  BY <1>2
<1>4. /\ r \in Seq(0..255) /\ Len(r) = k + 2 /\ r[1] = 225 + k /\ r[2] = 14
      /\ \A i \in 3..k + 2 : r[i] = kept[i - 2]
  <2>0. Len(head) = 2 /\ Len(kept) = k
    BY <1>3
  <2>a. r = head \o kept /\ head \in Seq(0..255) /\ kept \in Seq(0..255)
    BY <1>3
  <2>. HIDE DEF head, k, r
  <2>1. /\ r \in Seq(0..255) /\ Len(r) = Len(head) + Len(kept)
        /\ \A i \in 1..Len(head) + Len(kept) :
               r[i] = IF i <= Len(head) THEN head[i] ELSE kept[i - Len(head)]
    BY ONLY <2>a, ConcatProperties
  <2>2. /\ r \in Seq(0..255) /\ Len(r) = 2 + k
        /\ \A i \in 1..2 + k : r[i] = IF i <= 2 THEN head[i] ELSE kept[i - 2]
    BY ONLY <2>0, <2>1
  <2>. QED
    BY ONLY <1>1, <1>3, <2>2
<1>. HIDE DEF r, head
<1>5. ~IsVideo(r) /\ IsVideo420(r)
  <2>1. Len(r) >= 3
    <3>. HIDE DEF k
    <3>. QED
      BY <1>1, <1>4
  <2>. QED
    BY <1>2, <1>4, <2>1 DEF IsVideo, IsVideo420, BlockTag
<1>6. r \in DataBlock
  <2>. HIDE DEF k
  <2>1. Len(r) \in 2..32 /\ r[1] % 32 = Len(r) - 1
    BY ONLY <1>1, <1>2, <1>4
  <2>. QED
    BY ONLY <1>4, <2>1 DEF DataBlock
<1>7. Vics(r) = Masked(kept)
  <2>1. Vics(r) = {r[i] % 128 : i \in 3..k + 2}
    BY <1>4, <1>5 DEF Vics
  <2>2. Masked(kept) = {kept[j] % 128 : j \in 1..k}
    BY DEF Masked
  <2>. HIDE DEF k
  <2>3. \A i \in 3..k + 2 : i - 2 \in 1..k /\ r[i] = kept[i - 2]
    BY <1>1, <1>4
  <2>4. \A j \in 1..k : j + 2 \in 3..k + 2 /\ (j + 2) - 2 = j
    BY <1>1
  <2>. QED
    BY <2>1, <2>2, <2>3, <2>4
<1>. QED
  BY ONLY <1>4, <1>5, <1>6, <1>7 DEF r, head

\* The filter of the VICs keeps the block's kind, and of its VICs those in vics.
LEMMA FilterVicsEdit ==
    ASSUME NEW d \in DataBlock, NEW vics
    PROVE  LET r == FilterVics(d, vics)
           IN  /\ r \in DataBlock \cup {<<>>} /\ Len(r) <= Len(d)
               /\ ~IsVideo(d) /\ ~IsVideo420(d) => r = d
               /\ IsVideo(d) \/ IsVideo420(d) =>
                    /\ r = <<>> => Vics(d) \cap vics = {}
                    /\ r # <<>> => /\ Vics(r) = Vics(d) \cap vics
                                   /\ IsVideo(r) <=> IsVideo(d)
                                   /\ IsVideo420(r) <=> IsVideo420(d)
<1>. DEFINE r == FilterVics(d, vics)
<1>1. Len(d) \in 2..32 /\ d # <<>>
  BY DataBlockParts
<1>2. Len(<<>>) = 0 /\ Masked(<<>>) = {}
  BY DEF Masked
<1>3. IsVideo(d) => ~IsVideo420(d)
  BY DEF IsVideo, IsVideo420
<1>4. CASE IsVideo(d)
  <2>. DEFINE kept == Kept(d, 2, vics)
  <2>1. 2 \in 2..Len(d)
    <3>1. \A n \in 2..32 : 2 \in 2..n
      OBVIOUS
    <3>. QED
      BY <1>1, <3>1
  <2>2. /\ kept \in Seq(0..255) /\ Len(kept) <= Len(d) - 2 + 1
        /\ Masked(kept) = {d[j] % 128 : j \in 2..Len(d)} \cap vics
    BY ONLY d \in DataBlock, <2>1, KeptVics
  <2>3. Masked(kept) = Vics(d) \cap vics
    BY <1>4, <2>2 DEF Vics
  <2>4. CASE kept = <<>>
    <3>1. r = <<>>
      BY <1>3, <1>4, <2>4 DEF FilterVics
    <3>. QED
      BY <1>1, <1>2, <1>4, <2>3, <2>4, <3>1
  <2>5. CASE kept # <<>>
    <3>1. r = <<64 + Len(kept)>> \o kept
      BY <1>3, <1>4, <2>5 DEF FilterVics
    <3>. HIDE DEF kept, r
    <3>2. Len(kept) \in Nat /\ Len(kept) # 0
      <4>1. kept \in Seq(0..255)
        BY <2>2
      <4>. QED
        BY ONLY <2>5, <4>1, EmptySeq, LenProperties
    <3>a. Len(kept) <= Len(d) - 2 + 1
      BY <2>2
    <3>3. Len(kept) \in 1..31
      <4>1. \A n \in 2..32, m \in Nat : m # 0 /\ m <= n - 2 + 1 => m \in 1..31
        OBVIOUS
      <4>. QED
        BY <1>1, <3>a, <3>2, <4>1
    <3>4. r \in DataBlock /\ Len(r) = Len(kept) + 1 /\ IsVideo(r) /\ Vics(r) = Masked(kept)
      BY <2>2, <3>1, <3>3, VideoBlock
    <3>b. Len(r) = Len(kept) + 1
      BY <3>4
    <3>5. Len(r) <= Len(d)
      BY ONLY <1>1, <3>a, <3>2, <3>b
    <3>6. r # <<>> /\ ~IsVideo420(r)
      BY <3>4, DataBlockParts DEF IsVideo, IsVideo420
    <3>. QED
      BY <1>3, <1>4, <2>3, <3>4, <3>5, <3>6 DEF r
  <2>. QED
    BY <2>4, <2>5
<1>5. CASE IsVideo420(d)
  <2>. DEFINE kept == Kept(d, 3, vics)
  <2>0. ~IsVideo(d)
    BY <1>3, <1>5
  <2>a. Len(d) >= 3
    BY <1>5 DEF IsVideo420
  <2>1. 3 \in 2..Len(d)
    BY ONLY <1>1, <2>a
  <2>2. /\ kept \in Seq(0..255) /\ Len(kept) <= Len(d) - 3 + 1
        /\ Masked(kept) = {d[j] % 128 : j \in 3..Len(d)} \cap vics
    BY ONLY d \in DataBlock, <2>1, KeptVics
  <2>3. Masked(kept) = Vics(d) \cap vics
    BY <2>0, <2>2 DEF Vics
  <2>4. CASE kept = <<>>
    <3>1. r = <<>>
      BY <1>5, <2>0, <2>4 DEF FilterVics
    <3>. QED
      BY <1>1, <1>2, <1>5, <2>3, <2>4, <3>1
  <2>5. CASE kept # <<>>
    <3>1. r = <<225 + Len(kept), 14>> \o kept
      BY <1>5, <2>0, <2>5 DEF FilterVics
    <3>. HIDE DEF kept, r
    <3>2. Len(kept) \in Nat /\ Len(kept) # 0
      <4>1. kept \in Seq(0..255)
        BY <2>2
      <4>. QED
        BY ONLY <2>5, <4>1, EmptySeq, LenProperties
    <3>a. Len(kept) <= Len(d) - 3 + 1
      BY <2>2
    <3>3. Len(kept) \in 1..30
      <4>1. \A n \in 2..32, m \in Nat : m # 0 /\ m <= n - 3 + 1 => m \in 1..30
        OBVIOUS
      <4>. QED
        BY <1>1, <3>a, <3>2, <4>1
    <3>4. /\ r \in DataBlock /\ Len(r) = Len(kept) + 2 /\ ~IsVideo(r) /\ IsVideo420(r)
          /\ Vics(r) = Masked(kept)
      BY <2>2, <3>1, <3>3, Video420Block
    <3>b. Len(r) = Len(kept) + 2
      BY <3>4
    <3>5. Len(r) <= Len(d)
      BY ONLY <1>1, <3>a, <3>2, <3>b
    <3>6. r # <<>>
      BY <3>4, DataBlockParts
    <3>. QED
      BY <1>5, <2>0, <2>3, <3>4, <3>5, <3>6 DEF r
  <2>. QED
    BY <2>4, <2>5
<1>6. CASE ~IsVideo(d) /\ ~IsVideo420(d)
  <2>1. r = d
    BY <1>6 DEF FilterVics
  <2>. QED
    BY <1>1, <1>6, <2>1
<1>. QED
  BY <1>4, <1>5, <1>6

\* A sequence of so many bytes.
LEMMA BytesSeq ==
    ASSUME NEW n \in Nat, NEW r, r \in [1..n -> 0..255]
    PROVE  r \in Seq(0..255) /\ Len(r) = n
  OBVIOUS

\* Which OUI a data block has depends on its first four bytes.
LEMMA OuiSame ==
    ASSUME NEW d \in DataBlock, NEW r \in DataBlock, Len(r) = Len(d),
           \A i \in 1..Len(d) : i <= 4 => r[i] = d[i]
    PROVE  \A oui : HasOui(r, oui) <=> HasOui(d, oui)
<1>. DEFINE len == Len(d)
<1>1. len \in 2..32 /\ d \in [1..len -> 0..255] /\ r \in [1..len -> 0..255] /\ Len(r) = len
  BY DataBlockParts, Zenon
<1>a. \A i \in 1..len : i <= 4 => r[i] = d[i]
  OBVIOUS
<1>. HIDE DEF len
<1>2. r[1] = d[1]
  BY <1>1, <1>a
<1>3. CASE len >= 4
  <2>1. \A i \in 2..4 : r[i] = d[i] /\ d[i] \in 0..255
    <3>1. len \in 4..32
      BY ONLY <1>1, <1>3
    <3>2. \A i \in 2..4 : i \in 1..len /\ i <= 4
      BY ONLY <3>1
    <3>. QED
      BY ONLY <1>1, <1>a, <3>2, Zenon
  <2>2. 2 \in Int /\ 4 \in Int
    OBVIOUS
  <2>3. /\ SubSeq(d, 2, 4) \in Seq(0..255) /\ Len(SubSeq(d, 2, 4)) = 3
        /\ \A i \in 1..3 : SubSeq(d, 2, 4)[i] = d[2 + i - 1]
    <3>1. \A i \in 2..4 : d[i] \in 0..255
      BY <2>1
    <3>2. /\ SubSeq(d, 2, 4) \in Seq(0..255)
          /\ Len(SubSeq(d, 2, 4)) = IF 2 <= 4 THEN 4 - 2 + 1 ELSE 0
          /\ \A i \in 1..4 - 2 + 1 : SubSeq(d, 2, 4)[i] = d[2 + i - 1]
      BY ONLY <2>2, <3>1, SubSeqProperties
    <3>. QED
      BY <3>2
  <2>4. /\ SubSeq(r, 2, 4) \in Seq(0..255) /\ Len(SubSeq(r, 2, 4)) = 3
        /\ \A i \in 1..3 : SubSeq(r, 2, 4)[i] = r[2 + i - 1]
    <3>1. \A i \in 2..4 : r[i] \in 0..255
      BY <2>1
    <3>2. /\ SubSeq(r, 2, 4) \in Seq(0..255)
          /\ Len(SubSeq(r, 2, 4)) = IF 2 <= 4 THEN 4 - 2 + 1 ELSE 0
          /\ \A i \in 1..4 - 2 + 1 : SubSeq(r, 2, 4)[i] = r[2 + i - 1]
      BY ONLY <2>2, <3>1, SubSeqProperties
    <3>. QED
      BY <3>2
  <2>. DEFINE x == SubSeq(d, 2, 4)
              y == SubSeq(r, 2, 4)
  <2>5. x \in Seq(0..255) /\ y \in Seq(0..255) /\ Len(x) = Len(y)
        /\ \A i \in 1..Len(x) : x[i] = y[i]
    <3>1. \A i \in 1..3 : 2 + i - 1 \in 2..4
      OBVIOUS
    <3>. QED
      BY <2>1, <2>3, <2>4, <3>1
  <2>. HIDE DEF x, y
  <2>6. x = y
    BY ONLY <2>5, SeqEqual
  <2>. QED
    BY <1>2, <2>6 DEF x, y, HasOui, BlockTag
<1>4. CASE ~(len >= 4)
  BY <1>1, <1>4, SMTT(30) DEF HasOui, len
<1>. QED
  BY <1>3, <1>4

\* Taking the flags out of a byte.
LEMMA FlagBits ==
    \A x \in 0..255 :
        LET two == 2 * Bit(x, 2)
            more == 8 * Bit(x, 8) + 32 * Bit(x, 32) + 64 * Bit(x, 64)
        IN  /\ x - two - more \in 0..255 /\ Bit(x - two - more, 2) = 0
            /\ x - two - 0 \in 0..255 /\ Bit(x - two - 0, 2) = 0
            /\ x - 0 - more \in 0..255 /\ Bit(x - 0 - more, 2) = Bit(x, 2)
            /\ x - 0 - 0 \in 0..255 /\ Bit(x - 0 - 0, 2) = Bit(x, 2)
<1>1. ASSUME NEW x \in 0..255
      PROVE  \E a, b, c, d, e, f, g, h \in 0..1 :
                x = a + 2 * b + 4 * c + 8 * d + 16 * e + 32 * f + 64 * g + 128 * h
  <2>1. \A n \in Nat : \E q \in Nat, a \in 0..1 : n = a + 2 * q
    <3>1. \A n \in Nat : n % 2 \in 0..1 /\ n \div 2 \in Nat /\ n = (n % 2) + 2 * (n \div 2)
      OBVIOUS
    <3>. QED
      BY <3>1
  <2>2. PICK q1 \in Nat, a \in 0..1 : x = a + 2 * q1
    BY <2>1, x \in Nat
  <2>3. PICK q2 \in Nat, b \in 0..1 : q1 = b + 2 * q2
    BY <2>1
  <2>4. PICK q3 \in Nat, c \in 0..1 : q2 = c + 2 * q3
    BY <2>1
  <2>5. PICK q4 \in Nat, d \in 0..1 : q3 = d + 2 * q4
    BY <2>1
  <2>6. PICK q5 \in Nat, e \in 0..1 : q4 = e + 2 * q5
    BY <2>1
  <2>7. PICK q6 \in Nat, f \in 0..1 : q5 = f + 2 * q6
    BY <2>1
  <2>8. PICK q7 \in Nat, g \in 0..1 : q6 = g + 2 * q7
    BY <2>1
  <2>9. q7 \in 0..1
    BY <2>2, <2>3, <2>4, <2>5, <2>6, <2>7, <2>8
  <2>10. x = a + 2 * b + 4 * c + 8 * d + 16 * e + 32 * f + 64 * g + 128 * q7
    BY <2>2, <2>3, <2>4, <2>5, <2>6, <2>7, <2>8
  <2>. QED
    BY <2>9, <2>10
<1>2. ASSUME NEW a \in 0..1, NEW b \in 0..1, NEW c \in 0..1, NEW d \in 0..1, NEW e \in 0..1,
             NEW f \in 0..1, NEW g \in 0..1, NEW h \in 0..1, NEW x \in Int,
             x = a + 2 * b + 4 * c + 8 * d + 16 * e + 32 * f + 64 * g + 128 * h
      PROVE  Bit(x, 2) = b /\ Bit(x, 8) = d /\ Bit(x, 32) = f /\ Bit(x, 64) = g
  <2>1. x \div 2 = b + 2 * (c + 2 * d + 4 * e + 8 * f + 16 * g + 32 * h)
    BY <1>2
  <2>2. x \div 8 = d + 2 * (e + 2 * f + 4 * g + 8 * h)
    BY <1>2
  <2>3. x \div 32 = f + 2 * (g + 2 * h)
    BY <1>2
  <2>4. x \div 64 = g + 2 * h
    BY <1>2
  <2>5. \A y \in 0..1, q \in Nat : (y + 2 * q) % 2 = y
    OBVIOUS
  <2>6. /\ c + 2 * d + 4 * e + 8 * f + 16 * g + 32 * h \in Nat
        /\ e + 2 * f + 4 * g + 8 * h \in Nat /\ g + 2 * h \in Nat /\ h \in Nat
    BY SMTT(30)
  <2>. QED
    BY ONLY <2>1, <2>2, <2>3, <2>4, <2>5, <2>6, b \in 0..1, d \in 0..1, f \in 0..1, g \in 0..1
    DEF Bit
<1>3. ASSUME NEW x \in 0..255
      PROVE  LET two == 2 * Bit(x, 2)
                 more == 8 * Bit(x, 8) + 32 * Bit(x, 32) + 64 * Bit(x, 64)
             IN  /\ x - two - more \in 0..255 /\ Bit(x - two - more, 2) = 0
                 /\ x - two - 0 \in 0..255 /\ Bit(x - two - 0, 2) = 0
                 /\ x - 0 - more \in 0..255 /\ Bit(x - 0 - more, 2) = Bit(x, 2)
                 /\ x - 0 - 0 \in 0..255 /\ Bit(x - 0 - 0, 2) = Bit(x, 2)
  <2>1. PICK a \in 0..1, b \in 0..1, c \in 0..1, d \in 0..1, e \in 0..1,
             f \in 0..1, g \in 0..1, h \in 0..1 :
                x = a + 2 * b + 4 * c + 8 * d + 16 * e + 32 * f + 64 * g + 128 * h
    BY <1>1
  <2>2. Bit(x, 2) = b /\ Bit(x, 8) = d /\ Bit(x, 32) = f /\ Bit(x, 64) = g
    BY <1>2, <2>1
  <2>. DEFINE more == 8 * d + 32 * f + 64 * g
  <2>3. /\ x - 2 * b - more = a + 2 * 0 + 4 * c + 8 * 0 + 16 * e + 32 * 0 + 64 * 0 + 128 * h
        /\ x - 2 * b - 0 = a + 2 * 0 + 4 * c + 8 * d + 16 * e + 32 * f + 64 * g + 128 * h
        /\ x - 0 - more = a + 2 * b + 4 * c + 8 * 0 + 16 * e + 32 * 0 + 64 * 0 + 128 * h
        /\ x - 0 - 0 = x
        /\ x - 2 * b - more \in 0..255 /\ x - 2 * b - 0 \in 0..255 /\ x - 0 - more \in 0..255
        /\ 0 \in 0..1
    BY <2>1
  <2>. HIDE DEF more
  <2>4. Bit(x - 2 * b - more, 2) = 0
    BY <1>2, <2>3
  <2>5. Bit(x - 2 * b - 0, 2) = 0
    BY <1>2, <2>3
  <2>6. Bit(x - 0 - more, 2) = b
    BY <1>2, <2>3
  <2>. QED
    BY ONLY <2>2, <2>3, <2>4, <2>5, <2>6, ZenonT(60) DEF more
<1>. QED
  BY <1>3, Zenon

\* r is d but for bytes that do not tell what kind of data block it is.
SameKind(d, r) ==
    /\ r \in DataBlock /\ Len(r) = Len(d)
    /\ \A i \in 1..Len(d) : i <= 8 => r[i] = d[i]

\* It is of the same kind.
LEMMA SameKindKept ==
    ASSUME NEW d \in DataBlock, NEW r, SameKind(d, r)
    PROVE  /\ IsVideo(r) <=> IsVideo(d)
           /\ IsVideo420(r) <=> IsVideo420(d)
           /\ IsHf(r) <=> IsHf(d)
           /\ \A oui : HasOui(r, oui) <=> HasOui(d, oui)
<1>1. r \in DataBlock /\ Len(r) = Len(d) /\ \A i \in 1..Len(d) : i <= 8 => r[i] = d[i]
  BY DEF SameKind
<1>2. Len(d) \in 2..32
  BY DataBlockParts
<1>3. \A oui : HasOui(r, oui) <=> HasOui(d, oui)
  <2>1. \A i \in 1..Len(d) : i <= 4 => r[i] = d[i]
    BY <1>1, <1>2
  <2>. QED
    BY <1>1, <2>1, OuiSame
<1>4. r[1] = d[1] /\ r[2] = d[2]
  <2>1. \A n \in 2..32 : 1 \in 1..n /\ 2 \in 1..n
    OBVIOUS
  <2>. QED
    BY <1>1, <1>2, <2>1
<1>5. BlockTag(r) = BlockTag(d)
  BY <1>4 DEF BlockTag
<1>6. IsVideo(r) <=> IsVideo(d)
  BY <1>5 DEF IsVideo
<1>7. IsVideo420(r) <=> IsVideo420(d)
  BY <1>1, <1>4, <1>5 DEF IsVideo420
<1>8. IsHf(r) <=> IsHf(d)
  BY <1>1, <1>3, <1>4, <1>5 DEF IsHf
<1>. QED
  BY <1>3, <1>6, <1>7, <1>8

\* Neither of the other kinds is an HDMI Forum block, FreeSync is none.
LEMMA Kinds ==
    ASSUME NEW d
    PROVE  /\ IsVideo(d) => ~IsVideo420(d) /\ ~IsHf(d) /\ ~HasOui(d, FreeSync)
           /\ IsVideo420(d) => ~IsHf(d) /\ ~HasOui(d, FreeSync)
           /\ IsHf(d) => ~HasOui(d, FreeSync)
<1>1. <<216, 93, 196>> # <<26, 0, 0>>
  OBVIOUS
<1>. QED
  BY <1>1 DEF IsVideo, IsVideo420, IsHf, HasOui, FreeSync

\* The filter of the HDMI Forum block: a feature stays when the display has it.
LEMMA HfBlock ==
    ASSUME NEW d \in DataBlock, NEW allm \in BOOLEAN, NEW vrr \in BOOLEAN
    PROVE  LET r == FilterHfScdbCapabilities(d, Len(d) - 1, allm, vrr)
           IN  /\ SameKind(d, r)
               /\ HasFeature(r, "allm") <=> HasFeature(d, "allm") /\ allm
               /\ HasFeature(r, "vrr") <=> HasFeature(d, "vrr") /\ vrr
<1>. DEFINE n == Len(d)
            noAllm == n - 1 >= 8 /\ ~allm
            noVrr == n - 1 >= 10 /\ ~vrr
            two(x) == IF noAllm THEN 2 * Bit(x, 2) ELSE 0
            more(x) == IF noVrr THEN 8 * Bit(x, 8) + 32 * Bit(x, 32) + 64 * Bit(x, 64) ELSE 0
            flags(x) == x - two(x) - more(x)
            r == FilterHfScdbCapabilities(d, Len(d) - 1, allm, vrr)
<1>1. n \in 2..32 /\ d \in [1..n -> 0..255] /\ d[1] % 32 = n - 1
  BY ONLY DataBlockParts, SMTT(30)
<1>2. \A x \in 0..255 : flags(x) \in 0..255 /\ Bit(flags(x), 2) = IF noAllm THEN 0 ELSE Bit(x, 2)
  <2>1. ASSUME NEW x \in 0..255
        PROVE  flags(x) \in 0..255 /\ Bit(flags(x), 2) = IF noAllm THEN 0 ELSE Bit(x, 2)
    <3>1. CASE noAllm /\ noVrr
      BY ONLY <3>1, FlagBits, ZenonT(60)
    <3>2. CASE noAllm /\ ~noVrr
      BY ONLY <3>2, FlagBits, ZenonT(60)
    <3>3. CASE ~noAllm /\ noVrr
      BY ONLY <3>3, FlagBits, ZenonT(60)
    <3>4. CASE ~noAllm /\ ~noVrr
      BY ONLY <3>4, FlagBits, Zenon
    <3>. QED
      BY <3>1, <3>2, <3>3, <3>4, Zenon
  <2>. QED
    BY <2>1, Zenon
<1>3. r = [i \in 1..n |-> CASE i = 9 -> flags(d[i])
                            [] i \in {10, 11} -> IF noVrr THEN 0 ELSE d[i]
                            [] OTHER -> d[i]]
  <2>1. DOMAIN d = 1..n
    BY <1>1
  <2>. QED
    BY <2>1 DEF FilterHfScdbCapabilities
<1>4. (noAllm <=> n >= 9 /\ ~allm) /\ (noVrr <=> n >= 11 /\ ~vrr)
  BY <1>1
<1>. HIDE DEF flags, noAllm, noVrr, r
<1>5. ASSUME NEW i \in 1..n
      PROVE  /\ i = 9 => r[i] = flags(d[i])
             /\ i \in {10, 11} => r[i] = IF noVrr THEN 0 ELSE d[i]
             /\ i \notin {9, 10, 11} => r[i] = d[i]
             /\ r[i] \in 0..255
  <2>. HIDE DEF n
  <2>1. d[i] \in 0..255
    BY ONLY <1>1, Zenon
  <2>2. flags(d[i]) \in 0..255
    BY <1>2, <2>1
  <2>3. CASE i = 9
    BY <1>3, <2>2, <2>3
  <2>4. CASE i \in {10, 11}
    BY <1>3, <2>1, <2>4
  <2>5. CASE i \notin {9, 10, 11}
    BY <1>3, <2>1, <2>5
  <2>. QED
    BY <2>3, <2>4, <2>5
<1>6. r \in [1..n -> 0..255]
  <2>. HIDE DEF n
  <2>1. r = [i \in 1..n |-> r[i]]
    BY <1>3
  <2>. QED
    BY ONLY <1>5, <2>1, Zenon
<1>7. r \in Seq(0..255) /\ Len(r) = n
  <2>1. n \in Nat
    BY <1>1
  <2>. HIDE DEF n
  <2>. QED
    BY ONLY <1>6, <2>1, BytesSeq
<1>8. \A i \in 1..n : i <= 8 => r[i] = d[i]
  BY <1>1, <1>5
<1>9. r[1] = d[1]
  <2>. HIDE DEF n
  <2>1. 1 \in 1..n /\ 1 <= 8
    BY <1>1
  <2>. QED
    BY <1>8, <2>1
<1>10. r \in DataBlock
  <2>. HIDE DEF n
  <2>1. Len(r) \in 2..32 /\ r[1] % 32 = Len(r) - 1
    BY <1>1, <1>7, <1>9
  <2>. QED
    BY <1>7, <2>1 DEF DataBlock
<1>11. SameKind(d, r)
  BY <1>7, <1>8, <1>10 DEF SameKind
<1>12. HasFeature(r, "allm") <=> HasFeature(d, "allm") /\ allm
  <2>1. HasFeature(r, "allm") <=> n >= 9 /\ Bit(r[9], 2) = 1
    BY <1>7 DEF HasFeature
  <2>2. HasFeature(d, "allm") <=> n >= 9 /\ Bit(d[9], 2) = 1
    BY DEF HasFeature
  <2>. HIDE DEF n
  <2>3. CASE n >= 9
    <3>1. 9 \in 1..n
      BY ONLY <1>1, <2>3
    <3>2. r[9] = flags(d[9]) /\ d[9] \in 0..255
      BY ONLY <1>1, <1>5, <3>1, SMTT(30)
    <3>3. Bit(r[9], 2) = IF noAllm THEN 0 ELSE Bit(d[9], 2)
      BY <1>2, <3>2
    <3>. QED
      BY <1>4, <2>1, <2>2, <2>3, <3>3
  <2>. QED
    BY <2>1, <2>2, <2>3
<1>13. HasFeature(r, "vrr") <=> HasFeature(d, "vrr") /\ vrr
  <2>1. HasFeature(r, "vrr") <=>
           n >= 11 /\ r[10] % 64 > 0 /\ 256 * (r[10] \div 64) + r[11] > 0
    BY <1>7 DEF HasFeature
  <2>2. HasFeature(d, "vrr") <=>
           n >= 11 /\ d[10] % 64 > 0 /\ 256 * (d[10] \div 64) + d[11] > 0
    BY DEF HasFeature
  <2>. HIDE DEF n
  <2>3. CASE n >= 11
    <3>1. 10 \in 1..n /\ 11 \in 1..n
      BY ONLY <1>1, <2>3
    <3>2. r[10] = (IF noVrr THEN 0 ELSE d[10]) /\ r[11] = (IF noVrr THEN 0 ELSE d[11])
      BY <1>5, <3>1
    <3>3. CASE vrr
      <4>1. r[10] = d[10] /\ r[11] = d[11]
        BY <1>4, <3>2, <3>3
      <4>. QED
        BY <2>1, <2>2, <3>3, <4>1
    <3>4. CASE ~vrr
      <4>1. r[10] = 0
        BY <1>4, <2>3, <3>2, <3>4
      <4>2. ~(0 % 64 > 0)
        OBVIOUS
      <4>. QED
        BY <2>1, <3>4, <4>1, <4>2
    <3>. QED
      BY <3>3, <3>4
  <2>. QED
    BY <2>1, <2>2, <2>3
<1>. QED
  BY <1>11, <1>12, <1>13 DEF r, n

\* The edits of the filter's three loops.
VicsEdit(vics) == [d \in DataBlock |-> FilterVics(d, vics)]
HfEdit(allm, vrr) ==
    [d \in DataBlock |-> IF IsHf(d) THEN FilterHfScdbCapabilities(d, Len(d) - 1, allm, vrr)
                         ELSE d]
OuiEdit(oui) == [d \in DataBlock |-> IF HasOui(d, oui) THEN <<>> ELSE d]

\* They edit.
LEMMA Editors ==
    ASSUME NEW vics, NEW allm \in BOOLEAN, NEW vrr \in BOOLEAN, NEW oui
    PROVE  Editor(VicsEdit(vics)) /\ Editor(HfEdit(allm, vrr)) /\ Editor(OuiEdit(oui))
<1>1. \A d \in DataBlock : Len(d) \in 2..32 /\ Len(d) <= Len(d)
  <2>1. \A d \in DataBlock : Len(d) \in 2..32
    BY DataBlockParts
  <2>2. \A n \in 2..32 : n <= n
    OBVIOUS
  <2>. QED
    BY <2>1, <2>2
<1>2. Editor(VicsEdit(vics))
  <2>1. \A d \in DataBlock : /\ FilterVics(d, vics) \in DataBlock \cup {<<>>}
                             /\ Len(FilterVics(d, vics)) <= Len(d)
    BY FilterVicsEdit
  <2>. QED
    BY <2>1 DEF Editor, VicsEdit
<1>3. Editor(HfEdit(allm, vrr))
  <2>. DEFINE e(d) == IF IsHf(d) THEN FilterHfScdbCapabilities(d, Len(d) - 1, allm, vrr) ELSE d
  <2>1. ASSUME NEW d \in DataBlock PROVE e(d) \in DataBlock /\ Len(e(d)) <= Len(d)
    <3>1. SameKind(d, FilterHfScdbCapabilities(d, Len(d) - 1, allm, vrr))
      BY HfBlock
    <3>2. CASE IsHf(d)
      <4>1. e(d) \in DataBlock /\ Len(e(d)) = Len(d)
        BY <3>1, <3>2 DEF SameKind
      <4>. HIDE DEF e
      <4>. QED
        BY <1>1, <4>1
    <3>3. CASE ~IsHf(d)
      BY <1>1, <3>3
    <3>. QED
      BY <3>2, <3>3
  <2>2. HfEdit(allm, vrr) = [d \in DataBlock |-> e(d)]
    BY DEF HfEdit
  <2>. HIDE DEF e
  <2>. QED
    BY <2>1, <2>2 DEF Editor
<1>4. Editor(OuiEdit(oui))
  <2>1. Len(<<>>) = 0
    OBVIOUS
  <2>2. \A d \in DataBlock : OuiEdit(oui)[d] = IF HasOui(d, oui) THEN <<>> ELSE d
    BY DEF OuiEdit
  <2>3. OuiEdit(oui) \in [DataBlock -> DataBlock \cup {<<>>}]
    BY DEF OuiEdit
  <2>4. ASSUME NEW d \in DataBlock PROVE Len(OuiEdit(oui)[d]) <= Len(d)
    <3>1. CASE HasOui(d, oui)
      <4>1. Len(OuiEdit(oui)[d]) = 0
        BY <2>1, <2>2, <3>1
      <4>2. Len(d) \in 2..32
        BY <1>1
      <4>. QED
        BY <4>1, <4>2
    <3>2. CASE ~HasOui(d, oui)
      BY <1>1, <2>2, <3>2
    <3>. QED
      BY <3>1, <3>2
  <2>. QED
    BY <2>3, <2>4 DEF Editor
<1>. QED
  BY <1>2, <1>3, <1>4

(***************************************************************************)
(* The detailed timings.                                                   *)
(***************************************************************************)

\* Where a slot is.
LEMMA SlotAt ==
    ASSUME NEW start \in 0..127, NEW end \in 0..127, NEW at \in TimingSlots(start, end)
    PROVE  at \in start..end - 18 /\ \E k \in 0..7 : at = start + 18 * k
<1>1. at \in start..end /\ (at - start) % 18 = 0 /\ at + 18 <= end
  BY DEF TimingSlots
<1>2. \A n \in Nat : n % 18 = 0 => n = 18 * (n \div 18) /\ n \div 18 \in Nat
  OBVIOUS
<1>3. at - start \in Nat /\ at - start <= 127
  BY <1>1
<1>4. PICK k \in Nat : at - start = 18 * k
  BY <1>1, <1>2, <1>3
<1>5. k \in 0..7 /\ at = start + 18 * k
  BY <1>1, <1>3, <1>4
<1>. QED
  BY <1>1, <1>5

\* Where there is one.
LEMMA SlotOf ==
    ASSUME NEW start \in 0..127, NEW end \in 0..127, NEW k \in Nat,
           start + 18 * k + 18 <= end
    PROVE  start + 18 * k \in TimingSlots(start, end)
<1>1. \A m \in Nat : (18 * m) % 18 = 0
  OBVIOUS
<1>2. (start + 18 * k) - start = 18 * k
  OBVIOUS
<1>3. start + 18 * k \in start..end
  OBVIOUS
<1>4. ((start + 18 * k) - start) % 18 = 0
  BY <1>1, <1>2
<1>. QED
  BY <1>3, <1>4 DEF TimingSlots

\* The slots do not overlap.
LEMMA SlotsApart ==
    ASSUME NEW start \in 0..127, NEW end \in 0..127,
           NEW at \in TimingSlots(start, end), NEW a \in TimingSlots(start, end),
           NEW i \in at..at + 17, i \in a..a + 17
    PROVE  a = at
<1>1. PICK k \in 0..7 : at = start + 18 * k
  BY SlotAt, ZenonT(60)
<1>2. PICK m \in 0..7 : a = start + 18 * m
  BY SlotAt, Zenon
<1>3. k = m
  BY <1>1, <1>2
<1>. QED
  BY <1>1, <1>2, <1>3, SMTT(30)

\* Bytes that are all 0 are no timing.
NoBytes == [i \in 0..17 |-> 0]
\* Bytes of zero are no timing.
LEMMA NoTiming == ~IsTiming(NoBytes)
  BY DEF NoBytes, IsTiming, PixelClock

\* c is b but for the bytes from start to end.
Outside(b, c, start, end) == \A i \in 0..127 : i < start \/ i >= end => c[i] = b[i]

\* c has the timings of b whose mode is in modes.
SlotsFiltered(b, c, start, end, modes) ==
    \A at \in TimingSlots(start, end) :
        Slot(c, at) = IF /\ IsTiming(Slot(b, at))
                         /\ DetailedTimingToMode(Slot(b, at)) \notin modes
                      THEN NoBytes ELSE Slot(b, at)

\* What the filter does to the slots, and that it does nothing else.
LEMMA FilterTimings ==
    ASSUME NEW b \in ByteBlocks, NEW start \in 0..127, NEW end \in 0..127, NEW modes,
           NEW c, c = FilterDetailedTimings(b, start, end, modes)
    PROVE  /\ c \in ByteBlocks /\ Outside(b, c, start, end)
           /\ SlotsFiltered(b, c, start, end, modes)
<1>. DEFINE slots == TimingSlots(start, end)
            cut == {at \in slots : /\ IsTiming(Slot(b, at))
                                   /\ DetailedTimingToMode(Slot(b, at)) \notin modes}
<1>1. \A at \in slots : at \in start..end - 18 /\ \A i \in at..at + 17 : i \in start..end - 1
  <2>1. \A at \in slots : at \in start..end - 18
    BY SlotAt, Zenon
  <2>. HIDE DEF slots
  <2>. QED
    BY <2>1, SMTT(30)
<1>2. c = [i \in 0..127 |-> IF \E at \in cut : i \in at..at + 17 THEN 0 ELSE b[i]]
  BY DEF FilterDetailedTimings
<1>3. cut \subseteq slots
  OBVIOUS
<1>4. \A at \in slots : at \in cut <=> /\ IsTiming(Slot(b, at))
                                       /\ DetailedTimingToMode(Slot(b, at)) \notin modes
  BY SMTT(30)
<1>5. \A at, a \in slots : \A i \in at..at + 17 : i \in a..a + 17 => a = at
  BY SlotsApart, ZenonT(60)
<1>. HIDE DEF cut, slots
<1>6. c \in ByteBlocks
  <2>1. ASSUME NEW i \in 0..127
        PROVE  (IF \E at \in cut : i \in at..at + 17 THEN 0 ELSE b[i]) \in 0..255
    <3>1. b[i] \in 0..255
      BY ONLY b \in ByteBlocks, i \in 0..127, Bytewise, Zenon
    <3>2. 0 \in 0..255
      OBVIOUS
    <3>. QED
      BY <3>1, <3>2
  <2>. QED
    BY ONLY <1>2, <2>1, ZenonT(60) DEF ByteBlocks
<1>7. ASSUME NEW i \in 0..127, i < start \/ i >= end PROVE c[i] = b[i]
  <2>1. ~\E at \in cut : i \in at..at + 17
    BY <1>1, <1>3, <1>7
  <2>. QED
    BY <1>2, <2>1
<1>8. ASSUME NEW at \in slots
      PROVE  Slot(c, at) = IF at \in cut THEN NoBytes ELSE Slot(b, at)
  <2>1. \A i \in 0..17 : at + i \in 0..127 /\ at + i \in at..at + 17
    BY ONLY <1>1
  <2>2. CASE at \in cut
    <3>1. \A i \in 0..17 : c[at + i] = 0
      BY ONLY <1>2, <2>1, <2>2, Zenon
    <3>. QED
      BY <2>2, <3>1 DEF Slot, NoBytes
  <2>3. CASE at \notin cut
    <3>1. ASSUME NEW i \in 0..17 PROVE c[at + i] = b[at + i]
      <4>1. ~\E a \in cut : at + i \in a..a + 17
        <5>1. ASSUME NEW a \in cut, at + i \in a..a + 17 PROVE FALSE
          <6>1. a = at
            BY <1>3, <1>5, <2>1, <5>1
          <6>. QED
            BY <2>3, <6>1
        <5>. QED
          BY <5>1
      <4>. QED
        BY <1>2, <2>1, <4>1
    <3>. QED
      BY <2>3, <3>1 DEF Slot
  <2>. QED
    BY <2>2, <2>3
<1>. QED
  BY <1>4, <1>6, <1>7, <1>8 DEF Outside, SlotsFiltered, slots

OnlyModes(b, c, start, end, modes) ==
    Timings(c, start, end) = Timings(b, start, end) \cap modes

\* The modes that are left are the ones in modes.
LEMMA TimingsFiltered ==
    ASSUME NEW b \in ByteBlocks, NEW start \in 0..127, NEW end \in 0..127, NEW modes,
           NEW c, c = FilterDetailedTimings(b, start, end, modes)
    PROVE  OnlyModes(b, c, start, end, modes)
<1>. DEFINE slots == TimingSlots(start, end)
<1>1. \A at \in slots : Slot(c, at) = IF /\ IsTiming(Slot(b, at))
                                         /\ DetailedTimingToMode(Slot(b, at)) \notin modes
                                      THEN NoBytes ELSE Slot(b, at)
  <2>1. SlotsFiltered(b, c, start, end, modes)
    BY FilterTimings, Zenon
  <2>. QED
    BY <2>1, SMTT(30) DEF SlotsFiltered
<1>2. Timings(c, start, end) = {DetailedTimingToMode(s) : s \in {Slot(c, at) : at \in
          {a \in slots : IsTiming(Slot(c, a))}}}
  BY DEF Timings
<1>3. Timings(b, start, end) = {DetailedTimingToMode(s) : s \in {Slot(b, at) : at \in
          {a \in slots : IsTiming(Slot(b, a))}}}
  BY DEF Timings
<1>. HIDE DEF slots
<1>4. \A at \in slots :
         /\ IsTiming(Slot(c, at)) <=> /\ IsTiming(Slot(b, at))
                                      /\ DetailedTimingToMode(Slot(b, at)) \in modes
         /\ IsTiming(Slot(c, at)) => Slot(c, at) = Slot(b, at)
  BY <1>1, NoTiming
<1>5. \A m : m \in Timings(c, start, end) <=>
         \E at \in slots : IsTiming(Slot(c, at)) /\ m = DetailedTimingToMode(Slot(c, at))
  BY <1>2
<1>6. \A m : m \in Timings(b, start, end) <=>
         \E at \in slots : IsTiming(Slot(b, at)) /\ m = DetailedTimingToMode(Slot(b, at))
  BY <1>3
<1>7. \A m : m \in Timings(c, start, end) <=> m \in Timings(b, start, end) /\ m \in modes
  BY <1>4, <1>5, <1>6
<1>. QED
  BY <1>7 DEF OnlyModes

\* What a set of timings is, by its slots.
LEMMA TimingsBySlots ==
    ASSUME NEW b, NEW start, NEW end
    PROVE  \A m : m \in Timings(b, start, end) <=>
              \E at \in TimingSlots(start, end) :
                 IsTiming(Slot(b, at)) /\ m = DetailedTimingToMode(Slot(b, at))
  BY DEF Timings

\* A block with the same bytes where they are has the same.
LEMMA TimingsSame ==
    ASSUME NEW b, NEW c, NEW start \in 0..127, NEW end \in 0..127,
           \A i \in start..end - 1 : c[i] = b[i]
    PROVE  Timings(c, start, end) = Timings(b, start, end)
<1>1. ASSUME NEW at \in TimingSlots(start, end) PROVE Slot(c, at) = Slot(b, at)
  <2>1. at \in start..end - 18
    BY SlotAt, Zenon
  <2>2. \A i \in 0..17 : at + i \in start..end - 1
    BY <2>1
  <2>. QED
    BY <2>2, SMTT(30) DEF Slot
<1>2. \A m : m \in Timings(c, start, end) <=> m \in Timings(b, start, end)
  BY <1>1, TimingsBySlots
<1>. QED
  BY <1>2

(***************************************************************************)
(* The three loops one after the other.                                    *)
(***************************************************************************)

\* What is left of a data block when they are through with it.
Out(d, vics, allm, vrr) ==
    LET v == VicsEdit(vics)[d]
        h == HfEdit(allm, vrr)[v]
    IN  IF v = <<>> \/ (~vrr /\ HasOui(h, FreeSync)) THEN <<>> ELSE h

\* A data block is of one of five kinds.
Other(d) == ~IsVideo(d) /\ ~IsVideo420(d) /\ ~IsHf(d) /\ ~HasOui(d, FreeSync)

\* A block of VICs is left with the ones in vics.
VicsLeft(d, r, vics) ==
    \/ r = <<>> /\ Vics(d) \cap vics = {}
    \/ /\ r \in DataBlock /\ Vics(r) = Vics(d) \cap vics
       /\ IsVideo(r) <=> IsVideo(d)
       /\ IsVideo420(r) <=> IsVideo420(d)

FeaturesLeft(d, r, allm, vrr) ==
    /\ r \in DataBlock /\ IsHf(r)
    /\ HasFeature(r, "allm") <=> HasFeature(d, "allm") /\ allm
    /\ HasFeature(r, "vrr") <=> HasFeature(d, "vrr") /\ vrr

\* What the three loops of the filter leave of a data block, case by case.
LEMMA OutOf ==
    ASSUME NEW d \in DataBlock, NEW vics, NEW allm \in BOOLEAN, NEW vrr \in BOOLEAN
    PROVE  LET r == Out(d, vics, allm, vrr)
           IN  /\ r \in DataBlock \cup {<<>>}
               /\ IsVideo(d) \/ IsVideo420(d) => VicsLeft(d, r, vics)
               /\ IsHf(d) => FeaturesLeft(d, r, allm, vrr)
               /\ HasOui(d, FreeSync) => r = IF vrr THEN d ELSE <<>>
               /\ Other(d) => r = d
<1>. DEFINE v == FilterVics(d, vics)
            h == HfEdit(allm, vrr)[v]
            r == Out(d, vics, allm, vrr)
<1>1. r = IF v = <<>> \/ (~vrr /\ HasOui(h, FreeSync)) THEN <<>> ELSE h
  <2>1. VicsEdit(vics)[d] = v
    BY DEF VicsEdit
  <2>. HIDE DEF v
  <2>. QED
    BY <2>1 DEF Out
<1>2. /\ v \in DataBlock \cup {<<>>}
      /\ ~IsVideo(d) /\ ~IsVideo420(d) => v = d
      /\ IsVideo(d) \/ IsVideo420(d) =>
           /\ v = <<>> => Vics(d) \cap vics = {}
           /\ v # <<>> => /\ Vics(v) = Vics(d) \cap vics
                          /\ IsVideo(v) <=> IsVideo(d)
                          /\ IsVideo420(v) <=> IsVideo420(d)
  BY FilterVicsEdit
<1>3. \A c \in DataBlock : HfEdit(allm, vrr)[c] =
          IF IsHf(c) THEN FilterHfScdbCapabilities(c, Len(c) - 1, allm, vrr) ELSE c
  BY DEF HfEdit
<1>4. d # <<>>
  BY DataBlockParts
<1>. HIDE DEF v, r
<1>5. CASE IsVideo(d) \/ IsVideo420(d)
  <2>1. ~IsHf(d) /\ ~HasOui(d, FreeSync) /\ ~Other(d)
    BY <1>5, Kinds DEF Other
  <2>2. CASE v = <<>>
    <3>1. VicsLeft(d, r, vics) /\ r = <<>>
      BY <1>1, <1>2, <1>5, <2>2 DEF VicsLeft
    <3>. QED
      BY <2>1, <3>1 DEF r
  <2>3. CASE v # <<>>
    <3>1. v \in DataBlock /\ (IsVideo(v) \/ IsVideo420(v))
      BY <1>2, <1>5, <2>3
    <3>2. ~IsHf(v) /\ ~HasOui(v, FreeSync)
      BY <3>1, Kinds
    <3>3. r = v
      BY <1>1, <1>3, <2>3, <3>1, <3>2
    <3>4. VicsLeft(d, r, vics)
      BY <1>2, <1>5, <2>3, <3>1, <3>3 DEF VicsLeft
    <3>. QED
      BY <2>1, <3>1, <3>3, <3>4 DEF r
  <2>. QED
    BY <2>2, <2>3
<1>6. CASE IsHf(d)
  <2>1. ~IsVideo(d) /\ ~IsVideo420(d) /\ ~HasOui(d, FreeSync) /\ ~Other(d)
    BY <1>6, Kinds DEF Other
  <2>2. v = d /\ v # <<>>
    BY <1>2, <1>4, <2>1
  <2>3. h = FilterHfScdbCapabilities(d, Len(d) - 1, allm, vrr)
    BY <1>3, <1>6, <2>2
  <2>4. /\ SameKind(d, h)
        /\ HasFeature(h, "allm") <=> HasFeature(d, "allm") /\ allm
        /\ HasFeature(h, "vrr") <=> HasFeature(d, "vrr") /\ vrr
    BY <2>3, HfBlock
  <2>. HIDE DEF h
  <2>5. h \in DataBlock /\ IsHf(h) /\ ~HasOui(h, FreeSync)
    BY <1>6, <2>1, <2>4, SameKindKept DEF SameKind
  <2>6. r = h
    BY <1>1, <2>2, <2>5
  <2>7. FeaturesLeft(d, r, allm, vrr)
    BY <2>4, <2>5, <2>6 DEF FeaturesLeft
  <2>. QED
    BY <2>1, <2>5, <2>6, <2>7 DEF r
<1>7. CASE ~IsVideo(d) /\ ~IsVideo420(d) /\ ~IsHf(d)
  <2>1. v = d /\ v # <<>> /\ h = d
    BY <1>2, <1>3, <1>4, <1>7
  <2>. HIDE DEF h
  <2>2. r = IF ~vrr /\ HasOui(d, FreeSync) THEN <<>> ELSE d
    BY <1>1, <2>1
  <2>. QED
    BY <1>7, <2>2 DEF Other, r
<1>. QED
  BY <1>5, <1>6, <1>7

\* The data blocks after the three loops.
Edited(data, vics, allm, vrr) ==
    LET capable == Image(Image(data, VicsEdit(vics)), HfEdit(allm, vrr))
    IN  IF vrr THEN capable ELSE Image(capable, OuiEdit(FreeSync))

Outs(data, left, vics, allm, vrr) ==
    \A x : x \in left <=> x # <<>> /\ \E d \in data : x = Out(d, vics, allm, vrr)

\* And of a set of them.
LEMMA EditedOut ==
    ASSUME NEW data \in SUBSET DataBlock, NEW vics, NEW allm \in BOOLEAN, NEW vrr \in BOOLEAN
    PROVE  Outs(data, Edited(data, vics, allm, vrr), vics, allm, vrr)
<1>. DEFINE e1 == VicsEdit(vics)
            e2 == HfEdit(allm, vrr)
            e3 == OuiEdit(FreeSync)
            first == Image(data, e1)
            second == Image(first, e2)
<1>1. /\ e1 \in [DataBlock -> DataBlock \cup {<<>>}]
      /\ e2 \in [DataBlock -> DataBlock \cup {<<>>}]
  BY Editors DEF Editor
<1>2. \A c \in DataBlock : e3[c] = IF HasOui(c, FreeSync) THEN <<>> ELSE c
  BY DEF OuiEdit
<1>3. ASSUME NEW c \in DataBlock PROVE e2[c] \in DataBlock /\ e2[c] # <<>>
  <2>1. e2[c] = IF IsHf(c) THEN FilterHfScdbCapabilities(c, Len(c) - 1, allm, vrr) ELSE c
    BY DEF HfEdit
  <2>2. SameKind(c, FilterHfScdbCapabilities(c, Len(c) - 1, allm, vrr))
    BY HfBlock
  <2>3. e2[c] \in DataBlock
    BY <2>1, <2>2 DEF SameKind
  <2>. QED
    BY <2>3, DataBlockParts
<1>4. \A d \in data : Out(d, vics, allm, vrr) =
          IF e1[d] = <<>> \/ (~vrr /\ HasOui(e2[e1[d]], FreeSync)) THEN <<>> ELSE e2[e1[d]]
  BY DEF Out
<1>. HIDE DEF e1, e2, e3
<1>5. first \subseteq DataBlock /\ \A x : x \in first <=> x # <<>> /\ \E d \in data : x = e1[d]
  BY <1>1 DEF Image
<1>. HIDE DEF first
<1>6. second \subseteq DataBlock /\ \A x : x \in second <=> \E y \in first : x = e2[y]
  BY <1>1, <1>3, <1>5 DEF Image
<1>. HIDE DEF second
<1>7. CASE vrr
  <2>1. Edited(data, vics, allm, vrr) = second
    BY <1>7 DEF Edited, e1, e2, first, second
  <2>2. \A x : x \in second <=> x # <<>> /\ \E d \in data : x = Out(d, vics, allm, vrr)
    <3>1. \A d \in data : Out(d, vics, allm, vrr) = IF e1[d] = <<>> THEN <<>> ELSE e2[e1[d]]
      BY <1>4, <1>7
    <3>2. \A d \in data : e1[d] # <<>> => e1[d] \in first /\ e2[e1[d]] # <<>>
      BY <1>3, <1>5
    <3>3. ASSUME NEW x \in second
          PROVE  x # <<>> /\ \E d \in data : x = Out(d, vics, allm, vrr)
      <4>1. PICK y \in first : x = e2[y]
        BY <1>6
      <4>2. PICK d \in data : y = e1[d] /\ y # <<>>
        BY <1>5
      <4>. QED
        BY <3>1, <3>2, <4>1, <4>2
    <3>4. ASSUME NEW d \in data, Out(d, vics, allm, vrr) # <<>>
          PROVE  Out(d, vics, allm, vrr) \in second
      BY <1>6, <3>1, <3>2, <3>4
    <3>. QED
      BY <3>3, <3>4
  <2>. QED
    BY <2>1, <2>2 DEF Outs
<1>8. CASE ~vrr
  <2>1. Edited(data, vics, allm, vrr) = Image(second, e3)
    BY <1>8 DEF Edited, e1, e2, e3, first, second
  <2>2. \A x : x \in Image(second, e3) <=> x \in second /\ ~HasOui(x, FreeSync)
    <3>1. \A x \in second : x # <<>>
      BY <1>6, DataBlockParts
    <3>. QED
      BY <1>2, <1>6, <3>1 DEF Image
  <2>3. \A x : x \in Image(second, e3) <=> x # <<>> /\ \E d \in data : x = Out(d, vics, allm, vrr)
    BY <1>3, <1>4, <1>5, <1>6, <1>8, <2>2
  <2>. QED
    BY <2>1, <2>3 DEF Outs
<1>. QED
  BY <1>7, <1>8

\* What is left of a data block is of its kind.
LEMMA OutKind ==
    ASSUME NEW d \in DataBlock, NEW vics, NEW allm \in BOOLEAN, NEW vrr \in BOOLEAN,
           NEW r, r = Out(d, vics, allm, vrr), r # <<>>
    PROVE  /\ r \in DataBlock
           /\ IsVideo(r) <=> IsVideo(d)
           /\ IsVideo420(r) <=> IsVideo420(d)
           /\ IsHf(r) <=> IsHf(d)
           /\ HasOui(r, FreeSync) <=> HasOui(d, FreeSync)
           /\ Other(r) <=> Other(d)
           /\ HasOui(d, FreeSync) => vrr
<1>1. /\ r \in DataBlock \cup {<<>>}
      /\ IsVideo(d) \/ IsVideo420(d) => VicsLeft(d, r, vics)
      /\ IsHf(d) => FeaturesLeft(d, r, allm, vrr)
      /\ HasOui(d, FreeSync) => r = IF vrr THEN d ELSE <<>>
      /\ Other(d) => r = d
  BY OutOf
<1>2. CASE IsVideo(d) \/ IsVideo420(d)
  BY <1>1, <1>2, Kinds DEF VicsLeft, Other
<1>3. CASE IsHf(d)
  BY <1>1, <1>3, Kinds DEF FeaturesLeft, Other
<1>4. CASE HasOui(d, FreeSync) \/ Other(d)
  BY <1>1, <1>4
<1>. QED
  BY <1>2, <1>3, <1>4 DEF Other

\* What a source finds in a set of data blocks.
Listed(data) == UNION {Vics(d) : d \in {c \in data : IsVideo(c)}}
Listed420(data) == UNION {Vics(d) : d \in {c \in data : IsVideo420(c)}}
OtherBlocks(data) == {d \in data : Other(d)}
HasAny(data, f) == \E d \in data : IsHf(d) /\ HasFeature(d, f)
HasFreeSync(data) == \E d \in data : HasOui(d, FreeSync)

\* What the three loops leave of it.
Agree(data, left, vics, allm, vrr) ==
    /\ left \subseteq DataBlock
    /\ Listed(left) = Listed(data) \cap vics
    /\ Listed420(left) = Listed420(data) \cap vics
    /\ OtherBlocks(left) = OtherBlocks(data)
    /\ HasAny(left, "allm") <=> HasAny(data, "allm") /\ allm
    /\ HasAny(left, "vrr") <=> HasAny(data, "vrr") /\ vrr
    /\ HasFreeSync(left) => vrr

\* The edits of the three loops leave what the filter promises.
LEMMA EditedAgree ==
    ASSUME NEW data \in SUBSET DataBlock, NEW vics, NEW allm \in BOOLEAN, NEW vrr \in BOOLEAN
    PROVE  Agree(data, Edited(data, vics, allm, vrr), vics, allm, vrr)
<1>. DEFINE out(d) == Out(d, vics, allm, vrr)
            left == Edited(data, vics, allm, vrr)
<1>1. \A r : r \in left <=> r # <<>> /\ \E d \in data : r = out(d)
  <2>1. Outs(data, left, vics, allm, vrr)
    BY EditedOut
  <2>. QED
    BY <2>1 DEF Outs
<1>2. ASSUME NEW d \in data
      PROVE  /\ out(d) \in DataBlock \cup {<<>>}
             /\ IsVideo(d) \/ IsVideo420(d) => VicsLeft(d, out(d), vics)
             /\ IsHf(d) => FeaturesLeft(d, out(d), allm, vrr)
             /\ Other(d) => out(d) = d
             /\ out(d) # <<>> =>
                  /\ IsVideo(out(d)) <=> IsVideo(d)
                  /\ IsVideo420(out(d)) <=> IsVideo420(d)
                  /\ IsHf(out(d)) <=> IsHf(d)
                  /\ HasOui(out(d), FreeSync) <=> HasOui(d, FreeSync)
                  /\ Other(out(d)) <=> Other(d)
                  /\ HasOui(d, FreeSync) => vrr
  BY OutOf, OutKind
<1>. HIDE DEF out, left
<1>3. left \subseteq DataBlock
  BY <1>1, <1>2
<1>4. \A d \in data : (IsVideo(d) \/ IsVideo420(d)) =>
         IF out(d) = <<>> THEN Vics(d) \cap vics = {} ELSE Vics(out(d)) = Vics(d) \cap vics
  BY <1>2, DataBlockParts DEF VicsLeft
<1>5. Listed(left) = Listed(data) \cap vics
  <2>1. ASSUME NEW v PROVE v \in Listed(left) <=> v \in Listed(data) /\ v \in vics
    <3>1. v \in Listed(left) <=> \E r \in left : IsVideo(r) /\ v \in Vics(r)
      BY DEF Listed
    <3>2. v \in Listed(data) <=> \E d \in data : IsVideo(d) /\ v \in Vics(d)
      BY DEF Listed
    <3>3. ASSUME NEW r \in left, IsVideo(r), v \in Vics(r)
          PROVE  v \in vics /\ \E d \in data : IsVideo(d) /\ v \in Vics(d)
      <4>1. PICK d \in data : r = out(d) /\ r # <<>>
        BY <1>1
      <4>. QED
        BY <1>2, <1>4, <3>3, <4>1
    <3>4. ASSUME NEW d \in data, IsVideo(d), v \in Vics(d), v \in vics
          PROVE  \E r \in left : IsVideo(r) /\ v \in Vics(r)
      <4>1. out(d) # <<>>
        BY <1>4, <3>4
      <4>. QED
        BY <1>1, <1>2, <1>4, <3>4, <4>1
    <3>. QED
      BY <3>1, <3>2, <3>3, <3>4
  <2>. QED
    BY <2>1
<1>6. Listed420(left) = Listed420(data) \cap vics
  <2>1. ASSUME NEW v PROVE v \in Listed420(left) <=> v \in Listed420(data) /\ v \in vics
    <3>1. v \in Listed420(left) <=> \E r \in left : IsVideo420(r) /\ v \in Vics(r)
      BY DEF Listed420
    <3>2. v \in Listed420(data) <=> \E d \in data : IsVideo420(d) /\ v \in Vics(d)
      BY DEF Listed420
    <3>3. ASSUME NEW r \in left, IsVideo420(r), v \in Vics(r)
          PROVE  v \in vics /\ \E d \in data : IsVideo420(d) /\ v \in Vics(d)
      <4>1. PICK d \in data : r = out(d) /\ r # <<>>
        BY <1>1
      <4>. QED
        BY <1>2, <1>4, <3>3, <4>1
    <3>4. ASSUME NEW d \in data, IsVideo420(d), v \in Vics(d), v \in vics
          PROVE  \E r \in left : IsVideo420(r) /\ v \in Vics(r)
      <4>1. out(d) # <<>>
        BY <1>4, <3>4
      <4>. QED
        BY <1>1, <1>2, <1>4, <3>4, <4>1
    <3>. QED
      BY <3>1, <3>2, <3>3, <3>4
  <2>. QED
    BY <2>1
<1>7. OtherBlocks(left) = OtherBlocks(data)
  <2>1. ASSUME NEW r \in OtherBlocks(left) PROVE r \in OtherBlocks(data)
    <3>1. PICK d \in data : r = out(d) /\ r # <<>> /\ Other(r)
      BY <1>1, <2>1 DEF OtherBlocks
    <3>2. Other(d) /\ r = d
      BY <1>2, <3>1
    <3>. QED
      BY <3>1, <3>2 DEF OtherBlocks
  <2>2. ASSUME NEW d \in OtherBlocks(data) PROVE d \in OtherBlocks(left)
    <3>1. d \in data /\ Other(d) /\ d # <<>>
      BY <2>2, DataBlockParts DEF OtherBlocks
    <3>2. out(d) = d
      BY <1>2, <3>1
    <3>. QED
      BY <1>1, <3>1, <3>2 DEF OtherBlocks
  <2>. QED
    BY <2>1, <2>2
<1>8. ASSUME NEW f, NEW has \in BOOLEAN,
             \A d \in data : IsHf(d) => (HasFeature(out(d), f) <=> HasFeature(d, f) /\ has)
      PROVE  HasAny(left, f) <=> HasAny(data, f) /\ has
  <2>1. ASSUME HasAny(left, f) PROVE HasAny(data, f) /\ has
    <3>1. PICK r \in left : IsHf(r) /\ HasFeature(r, f)
      BY <2>1 DEF HasAny
    <3>2. PICK d \in data : r = out(d) /\ r # <<>>
      BY <1>1
    <3>. QED
      BY <1>2, <1>8, <3>1, <3>2 DEF HasAny
  <2>2. ASSUME HasAny(data, f), has PROVE HasAny(left, f)
    <3>1. PICK d \in data : IsHf(d) /\ HasFeature(d, f)
      BY <2>2 DEF HasAny
    <3>2. FeaturesLeft(d, out(d), allm, vrr)
      BY <1>2, <3>1
    <3>3. out(d) \in DataBlock /\ IsHf(out(d)) /\ out(d) # <<>>
      BY <3>2, DataBlockParts DEF FeaturesLeft
    <3>. QED
      BY <1>1, <1>8, <2>2, <3>1, <3>3 DEF HasAny
  <2>. QED
    BY <2>1, <2>2
<1>9. HasAny(left, "allm") <=> HasAny(data, "allm") /\ allm
  BY <1>2, <1>8 DEF FeaturesLeft
<1>10. HasAny(left, "vrr") <=> HasAny(data, "vrr") /\ vrr
  BY <1>2, <1>8 DEF FeaturesLeft
<1>11. HasFreeSync(left) => vrr
  BY <1>1, <1>2 DEF HasFreeSync
<1>. QED
  BY <1>3, <1>5, <1>6, <1>7, <1>9, <1>10, <1>11 DEF Agree, left

\* b with the data blocks data, and the timings behind them.
Reduced(b, c, data) ==
    /\ c \in ByteBlocks /\ c[0] = b[0]
    /\ \E S : Laid(c, S)
    /\ DataBlocks(c) = data
    /\ \E shift : Moved(b, c, shift)

\* Timings that have moved twice have moved.
LEMMA MovedTwice ==
    ASSUME NEW b, NEW c, NEW d, NEW s, NEW t, Moved(b, c, s), Moved(c, d, t)
    PROVE  Moved(b, d, s + t)
<1>1. /\ s \in Nat /\ t \in Nat
      /\ b[2] = 0 => c[2] = 0
      /\ c[2] = 0 => d[2] = 0
  BY DEF Moved
<1>2. CASE b[2] = 0
  BY <1>1, <1>2 DEF Moved
<1>3. CASE b[2] # 0
  <2>1. /\ b[2] \in 4..127 /\ c[2] = b[2] - s /\ c[2] \in 4..127
        /\ \A i \in c[2]..126 : c[i] = IF i + s < 127 THEN b[i + s] ELSE 0
    BY <1>3 DEF Moved
  <2>2. c[2] # 0
    BY <2>1
  <2>3. /\ d[2] = c[2] - t /\ d[2] \in 4..127
        /\ \A i \in d[2]..126 : d[i] = IF i + t < 127 THEN c[i + t] ELSE 0
    BY <2>2 DEF Moved
  <2>4. d[2] = b[2] - (s + t) /\ s + t \in Nat
    BY ONLY <1>1, <2>1, <2>3
  <2>5. ASSUME NEW i \in d[2]..126
        PROVE  d[i] = IF i + (s + t) < 127 THEN b[i + (s + t)] ELSE 0
    <3>1. i + (s + t) = (i + t) + s /\ i \in Int /\ i + t >= c[2] /\ i + t \in Int
      BY <1>1, <2>1, <2>3
    <3>2. d[i] = IF i + t < 127 THEN c[i + t] ELSE 0
      BY <2>3
    <3>3. CASE i + t < 127
      <4>1. i + t \in c[2]..126
        BY <2>1, <3>1, <3>3
      <4>2. c[i + t] = IF (i + t) + s < 127 THEN b[(i + t) + s] ELSE 0
        BY <2>1, <4>1
      <4>. QED
        BY <3>1, <3>2, <3>3, <4>2
    <3>4. CASE ~(i + t < 127)
      <4>1. ~(i + (s + t) < 127)
        BY <1>1, <3>1, <3>4
      <4>. QED
        BY <3>2, <3>4, <4>1
    <3>. QED
      BY <3>3, <3>4
  <2>. QED
    BY <1>3, <2>1, <2>3, <2>4, <2>5 DEF Moved
<1>. QED
  BY <1>2, <1>3

\* One edit after another.
LEMMA ReducedFurther ==
    ASSUME NEW b \in ByteBlocks, NEW c, NEW data, Reduced(b, c, data),
           NEW edit, Editor(edit)
    PROVE  Reduced(b, EditBlocks(c, edit), Image(data, edit))
<1>1. c \in ByteBlocks /\ c[0] = b[0] /\ DataBlocks(c) = data
  BY DEF Reduced
<1>2. PICK S : Laid(c, S)
  BY DEF Reduced
<1>3. EditOf(c, edit, EditBlocks(c, edit))
  BY <1>1, <1>2, EditLaid
<1>4. PICK s : Moved(b, c, s)
  BY DEF Reduced
<1>5. PICK t : Moved(c, EditBlocks(c, edit), t)
  BY <1>3 DEF EditOf
<1>6. Moved(b, EditBlocks(c, edit), s + t)
  BY <1>4, <1>5, MovedTwice
<1>. QED
  BY <1>1, <1>3, <1>6 DEF EditOf, Reduced

\* The three loops of the filter.
CapableBlocks(block, txVics, modes, allm, vrr) ==
    LET capable == FilterCeaHfScdb(FilterCeaVideoDataBlocks(block, txVics, modes), allm, vrr)
    IN  IF vrr THEN capable ELSE RemoveCeaDataBlocksByOui(capable, FreeSync)

\* Each of the three loops is an edit.
LEMMA LoopsAreEdits ==
    ASSUME NEW b, NEW txVics, NEW modes, NEW allm, NEW vrr
    PROVE  LET vics == {v \in 0..127 : TxSupportsVic(v, txVics, modes)}
               c == EditBlocks(EditBlocks(b, VicsEdit(vics)), HfEdit(allm, vrr))
           IN  CapableBlocks(b, txVics, modes, allm, vrr)
                  = IF vrr THEN c ELSE EditBlocks(c, OuiEdit(FreeSync))
  BY DEF CapableBlocks, FilterCeaHfScdb, FilterCeaVideoDataBlocks,
         RemoveCeaDataBlocksByOui, VicsEdit, HfEdit, OuiEdit

\* And what comes after them.
LEMMA TimingsLast ==
    ASSUME NEW b, NEW txVics, NEW modes, NEW allm, NEW vrr,
           NEW d, d = CapableBlocks(b, txVics, modes, allm, vrr)
    PROVE  FilteredExtension(b, txVics, modes, allm, vrr)
              = IF d[2] \in 4..126 THEN FilterDetailedTimings(d, d[2], 127, modes) ELSE d
  BY DEF CapableBlocks, FilteredExtension

\* The three loops make a well laid extension of a well laid extension.
LEMMA CapableReduced ==
    ASSUME NEW b \in ByteBlocks, NEW S, Laid(b, S),
           NEW txVics, NEW modes, NEW allm \in BOOLEAN, NEW vrr \in BOOLEAN
    PROVE  Reduced(b, CapableBlocks(b, txVics, modes, allm, vrr),
                   Edited(DataBlocks(b), {v \in 0..127 : TxSupportsVic(v, txVics, modes)},
                          allm, vrr))
<1>. DEFINE vics == {v \in 0..127 : TxSupportsVic(v, txVics, modes)}
            c1 == EditBlocks(b, VicsEdit(vics))
            c2 == EditBlocks(c1, HfEdit(allm, vrr))
            c3 == EditBlocks(c2, OuiEdit(FreeSync))
            d1 == Image(DataBlocks(b), VicsEdit(vics))
            d2 == Image(d1, HfEdit(allm, vrr))
            d3 == Image(d2, OuiEdit(FreeSync))
<1>1. CapableBlocks(b, txVics, modes, allm, vrr) = IF vrr THEN c2 ELSE c3
  BY LoopsAreEdits
<1>2. Edited(DataBlocks(b), vics, allm, vrr) = IF vrr THEN d2 ELSE d3
  BY DEF Edited
<1>. HIDE DEF vics
<1>3. Editor(VicsEdit(vics)) /\ Editor(HfEdit(allm, vrr)) /\ Editor(OuiEdit(FreeSync))
  BY Editors
<1>4. Reduced(b, c1, d1)
  <2>1. EditOf(b, VicsEdit(vics), c1)
    BY <1>3, EditLaid
  <2>. QED
    BY <2>1 DEF EditOf, Reduced
<1>. HIDE DEF c1, d1
<1>5. Reduced(b, c2, d2)
  BY <1>3, <1>4, ReducedFurther
<1>. HIDE DEF c2, d2
<1>6. Reduced(b, c3, d3)
  BY <1>3, <1>5, ReducedFurther
<1>. QED
  BY <1>1, <1>2, <1>5, <1>6 DEF vics

\* They make a block of any block.
LEMMA CapableTyped ==
    ASSUME NEW b \in ByteBlocks, NEW txVics, NEW modes, NEW allm \in BOOLEAN, NEW vrr \in BOOLEAN
    PROVE  LET c == CapableBlocks(b, txVics, modes, allm, vrr)
           IN  c \in ByteBlocks /\ c[0] = b[0]
<1>. DEFINE vics == {v \in 0..127 : TxSupportsVic(v, txVics, modes)}
            c1 == EditBlocks(b, VicsEdit(vics))
            c2 == EditBlocks(c1, HfEdit(allm, vrr))
            c3 == EditBlocks(c2, OuiEdit(FreeSync))
<1>1. CapableBlocks(b, txVics, modes, allm, vrr) = IF vrr THEN c2 ELSE c3
  BY LoopsAreEdits
<1>. HIDE DEF vics
<1>2. Editor(VicsEdit(vics)) /\ Editor(HfEdit(allm, vrr)) /\ Editor(OuiEdit(FreeSync))
  BY Editors
<1>3. c1 \in ByteBlocks /\ c1[0] = b[0]
  BY <1>2, EditTyped
<1>. HIDE DEF c1
<1>4. c2 \in ByteBlocks /\ c2[0] = b[0]
  BY <1>2, <1>3, EditTyped
<1>. HIDE DEF c2
<1>5. c3 \in ByteBlocks /\ c3[0] = b[0]
  BY <1>2, <1>4, EditTyped
<1>. QED
  BY <1>1, <1>4, <1>5

\* Whatever the layout, the filter makes a block of a block.
LEMMA ExtensionTyped ==
    ASSUME NEW b \in ByteBlocks, NEW txVics, NEW modes, NEW allm \in BOOLEAN, NEW vrr \in BOOLEAN
    PROVE  LET c == FilteredExtension(b, txVics, modes, allm, vrr)
           IN  c \in ByteBlocks /\ c[0] = b[0]
<1>. DEFINE d == CapableBlocks(b, txVics, modes, allm, vrr)
<1>1. d \in ByteBlocks /\ d[0] = b[0]
  BY CapableTyped
<1>2. FilteredExtension(b, txVics, modes, allm, vrr)
         = IF d[2] \in 4..126 THEN FilterDetailedTimings(d, d[2], 127, modes) ELSE d
  <2>1. d = CapableBlocks(b, txVics, modes, allm, vrr)
    OBVIOUS
  <2>. HIDE DEF d
  <2>. QED
    BY ONLY <2>1, TimingsLast
<1>. HIDE DEF d
<1>3. CASE d[2] \in 4..126
  <2>1. d[2] \in 0..127 /\ 127 \in 0..127 /\ 0 < d[2] /\ 0 \in 0..127
    BY <1>3
  <2>2. LET c == FilterDetailedTimings(d, d[2], 127, modes)
        IN  c \in ByteBlocks /\ c[0] = d[0]
    <3>1. PICK start \in 0..127, end \in 0..127 : start = d[2] /\ end = 127
      BY <2>1, SMTT(30)
    <3>. DEFINE c == FilterDetailedTimings(d, start, end, modes)
    <3>2. c \in ByteBlocks /\ Outside(d, c, start, end)
      BY <1>1, FilterTimings, Zenon
    <3>3. c[0] = d[0]
      BY <2>1, <3>1, <3>2 DEF Outside
    <3>. QED
      BY <3>1, <3>2, <3>3
  <2>. QED
    BY <1>1, <1>2, <1>3, <2>2
<1>. QED
  BY <1>1, <1>2, <1>3

\* The modes of an extension's timings.
BlockTimings(b) == IF b[2] \in 4..126 THEN Timings(b, b[2], 127) ELSE {}

\* And the one that its end may turn into.
BlockRemains(b) ==
    IF b[2] \in 4..126 /\ IsTiming(Remainder(b)) THEN {DetailedTimingToMode(Remainder(b))}
    ELSE {}

\* The timings of an extension from which data blocks went are its own, and
\* maybe the one that did not fit.
LEMMA MovedTimings ==
    ASSUME NEW b \in ByteBlocks, NEW c \in ByteBlocks, NEW shift, Moved(b, c, shift)
    PROVE  /\ BlockTimings(b) \subseteq BlockTimings(c)
           /\ BlockTimings(c) \subseteq BlockTimings(b) \cup BlockRemains(b)
<1>1. CASE b[2] = 0
  <2>1. c[2] = 0
    BY <1>1 DEF Moved
  <2>. QED
    BY <1>1, <2>1 DEF BlockTimings
<1>2. CASE b[2] # 0
  <2>. DEFINE from == b[2]
              to == c[2]
  <2>1. /\ from \in 4..127 /\ shift \in Nat /\ to = from - shift /\ to \in 4..127
        /\ \A i \in to..126 : c[i] = IF i + shift < 127 THEN b[i + shift] ELSE 0
    BY <1>2 DEF Moved
  <2>. HIDE DEF from, to
  <2>2. ASSUME NEW k \in 0..7, to + 18 * k + 18 <= 127, from + 18 * k + 18 <= 127
        PROVE  Slot(c, to + 18 * k) = Slot(b, from + 18 * k)
    <3>1. ASSUME NEW i \in 0..17 PROVE c[to + 18 * k + i] = b[from + 18 * k + i]
      <4>. DEFINE j == to + 18 * k + i
      <4>1. j \in to..126 /\ j + shift < 127 /\ j + shift = from + 18 * k + i
        BY <2>1, <2>2
      <4>. HIDE DEF j
      <4>2. c[j] = b[from + 18 * k + i]
        BY <2>1, <4>1
      <4>. QED
        BY <4>2 DEF j
    <3>. QED
      BY <3>1 DEF Slot
  <2>3. ASSUME NEW k \in 0..7, to + 18 * k + 18 <= 127, ~(from + 18 * k + 18 <= 127),
               IsTiming(Slot(c, to + 18 * k))
        PROVE  from \in 4..126 /\ Slot(c, to + 18 * k) = Remainder(b)
    <3>1. ASSUME NEW i \in 0..17
          PROVE  c[to + 18 * k + i] =
                    IF from + 18 * k + i < 127 THEN b[from + 18 * k + i] ELSE 0
      <4>. DEFINE j == to + 18 * k + i
      <4>1. j \in to..126 /\ j + shift = from + 18 * k + i
        BY <2>1, <2>3
      <4>. HIDE DEF j
      <4>2. c[j] = IF j + shift < 127 THEN b[j + shift] ELSE 0
        BY <2>1, <4>1
      <4>. QED
        BY <4>1, <4>2 DEF j
    <3>2. from + 18 * k < 127
      <4>1. SUFFICES ASSUME ~(from + 18 * k < 127) PROVE FALSE
        OBVIOUS
      <4>2. \A i \in 0..17 : ~(from + 18 * k + i < 127)
        BY <2>1, <4>1
      <4>3. \A i \in 0..17 : c[to + 18 * k + i] = 0
        BY <3>1, <4>2
      <4>4. Slot(c, to + 18 * k) = NoBytes
        BY <4>3 DEF Slot, NoBytes
      <4>. QED
        BY <2>3, <4>4, NoTiming
    <3>3. from \in 4..126
      BY <2>1, <3>2
    <3>4. (127 - from) \div 18 = k
      <4>1. \A n \in Nat, m \in 0..7 : 18 * m <= n /\ n < 18 * m + 18 => n \div 18 = m
        OBVIOUS
      <4>2. 127 - from \in Nat /\ 18 * k <= 127 - from /\ 127 - from < 18 * k + 18
        BY <2>1, <2>3, <3>2
      <4>. QED
        BY <4>1, <4>2
    <3>5. Remainder(b) = [i \in 0..17 |-> IF from + 18 * k + i < 127 THEN b[from + 18 * k + i]
                                          ELSE 0]
      BY <3>4 DEF Remainder, from
    <3>6. Slot(c, to + 18 * k) = [i \in 0..17 |-> c[to + 18 * k + i]]
      BY DEF Slot
    <3>. QED
      BY <3>1, <3>3, <3>5, <3>6
  <2>4. to \in 0..127 /\ from \in 0..127 /\ 127 \in 0..127
    BY <2>1
  <2>5. ASSUME NEW m \in BlockTimings(b) PROVE m \in BlockTimings(c)
    <3>1. from \in 4..126 /\ m \in Timings(b, from, 127)
      BY DEF BlockTimings, from
    <3>2. PICK at \in TimingSlots(from, 127) :
             IsTiming(Slot(b, at)) /\ m = DetailedTimingToMode(Slot(b, at))
      BY ONLY <3>1, TimingsBySlots
    <3>3. at \in from..127 - 18 /\ \E k \in 0..7 : at = from + 18 * k
      BY ONLY <2>4, SlotAt, Zenon
    <3>4. PICK k \in 0..7 : at = from + 18 * k
      BY <3>3
    <3>5. to + 18 * k + 18 <= 127 /\ from + 18 * k + 18 <= 127 /\ k \in Nat /\ to \in 4..126
      BY <2>1, <3>1, <3>3, <3>4
    <3>6. to + 18 * k \in TimingSlots(to, 127)
      BY <2>4, <3>5, SlotOf, ZenonT(60)
    <3>7. Slot(c, to + 18 * k) = Slot(b, at)
      BY <2>2, <3>4, <3>5
    <3>8. m \in Timings(c, to, 127)
      BY <3>2, <3>6, <3>7, TimingsBySlots
    <3>. QED
      BY <3>5, <3>8 DEF BlockTimings, to
  <2>6. ASSUME NEW m \in BlockTimings(c) PROVE m \in BlockTimings(b) \cup BlockRemains(b)
    <3>1. to \in 4..126 /\ m \in Timings(c, to, 127)
      BY DEF BlockTimings, to
    <3>2. PICK at \in TimingSlots(to, 127) :
             IsTiming(Slot(c, at)) /\ m = DetailedTimingToMode(Slot(c, at))
      BY ONLY <3>1, TimingsBySlots
    <3>3. at \in to..127 - 18 /\ \E k \in 0..7 : at = to + 18 * k
      BY ONLY <2>4, SlotAt, Zenon
    <3>4. PICK k \in 0..7 : at = to + 18 * k
      BY <3>3
    <3>5. to + 18 * k + 18 <= 127 /\ k \in Nat
      BY <2>1, <3>3, <3>4
    <3>6. CASE from + 18 * k + 18 <= 127
      <4>0. from \in 4..126
        BY <2>1, <3>6
      <4>1. from + 18 * k \in TimingSlots(from, 127) /\ from \in 4..126
        BY ONLY <2>4, <3>5, <3>6, <4>0, SlotOf, Zenon
      <4>2. Slot(c, at) = Slot(b, from + 18 * k)
        BY <2>2, <3>4, <3>5, <3>6
      <4>3. m \in Timings(b, from, 127)
        BY <3>2, <4>1, <4>2, TimingsBySlots
      <4>. QED
        BY <4>1, <4>3 DEF BlockTimings, from
    <3>7. CASE ~(from + 18 * k + 18 <= 127)
      <4>1. from \in 4..126 /\ Slot(c, at) = Remainder(b)
        BY <2>3, <3>2, <3>4, <3>5, <3>7
      <4>2. m = DetailedTimingToMode(Remainder(b)) /\ IsTiming(Remainder(b))
        BY <3>2, <4>1
      <4>. QED
        BY <4>1, <4>2 DEF BlockRemains, from
    <3>. QED
      BY <3>6, <3>7
  <2>. QED
    BY <2>5, <2>6
<1>. QED
  BY <1>1, <1>2

\* Writing the checksum leaves everything else.
LEMMA ChecksumKeeps ==
    ASSUME NEW b \in ByteBlocks, NEW c, c = RecalculateEdidBlockChecksum(b)
    PROVE  /\ c \in Valid /\ c \in ByteBlocks
           /\ \A i \in 0..126 : c[i] = b[i]
           /\ BlockTimings(c) = BlockTimings(b)
           /\ \A S : Laid(b, S) => Laid(c, S) /\ DataBlocks(c) = DataBlocks(b)
<1>1. c \in Valid /\ c \in ByteBlocks /\ \A i \in 0..126 : c[i] = b[i]
  BY ChecksumRight DEF Valid
<1>2. c[2] = b[2]
  BY <1>1
<1>3. BlockTimings(c) = BlockTimings(b)
  <2>1. CASE b[2] \in 4..126
    <3>1. PICK start \in 0..127, end \in 0..127 : start = b[2] /\ end = 127
      BY <2>1
    <3>2. \A i \in start..end - 1 : c[i] = b[i]
      BY ONLY <1>1, <3>1
    <3>3. Timings(c, start, end) = Timings(b, start, end)
      BY ONLY <3>2, TimingsSame, ZenonT(60)
    <3>. QED
      BY <1>2, <3>1, <3>3 DEF BlockTimings
  <2>. QED
    BY <1>2, <2>1 DEF BlockTimings
<1>4. ASSUME NEW S, Laid(b, S) PROVE Laid(c, S) /\ DataBlocks(c) = DataBlocks(b)
  <2>1. DataEnd(b) \in 4..127
    BY Offsets
  <2>2. \A i \in 0..DataEnd(b) - 1 : c[i] = b[i]
    BY <1>1, <2>1
  <2>. QED
    BY <1>1, <1>4, <2>2, LaidSame
<1>. QED
  BY <1>1, <1>3, <1>4

\* c is the extension b without what is not in vics or modes, or not allowed.
FilteredBlock(b, c, vics, modes, allm, vrr) ==
    /\ c \in ByteBlocks /\ c[0] = b[0]
    /\ \E S : Laid(c, S)
    /\ Agree(DataBlocks(b), DataBlocks(c), vics, allm, vrr)
    /\ BlockTimings(b) \cap modes \subseteq BlockTimings(c)
    /\ BlockTimings(c) \subseteq (BlockTimings(b) \cup BlockRemains(b)) \cap modes

\* That is what the filter makes of an extension that is laid out well.
LEMMA ExtensionFiltered ==
    ASSUME NEW b \in ByteBlocks, NEW S, Laid(b, S),
           NEW txVics, NEW modes, NEW allm \in BOOLEAN, NEW vrr \in BOOLEAN,
           NEW c, c = FilteredExtension(b, txVics, modes, allm, vrr),
           NEW vics, vics = {v \in 0..127 : TxSupportsVic(v, txVics, modes)}
    PROVE  FilteredBlock(b, c, vics, modes, allm, vrr)
<1>1. PICK d : d = CapableBlocks(b, txVics, modes, allm, vrr)
  OBVIOUS
<1>2. c = IF d[2] \in 4..126 THEN FilterDetailedTimings(d, d[2], 127, modes) ELSE d
  BY <1>1, TimingsLast
<1>3. Reduced(b, d, Edited(DataBlocks(b), vics, allm, vrr))
  BY <1>1, CapableReduced
<1>4. d \in ByteBlocks /\ d[0] = b[0] /\ DataBlocks(d) = Edited(DataBlocks(b), vics, allm, vrr)
  BY <1>3 DEF Reduced
<1>5. PICK shift : Moved(b, d, shift)
  BY <1>3 DEF Reduced
<1>6. PICK U : Laid(d, U)
  BY <1>3 DEF Reduced
<1>7. Agree(DataBlocks(b), DataBlocks(d), vics, allm, vrr)
  <2>1. DataBlocks(b) \in SUBSET DataBlock
    <3>1. DataBlocks(b) = DataFrom(b, 4)
      BY DEF DataBlocks, Chain, DataFrom
    <3>2. 4 \in 4..127
      OBVIOUS
    <3>. QED
      BY <3>1, <3>2, DataFromBlocks
  <2>. QED
    BY <1>4, <2>1, EditedAgree
<1>8. /\ BlockTimings(b) \subseteq BlockTimings(d)
      /\ BlockTimings(d) \subseteq BlockTimings(b) \cup BlockRemains(b)
  BY <1>4, <1>5, MovedTimings
<1>9. CASE d[2] \in 4..126
  <2>1. PICK start \in 0..127, end \in 0..127 : start = d[2] /\ end = 127
    BY <1>9
  <2>2. c = FilterDetailedTimings(d, start, end, modes)
    BY <1>2, <1>9, <2>1, SMTT(30)
  <2>3. c \in ByteBlocks /\ Outside(d, c, start, end)
    BY <1>4, <2>2, FilterTimings, Zenon
  <2>4. \A i \in 0..127 : i < d[2] => c[i] = d[i]
    BY <2>1, <2>3 DEF Outside
  <2>5. c[0] = d[0] /\ c[2] = d[2]
    <3>1. 0 \in 0..127 /\ 2 \in 0..127 /\ 0 < d[2] /\ 2 < d[2]
      BY <1>9
    <3>. QED
      BY <2>4, <3>1
  <2>6. Timings(c, start, end) = Timings(d, start, end) \cap modes
    <3>1. OnlyModes(d, c, start, end, modes)
      BY <1>4, <2>2, TimingsFiltered, Zenon
    <3>. QED
      BY <3>1, SMTT(30) DEF OnlyModes
  <2>7. BlockTimings(c) = BlockTimings(d) \cap modes
    BY <1>9, <2>1, <2>5, <2>6 DEF BlockTimings
  <2>8. Laid(c, U) /\ DataBlocks(c) = DataBlocks(d)
    <3>1. DataEnd(d) = d[2]
      BY <1>9 DEF DataEnd
    <3>2. \A i \in 0..DataEnd(d) - 1 : c[i] = d[i]
      BY ONLY <1>9, <2>4, <3>1, SMTT(30)
    <3>. QED
      BY <1>4, <1>6, <2>3, <3>2, LaidSame
  <2>. QED
    BY <1>4, <1>7, <1>8, <2>3, <2>5, <2>7, <2>8 DEF FilteredBlock
<1>10. CASE d[2] \notin 4..126
  <2>1. c = d /\ BlockTimings(d) = {}
    BY <1>2, <1>10 DEF BlockTimings
  <2>. QED
    BY <1>4, <1>6, <1>7, <1>8, <2>1 DEF FilteredBlock
<1>. QED
  BY <1>9, <1>10

(***************************************************************************)
(* The patch.                                                              *)
(***************************************************************************)

\* c is b with VIC 63 behind the len bytes of the data block at off.
Inserted(b, c, off, len) ==
    /\ off \in 4..126 /\ len \in 1..30 /\ off + len + 1 \in off + 2..126
    /\ b[2] \in 4..126 /\ c \in ByteBlocks
    /\ c[off] = b[off] + 1 /\ c[2] = b[2] + 1 /\ c[off + len + 1] = 63
    /\ \A i \in 0..off + len : i # off /\ i # 2 => c[i] = b[i]
    /\ \A i \in off + len + 2..127 : c[i] = b[i - 1]

\* The first video block, if there is room in it.
LEMMA RoomAt ==
    ASSUME NEW b \in ByteBlocks, HasRoom(b),
           NEW off, off = FirstVideoBlock(b), NEW len, len = BlockLen(b, off)
    PROVE  /\ off \in 4..126 /\ off \in Chain(b) /\ ~AtEnd(b, off)
           /\ IsVideo(Whole(b, off)) /\ 63 \notin Vics(Whole(b, off))
           /\ len \in 1..30 /\ off + len + 1 \in off + 2..126
           /\ b[2] \in 4..126 /\ b[off] \in 0..254 /\ off < b[2]
<1>1. /\ VideoBlocks(b) # {} /\ b[2] + 1 <= 127
      /\ 63 \notin Vics(Whole(b, off)) /\ len < 31 /\ off + len + 1 < 127
  BY DEF HasRoom
<1>2. b[2] \in 0..255
  BY HeadBytes
<1>3. ~(b[2] < 4)
  BY <1>1 DEF VideoBlocks
<1>4. b[2] \in 4..126
  BY <1>1, <1>2, <1>3
<1>5. VideoBlocks(b) = {o \in Chain(b) : IsVideo(Whole(b, o))}
  BY <1>3 DEF VideoBlocks
<1>6. \A o \in Chain(b) : o \in 4..126 /\ ~AtEnd(b, o)
  BY WalkOffsets DEF Chain
<1>7. VideoBlocks(b) \in SUBSET Nat
  BY <1>5, <1>6
<1>8. \E o \in VideoBlocks(b) : \A p \in VideoBlocks(b) : o <= p
  BY <1>1, <1>7, Smallest
<1>9. off \in VideoBlocks(b)
  BY <1>8 DEF FirstVideoBlock
<1>10. off \in Chain(b) /\ IsVideo(Whole(b, off)) /\ off \in 4..126 /\ ~AtEnd(b, off)
  BY <1>5, <1>6, <1>9
<1>11. len \in 1..31 /\ off + len + 1 \in off + 2..127 /\ off < DataEnd(b)
  <2>1. off \in 4..127
    BY <1>10
  <2>. QED
    BY <1>10, <2>1, DataStep, Zenon
<1>12. off < b[2]
  BY <1>4, <1>11 DEF DataEnd
<1>13. len \in 1..30 /\ off + len + 1 \in off + 2..126
  BY <1>1, <1>10, <1>11
<1>14. b[off] \in 0..254
  <2>1. b[off] \in 0..255 /\ b[off] % 32 = len
    <3>1. off \in 0..127
      BY <1>10
    <3>. QED
      BY <3>1, Bytewise, Zenon DEF BlockLen
  <2>2. 255 % 32 = 31
    OBVIOUS
  <2>3. b[off] # 255
    BY <1>13, <2>1, <2>2
  <2>. QED
    BY <2>1, <2>3
<1>. QED
  BY <1>1, <1>4, <1>10, <1>12, <1>13, <1>14

\* The insertion, byte by byte.
LEMMA InsertBytes ==
    ASSUME NEW b \in ByteBlocks, HasRoom(b),
           NEW off, off = FirstVideoBlock(b), NEW len, len = BlockLen(b, off),
           NEW c, c = InsertVic63(b)
    PROVE  Inserted(b, c, off, len)
<1>. DEFINE pos == off + len + 1
<1>1. /\ off \in 4..126 /\ len \in 1..30 /\ pos \in off + 2..126
      /\ b[2] \in 4..126 /\ b[off] \in 0..254
  BY RoomAt
<1>2. c = [i \in 0..127 |-> CASE i = off -> b[i] + 1
                              [] i = 2 -> b[i] + 1
                              [] i = pos -> 63
                              [] i > pos -> b[i - 1]
                              [] OTHER -> b[i]]
  BY DEF InsertVic63
<1>3. pos = off + len + 1
  OBVIOUS
<1>. HIDE DEF pos
<1>4. c[off] = b[off] + 1
  <2>1. off \in 0..127 /\ off # 2 /\ off # pos /\ ~(off > pos)
    BY <1>1
  <2>. QED
    BY ONLY <1>2, <2>1
<1>5. c[2] = b[2] + 1
  <2>1. 2 \in 0..127 /\ 2 # off /\ 2 # pos /\ ~(2 > pos)
    BY <1>1
  <2>. QED
    BY ONLY <1>2, <2>1
<1>6. c[pos] = 63
  <2>1. pos \in 0..127 /\ pos # off /\ pos # 2 /\ ~(pos > pos)
    BY <1>1
  <2>. QED
    BY ONLY <1>2, <2>1
<1>7. ASSUME NEW i \in 0..off + len, i # off, i # 2 PROVE c[i] = b[i]
  <2>1. i \in 0..127 /\ i # pos /\ ~(i > pos)
    BY <1>1, <1>3
  <2>. QED
    BY ONLY <1>2, <1>7, <2>1
<1>8. ASSUME NEW i \in pos + 1..127 PROVE c[i] = b[i - 1]
  <2>1. i \in 0..127 /\ i # pos /\ i > pos /\ i # off /\ i # 2
    BY <1>1
  <2>. QED
    BY ONLY <1>2, <2>1
<1>9. ASSUME NEW i \in 0..127 PROVE c[i] \in 0..255
  <2>1. CASE i = off
    BY <1>1, <1>4, <2>1
  <2>2. CASE i = 2
    BY <1>1, <1>5, <2>2
  <2>3. CASE i = pos
    BY <1>6, <2>3, SMTT(30)
  <2>4. CASE i \in 0..off + len /\ i # off /\ i # 2
    <3>1. c[i] = b[i]
      BY ONLY <1>7, <2>4
    <3>2. b[i] \in 0..255
      BY ONLY Bytewise
    <3>. QED
      BY ONLY <3>1, <3>2
  <2>5. CASE i \in pos + 1..127
    <3>1. i - 1 \in 0..127
      BY <1>1, <2>5
    <3>2. b[i - 1] \in 0..255
      BY ONLY b \in ByteBlocks, <3>1, Bytewise, Zenon
    <3>. QED
      BY <1>8, <2>5, <3>2
  <2>. QED
    BY <1>1, <1>3, <2>1, <2>2, <2>3, <2>4, <2>5
<1>10. c \in ByteBlocks
  <2>1. c = [i \in 0..127 |-> c[i]]
    BY <1>2
  <2>. QED
    BY ONLY <1>9, <2>1, Zenon DEF ByteBlocks
<1>11. off + len + 2 = pos + 1
  BY <1>1, <1>3
<1>. QED
  BY <1>1, <1>3, <1>4, <1>5, <1>6, <1>7, <1>8, <1>10, <1>11 DEF Inserted

\* An EDID of n blocks.
Blocks(n) == [1..n -> Valid]

\* A valid block has bytes.
LEMMA ValidBytes == ASSUME NEW b \in Valid PROVE b \in ByteBlocks
  BY DEF Valid

\* Files have two blocks, and the buffer of edid20 a third one.
LEMMA TwoBlocks ==
    /\ \A e \in Valid \X Valid : e \in Blocks(2)
    /\ Empty \in Blocks(2)
    /\ \A e \in Blocks(2) : /\ Append(e, Zeros) \in Blocks(3)
                            /\ Append(e, Zeros)[1] = e[1] /\ Append(e, Zeros)[2] = e[2]
                            /\ Append(e, Zeros)[3] = Zeros
                            /\ Len(e) = 2 /\ e # <<>>
    /\ \A e \in Blocks(3) : Len(e) = 3 /\ e # <<>>
<1>1. Zeros \in Valid
  BY ZerosValid
<1>2. \A e \in Valid \X Valid : e \in Blocks(2)
  BY DEF Blocks
<1>3. Empty \in Blocks(2)
  BY <1>1, <1>2 DEF Empty
<1>4. \A n \in Nat : \A e \in Blocks(n) : e \in Seq(Valid) /\ Len(e) = n
  BY DEF Blocks
<1>5. ASSUME NEW e \in Blocks(2)
      PROVE  /\ Append(e, Zeros) \in Blocks(3)
             /\ Append(e, Zeros)[1] = e[1] /\ Append(e, Zeros)[2] = e[2]
             /\ Append(e, Zeros)[3] = Zeros
  <2>1. e \in Seq(Valid) /\ Len(e) = 2
    BY <1>4
  <2>2. /\ Append(e, Zeros) \in Seq(Valid) /\ Len(Append(e, Zeros)) = 3
        /\ \A i \in 1..2 : Append(e, Zeros)[i] = e[i]
        /\ Append(e, Zeros)[3] = Zeros
    BY ONLY <1>1, <2>1, AppendProperties
  <2>. DEFINE a == Append(e, Zeros)
  <2>3. a \in Seq(Valid) /\ Len(a) = 3
    BY <2>2
  <2>. HIDE DEF a
  <2>4. a \in [1..3 -> Valid]
    BY ONLY <2>3, LenProperties
  <2>. QED
    BY <2>2, <2>4 DEF a, Blocks
<1>6. \A e \in Blocks(2) : Len(e) = 2 /\ e # <<>>
  <2>1. ASSUME NEW e \in Blocks(2) PROVE Len(e) = 2 /\ e # <<>>
    <3>1. Len(e) = 2
      BY <1>4
    <3>2. Len(<<>>) = 0
      OBVIOUS
    <3>. QED
      BY <3>1, <3>2
  <2>. QED
    BY <2>1
<1>7. \A e \in Blocks(3) : Len(e) = 3 /\ e # <<>>
  <2>1. ASSUME NEW e \in Blocks(3) PROVE Len(e) = 3 /\ e # <<>>
    <3>1. Len(e) = 3
      BY <1>4
    <3>2. Len(<<>>) = 0
      OBVIOUS
    <3>. QED
      BY <3>1, <3>2
  <2>. QED
    BY <2>1
<1>. QED
  BY <1>2, <1>3, <1>5, <1>6, <1>7

\* The patch makes three blocks of three blocks.
PatchedBlocks(e, c) ==
    /\ c \in Blocks(3)
    /\ ~Patchable(e) => c = e
    /\ Patchable(e) =>
         /\ c[1] = RecalculateEdidBlockChecksum([baseModes(e[1]) EXCEPT ![126] = 2])
         /\ c[2] = RecalculateEdidBlockChecksum(IF HasRoom(e[2]) THEN InsertVic63(e[2]) ELSE e[2])
         /\ c[3] = SecondExtension

\* That is what the patch does.
LEMMA PatchTyped ==
    ASSUME NEW e \in Blocks(3), NEW c, c = Patched(e)
    PROVE  PatchedBlocks(e, c)
<1>1. e[1] \in ByteBlocks /\ e[2] \in ByteBlocks
  BY ValidBytes DEF Blocks
<1>2. CASE ~Patchable(e)
  BY <1>2 DEF Patched, PatchedBlocks
<1>3. CASE Patchable(e)
  <2>. DEFINE b1 == [baseModes(e[1]) EXCEPT ![126] = 2]
              b2 == IF HasRoom(e[2]) THEN InsertVic63(e[2]) ELSE e[2]
              x == RecalculateEdidBlockChecksum(b1)
              y == RecalculateEdidBlockChecksum(b2)
  <2>1. b1 \in ByteBlocks
    <3>1. baseModes(e[1]) \in ByteBlocks
      BY <1>1, BaseModesBytes
    <3>2. 2 \in 0..255 /\ 126 \in 0..127
      OBVIOUS
    <3>. QED
      BY <3>1, <3>2, Zenon DEF ByteBlocks
  <2>2. b2 \in ByteBlocks
    <3>1. HasRoom(e[2]) => InsertVic63(e[2]) \in ByteBlocks
      BY <1>1, InsertBytes DEF Inserted
    <3>. QED
      BY <1>1, <3>1
  <2>3. c = <<x, y, SecondExtension>>
    BY <1>3 DEF Patched
  <2>. HIDE DEF b1, b2
  <2>4. x \in Valid /\ y \in Valid /\ SecondExtension \in Valid
    BY <2>1, <2>2, ChecksumRight, SecondExtensionValid
  <2>. HIDE DEF x, y
  <2>5. c \in Blocks(3) /\ c[1] = x /\ c[2] = y /\ c[3] = SecondExtension
    BY <2>3, <2>4 DEF Blocks
  <2>. QED
    BY <1>3, <2>5 DEF PatchedBlocks, x, y, b1, b2
<1>. QED
  BY <1>2, <1>3

\* The slot with the name, if there is one.
LEMMA NameAt ==
    ASSUME NEW b, NameSlots(b) # {}
    PROVE  /\ NameSlot(b) \in NameSlots(b) /\ NameSlot(b) \in BaseSlots
           /\ \A a \in NameSlots(b) : NameSlot(b) <= a
<1>1. NameSlots(b) \in SUBSET Nat /\ NameSlots(b) \subseteq BaseSlots
  BY DEF NameSlots, BaseSlots
<1>2. \E at \in NameSlots(b) : \A a \in NameSlots(b) : at <= a
  BY <1>1, Smallest, Zenon
<1>. QED
  BY <1>1, <1>2 DEF NameSlot

\* The bytes of a name.
LEMMA NameBytes ==
    ASSUME NEW b \in ByteBlocks, NameSlots(b) # {}
    PROVE  NameOf(b) \in [1..13 -> 0..255]
<1>1. NameSlot(b) \in {54, 72, 90, 108}
  BY NameAt DEF BaseSlots
<1>2. ASSUME NEW i \in 1..13 PROVE b[NameSlot(b) + 4 + i] \in 0..255
  <2>1. NameSlot(b) + 4 + i \in 0..127
    BY <1>1
  <2>. QED
    BY ONLY <2>1, b \in ByteBlocks, Bytewise, Zenon
<1>. QED
  BY <1>2, SMTT(30) DEF NameOf

\* c is b with the 13 bytes of text from at on.
Renamed(b, c, at, text) ==
    /\ c \in Valid
    /\ \A i \in 0..126 : i \notin at..at + 12 => c[i] = b[i]
    /\ \A i \in 1..13 : c[at + i - 1] = text[i]

\* The renaming replaces the first block's name by the display's, or does nothing.
NamedBlocks(e, d, n, c) ==
    /\ c \in Blocks(n)
    /\ \A m \in 2..n : c[m] = e[m]
    /\ d.edid = <<>> \/ NameSlots(d.edid[1]) = {} \/ NameSlots(e[1]) = {} => c = e
    /\ d.edid # <<>> /\ NameSlots(d.edid[1]) # {} /\ NameSlots(e[1]) # {} =>
          Renamed(e[1], c[1], NameSlot(e[1]) + 5, NameOf(d.edid[1]))

\* That is what the renaming does.
LEMMA NamedTyped ==
    ASSUME NEW n \in {2, 3}, NEW e \in Blocks(n), NEW d, d.edid \in Blocks(2) \cup {<<>>},
           NEW c, c = Named(e, d)
    PROVE  NamedBlocks(e, d, n, c)
<1>. DEFINE skip == d.edid = <<>> \/ NameSlots(d.edid[1]) = {} \/ NameSlots(e[1]) = {}
<1>1. CASE skip
  <2>1. c = e
    BY <1>1 DEF Named
  <2>. QED
    BY <1>1, <2>1 DEF NamedBlocks
<1>2. CASE ~skip
  <2>. DEFINE b == e[1]
              at == NameSlot(b) + 5
              text == NameOf(d.edid[1])
              r == [i \in 0..127 |-> IF i \in at..at + 12 THEN text[i - at + 1] ELSE b[i]]
              s == RecalculateEdidBlockChecksum(r)
  <2>1. c = [e EXCEPT ![1] = s]
    BY <1>2 DEF Named
  <2>2. b \in Valid /\ b \in ByteBlocks /\ 1 \in 1..n
    <3>1. 1 \in 1..n
      OBVIOUS
    <3>2. e[1] \in Valid
      BY ONLY <3>1 DEF Blocks
    <3>. QED
      BY <3>1, <3>2, ValidBytes
  <2>3. text \in [1..13 -> 0..255]
    <3>1. d.edid \in Blocks(2)
      BY <1>2
    <3>2. d.edid[1] \in Valid
      <4>1. 1 \in 1..2
        OBVIOUS
      <4>. QED
        BY <3>1, <4>1 DEF Blocks
    <3>. QED
      BY <1>2, <3>2, ValidBytes, NameBytes
  <2>4. at \in {59, 77, 95, 113}
    <3>1. NameSlot(b) \in {54, 72, 90, 108}
      BY ONLY <1>2, NameAt DEF BaseSlots
    <3>. QED
      BY <3>1
  <2>. HIDE DEF b, at, text
  <2>5. ASSUME NEW i \in 0..127
        PROVE  (IF i \in at..at + 12 THEN text[i - at + 1] ELSE b[i]) \in 0..255
    <3>1. CASE i \in at..at + 12
      <4>1. i - at + 1 \in 1..13
        BY <2>4, <3>1
      <4>2. text[i - at + 1] \in 0..255
        BY ONLY <2>3, <4>1
      <4>. QED
        BY <3>1, <4>2
    <3>2. CASE i \notin at..at + 12
      <4>1. b[i] \in 0..255
        BY ONLY <2>2, i \in 0..127, Bytewise, Zenon
      <4>. QED
        BY ONLY <3>2, <4>1
    <3>. QED
      BY <3>1, <3>2
  <2>6. r \in ByteBlocks
    BY ONLY <2>5, Zenon DEF ByteBlocks
  <2>7. \A i \in 0..127 : r[i] = IF i \in at..at + 12 THEN text[i - at + 1] ELSE b[i]
    OBVIOUS
  <2>. HIDE DEF r
  <2>8. s \in Valid /\ \A i \in 0..126 : s[i] = r[i]
    BY <2>6, ChecksumRight
  <2>. HIDE DEF s
  <2>9. Renamed(b, s, at, text)
    <3>1. ASSUME NEW i \in 0..126, i \notin at..at + 12 PROVE s[i] = b[i]
      <4>1. i \in 0..127
        OBVIOUS
      <4>. QED
        BY ONLY <2>7, <2>8, <3>1, <4>1, i \in 0..126
    <3>2. ASSUME NEW i \in 1..13 PROVE s[at + i - 1] = text[i]
      <4>. DEFINE j == at + i - 1
      <4>1. j \in 0..126 /\ j \in 0..127 /\ j \in at..at + 12 /\ j - at + 1 = i
        BY <2>4
      <4>. HIDE DEF j
      <4>2. s[j] = text[j - at + 1]
        BY ONLY <2>7, <2>8, <4>1
      <4>. QED
        BY <4>1, <4>2 DEF j
    <3>. QED
      BY <2>8, <3>1, <3>2 DEF Renamed
  <2>10. c \in Blocks(n) /\ c[1] = s /\ \A m \in 2..n : c[m] = e[m]
    <3>1. e \in [1..n -> Valid] /\ s \in Valid
      BY <2>8 DEF Blocks
    <3>2. c \in [1..n -> Valid] /\ c[1] = s
      BY ONLY <2>1, <2>2, <3>1
    <3>3. ASSUME NEW m \in 2..n PROVE c[m] = e[m]
      <4>1. m \in 1..n /\ m # 1
        OBVIOUS
      <4>. QED
        BY ONLY <2>1, <3>1, <4>1
    <3>. QED
      BY <3>2, <3>3 DEF Blocks
  <2>. QED
    BY ONLY <1>2, <2>9, <2>10 DEF NamedBlocks, b, at, text
<1>. QED
  BY <1>1, <1>2

(***************************************************************************)
(* The filter over the whole EDID.                                         *)
(***************************************************************************)

\* What becomes of each block.
FilteredAt(e, c, m, txVics, modes, allm, vrr) ==
    c[m] = IF m - 1 > e[1][126] THEN e[m]
           ELSE RecalculateEdidBlockChecksum(
                    IF e[m][0] = 2 THEN FilteredExtension(e[m], txVics, modes, allm, vrr)
                    ELSE e[m])

FilteredBlocks(e, c, n, txVics, modes, allm, vrr) ==
    /\ c \in Blocks(n)
    /\ c[1] = RecalculateEdidBlockChecksum(FilterDetailedTimings(e[1], 54, 126, modes))
    /\ c[1][126] = e[1][126]
    /\ \A m \in 2..n : /\ FilteredAt(e, c, m, txVics, modes, allm, vrr)
                       /\ c[m][0] = e[m][0]

\* What the filter does to the first block.
LEMMA FirstBlockFiltered ==
    ASSUME NEW b \in ByteBlocks, NEW modes,
           NEW d, d = FilterDetailedTimings(b, 54, 126, modes),
           NEW c, c = RecalculateEdidBlockChecksum(d)
    PROVE  /\ c \in Valid /\ d \in ByteBlocks
           /\ \A i \in 0..126 : i \notin 54..125 => c[i] = b[i]
           /\ SlotsFiltered(b, d, 54, 126, modes)
           /\ \A i \in 0..126 : c[i] = d[i]
<1>1. PICK start \in 0..127, end \in 0..127 : start = 54 /\ end = 126
  OBVIOUS
<1>2. d = FilterDetailedTimings(b, start, end, modes)
  BY <1>1, SMTT(30)
<1>3. d \in ByteBlocks /\ Outside(b, d, start, end) /\ SlotsFiltered(b, d, start, end, modes)
  BY ONLY <1>2, FilterTimings, Zenon
<1>4. c \in Valid /\ \A i \in 0..126 : c[i] = d[i]
  BY <1>3, ChecksumRight
<1>5. ASSUME NEW i \in 0..126, i \notin 54..125 PROVE c[i] = b[i]
  <2>1. i \in 0..127 /\ (i < start \/ i >= end)
    BY <1>1, <1>5
  <2>2. d[i] = b[i]
    BY <1>3, <2>1 DEF Outside
  <2>. QED
    BY <1>4, <2>2
<1>. QED
  BY <1>1, <1>3, <1>4, <1>5

\* That is what the filter does, block by block.
LEMMA FilteredTyped ==
    ASSUME NEW n \in {2, 3}, NEW e \in Blocks(n), NEW txEdid, NEW modes,
           NEW txVics, txVics = ParseTxEdidVics(txEdid),
           NEW allm, allm = ParseTxFeatureSupport(txEdid, "allm"),
           NEW vrr, vrr = ParseTxFeatureSupport(txEdid, "vrr"),
           NEW c, c = Filtered(e, txEdid, modes)
    PROVE  FilteredBlocks(e, c, n, txVics, modes, allm, vrr)
<1>1. DOMAIN e = 1..n
  BY DEF Blocks
<1>2. c = [m \in 1..n |->
            CASE m = 1 -> RecalculateEdidBlockChecksum(
                              FilterDetailedTimings(e[1], 54, 126, modes))
              [] m > 1 /\ m - 1 > e[1][126] -> e[m]
              [] m > 1 /\ m - 1 <= e[1][126] -> RecalculateEdidBlockChecksum(
                    IF e[m][0] = 2 THEN FilteredExtension(e[m], txVics, modes, allm, vrr)
                    ELSE e[m])]
  BY <1>1 DEF Filtered
<1>3. \A m \in 1..n : e[m] \in Valid /\ e[m] \in ByteBlocks
  <2>1. \A m \in 1..n : e[m] \in Valid
    BY DEF Blocks
  <2>. QED
    BY <2>1, ValidBytes
<1>4. e[1] \in Valid /\ e[1] \in ByteBlocks /\ e[1][126] \in Int
  <2>1. 1 \in 1..n /\ 126 \in 0..127
    OBVIOUS
  <2>2. e[1] \in ByteBlocks /\ e[1] \in Valid
    BY ONLY <1>3, <2>1
  <2>3. e[1][126] \in Nat
    BY ONLY <2>1, <2>2, Bytewise
  <2>. QED
    BY <2>2, <2>3
<1>5. allm \in BOOLEAN /\ vrr \in BOOLEAN
  BY DEF ParseTxFeatureSupport
<1>6. c[1] = RecalculateEdidBlockChecksum(FilterDetailedTimings(e[1], 54, 126, modes))
  <2>1. 1 \in 1..n
    OBVIOUS
  <2>. QED
    BY ONLY <1>2, <2>1
<1>7. c[1] \in Valid /\ c[1][126] = e[1][126]
  <2>1. 126 \in 0..126 /\ 126 \notin 54..125
    OBVIOUS
  <2>. QED
    BY <1>4, <1>6, <2>1, FirstBlockFiltered
<1>8. ASSUME NEW m \in 2..n
      PROVE  /\ FilteredAt(e, c, m, txVics, modes, allm, vrr)
             /\ c[m][0] = e[m][0] /\ c[m] \in Valid
  <2>. DEFINE x == FilteredExtension(e[m], txVics, modes, allm, vrr)
              y == RecalculateEdidBlockChecksum(IF e[m][0] = 2 THEN x ELSE e[m])
  <2>1. m \in 1..n /\ m # 1 /\ m > 1 /\ m \in Int
    OBVIOUS
  <2>2. m - 1 > e[1][126] \/ m - 1 <= e[1][126]
    BY <1>4, <2>1
  <2>3. CASE m - 1 > e[1][126]
    <3>1. ~(m - 1 <= e[1][126])
      BY <1>4, <2>1, <2>3
    <3>2. c[m] = e[m]
      BY ONLY <1>2, <2>1, <2>3, <3>1
    <3>. QED
      BY <1>3, <2>1, <2>3, <3>2 DEF FilteredAt
  <2>4. CASE m - 1 <= e[1][126]
    <3>1. ~(m - 1 > e[1][126])
      BY <1>4, <2>1, <2>4
    <3>2. c[m] = y
      BY ONLY <1>2, <2>1, <2>4, <3>1
    <3>3. e[m] \in ByteBlocks
      BY <1>3, <2>1
    <3>4. x \in ByteBlocks /\ x[0] = e[m][0]
      BY <1>5, <3>3, ExtensionTyped
    <3>5. FilteredAt(e, c, m, txVics, modes, allm, vrr)
      BY <3>1, <3>2 DEF FilteredAt
    <3>6. PICK z \in ByteBlocks : z = (IF e[m][0] = 2 THEN x ELSE e[m]) /\ z[0] = e[m][0]
      BY <3>3, <3>4
    <3>7. y = RecalculateEdidBlockChecksum(z)
      BY <3>6
    <3>. HIDE DEF x, y
    <3>8. y \in Valid /\ y[0] = z[0]
      BY <3>7, ChecksumRight
    <3>. QED
      BY <3>2, <3>5, <3>6, <3>8
  <2>. QED
    BY <2>2, <2>3, <2>4
<1>9. c \in Blocks(n)
  <2>1. c = [m \in 1..n |-> c[m]]
    BY <1>2
  <2>2. \A m \in 1..n : m = 1 \/ m \in 2..n
    OBVIOUS
  <2>3. \A m \in 1..n : c[m] \in Valid
    BY <1>7, <1>8, <2>2
  <2>. QED
    BY <2>1, <2>3 DEF Blocks
<1>. QED
  BY <1>6, <1>7, <1>8, <1>9 DEF FilteredBlocks

(***************************************************************************)
(* The types, and with them the checksums.                                 *)
(***************************************************************************)
Size(v) == IF v = 20 THEN 3 ELSE 2
SeenDisplays == TxDisplays \cup {NoDisplay}

LoadTyped ==
    /\ tx \in SeenDisplays /\ read \in SeenDisplays
    /\ stage \in {"idle", "patch", "name", "filter", "modes", "done"}
    /\ ver \in {0, 14, 20} /\ calm \in BOOLEAN
    /\ stage = "idle" => ver = 14
    /\ stage = "patch" => ver = 20
    /\ ver = 0 => stage = "done"
    /\ file \in Blocks(2) /\ edid \in Blocks(Size(ver)) /\ before \in Blocks(Size(ver))

\* A display hands out two blocks or none.
LEMMA DisplayBlocks == \A d \in SeenDisplays : d.edid \in Blocks(2) \cup {<<>>}
  BY DisplaysAssumption, NoDisplayAssumption, TwoBlocks DEF SeenDisplays

\* A file has two blocks.
LEMMA FileBlocks ==
    ASSUME NEW f \in Files \cup {Empty}
    PROVE  f \in Blocks(2)
  BY FilesAssumption, TwoBlocks

\* The types hold at first.
LEMMA LoadTypedInit == LoadInit => LoadTyped
  BY TwoBlocks DEF LoadInit, LoadTyped, SeenDisplays, Size

\* Every step keeps them.
LEMMA LoadTypedNext == LoadTyped /\ [LoadNext]_loadVars => LoadTyped'
<1>. SUFFICES ASSUME LoadTyped, [LoadNext]_loadVars PROVE LoadTyped'
  OBVIOUS
<1>1. CASE ExchangeDisplay
  BY <1>1 DEF ExchangeDisplay, LoadTyped, SeenDisplays
<1>2. CASE PassthroughEdidFromTxToRx
  <2>1. tx.edid \in Blocks(2) /\ ver = 14
    BY <1>2, DisplayBlocks DEF PassthroughEdidFromTxToRx, LoadTyped
  <2>. QED
    BY <1>2, <2>1 DEF PassthroughEdidFromTxToRx, LoadTyped, Size
<1>3. ASSUME NEW v \in {14, 20}, ReadDataFromFile(v)
      PROVE  /\ read' \in SeenDisplays /\ ver' = v /\ calm' \in BOOLEAN
             /\ file' \in Blocks(2) /\ edid' \in Blocks(Size(v)) /\ before' = edid'
  <2>1. file' \in Blocks(2)
    <3>1. PICK f \in Files \cup {Empty} : file' = f
      BY <1>3 DEF ReadDataFromFile
    <3>. QED
      BY <3>1, FileBlocks
  <2>2. edid' = IF v = 20 THEN Append(file', Zeros) ELSE file'
    BY <1>3 DEF ReadDataFromFile
  <2>3. edid' \in Blocks(Size(v))
    BY <2>1, <2>2, TwoBlocks DEF Size
  <2>. QED
    BY <1>3, <2>1, <2>3 DEF ReadDataFromFile, SeenDisplays
<1>4. CASE LoadEdidData
  BY <1>3, <1>4 DEF LoadEdidData, LoadTyped
<1>5. CASE LoadEdid20
  BY <1>3, <1>5 DEF LoadEdid20, LoadTyped
<1>6. CASE PatchEdidFor120Hz
  <2>1. edid \in Blocks(3) /\ ver = 20 /\ edid' = Patched(edid)
    BY <1>6 DEF PatchEdidFor120Hz, LoadTyped, Size
  <2>2. edid' \in Blocks(3)
    BY <2>1, PatchTyped DEF PatchedBlocks
  <2>. QED
    BY <1>6, <2>1, <2>2 DEF PatchEdidFor120Hz, LoadTyped, Size
<1>7. CASE PatchEdidMonitorName
  <2>1. /\ Size(ver) \in {2, 3} /\ edid \in Blocks(Size(ver)) /\ edid' = Named(edid, tx)
        /\ tx.edid \in Blocks(2) \cup {<<>>}
    BY <1>7, DisplayBlocks DEF PatchEdidMonitorName, LoadTyped, Size
  <2>2. edid' \in Blocks(Size(ver))
    BY <2>1, NamedTyped DEF NamedBlocks
  <2>. QED
    BY <1>7, <2>2 DEF PatchEdidMonitorName, LoadTyped
<1>8. CASE ReadEdidFromHdmiTx
  BY <1>8 DEF ReadEdidFromHdmiTx, LoadTyped, SeenDisplays
<1>9. CASE FilterEdidByTxCapabilities
  <2>. DEFINE modes == ReadTxDispCapModes(tx)
  <2>1. /\ Size(ver) \in {2, 3} /\ edid \in Blocks(Size(ver))
        /\ edid' = IF modes = {} THEN edid ELSE Filtered(edid, read.edid, modes)
    BY <1>9 DEF FilterEdidByTxCapabilities, LoadTyped, Size
  <2>. HIDE DEF modes
  <2>2. Filtered(edid, read.edid, modes) \in Blocks(Size(ver))
    BY <2>1, FilteredTyped DEF FilteredBlocks
  <2>3. edid' \in Blocks(Size(ver))
    BY <2>1, <2>2
  <2>. QED
    BY <1>9, <2>3 DEF FilterEdidByTxCapabilities, LoadTyped
<1>10. CASE UpdataEdidDataWithPort
  BY <1>10, TwoBlocks DEF UpdataEdidDataWithPort, LoadTyped, SeenDisplays, Size
<1>11. CASE UNCHANGED loadVars
  BY <1>11 DEF LoadTyped, loadVars
<1>. QED
  BY <1>1, <1>2, <1>4, <1>5, <1>6, <1>7, <1>8, <1>9, <1>10, <1>11 DEF LoadNext

\* LoadEdidData only ever makes EDIDs of valid blocks, two or three of them.
THEOREM LoadTypeCorrect == LoadSpec => []LoadTyped
<1>. QED
  BY LoadTypedInit, LoadTypedNext, PTL DEF LoadSpec

\* Every block of the buffer adds up to 0.
THEOREM ChecksumsValidCorrect == LoadSpec => []ChecksumsValid
<1>1. LoadTyped => ChecksumsValid
  <2>. SUFFICES ASSUME LoadTyped PROVE ChecksumsValid
    OBVIOUS
  <2>1. PICK n : edid \in [1..n -> Valid]
    BY DEF LoadTyped, Blocks
  <2>2. \A m \in DOMAIN edid : edid[m] \in Valid
    BY <2>1
  <2>. QED
    BY ONLY <2>2, Zenon DEF ChecksumsValid, Valid, ByteBlocks
<1>. QED
  BY ONLY <1>1, LoadTypeCorrect, PTL

(***************************************************************************)
(* The name of the display.                                                *)
(***************************************************************************)

\* What makes a slot one with the name.
LEMMA NameMark ==
    ASSUME NEW b, NEW at \in Int
    PROVE  IsName(Slot(b, at)) <=> b[at] = 0 /\ b[at + 1] = 0 /\ b[at + 3] = 252
<1>1. \A i \in 0..17 : Slot(b, at)[i] = b[at + i]
  BY DEF Slot
<1>2. Slot(b, at)[0] = b[at + 0] /\ Slot(b, at)[1] = b[at + 1] /\ Slot(b, at)[3] = b[at + 3]
  BY <1>1
<1>. QED
  BY <1>2 DEF IsName

\* Blocks with the same marks have the same slot.
LEMMA SameNames ==
    ASSUME NEW b, NEW c,
           \A at \in BaseSlots : IsName(Slot(c, at)) <=> IsName(Slot(b, at))
    PROVE  NameSlots(c) = NameSlots(b) /\ NameSlot(c) = NameSlot(b)
<1>1. NameSlots(c) = NameSlots(b)
  BY DEF NameSlots
<1>. QED
  BY <1>1 DEF NameSlot

\* The block shows this name.
Shown(b, text) == NameSlots(b) # {} /\ NameOf(b) = text

\* What the renaming is for.
LEMMA RenamedShows ==
    ASSUME NEW b \in ByteBlocks, NameSlots(b) # {}, NEW c, NEW text \in [1..13 -> 0..255],
           Renamed(b, c, NameSlot(b) + 5, text)
    PROVE  Shown(c, text)
<1>1. PICK at : at = NameSlot(b) /\ at \in {54, 72, 90, 108}
  BY NameAt DEF BaseSlots
<1>2. /\ \A i \in 0..126 : i \notin at + 5..at + 5 + 12 => c[i] = b[i]
      /\ \A i \in 1..13 : c[at + 5 + i - 1] = text[i]
  BY <1>1 DEF Renamed
<1>3. ASSUME NEW a \in BaseSlots PROVE IsName(Slot(c, a)) <=> IsName(Slot(b, a))
  <2>1. a \in {54, 72, 90, 108}
    BY DEF BaseSlots
  <2>2. /\ a \in 0..126 /\ a \notin at + 5..at + 5 + 12
        /\ a + 1 \in 0..126 /\ a + 1 \notin at + 5..at + 5 + 12
        /\ a + 3 \in 0..126 /\ a + 3 \notin at + 5..at + 5 + 12
    BY ONLY <1>1, <2>1
  <2>3. c[a] = b[a] /\ c[a + 1] = b[a + 1] /\ c[a + 3] = b[a + 3]
    BY <1>2, <2>2
  <2>. QED
    BY <2>1, <2>3, NameMark
<1>4. NameSlots(c) = NameSlots(b) /\ NameSlot(c) = at
  BY <1>1, <1>3, SameNames
<1>5. \A i \in 1..13 : c[at + 4 + i] = text[i]
  <2>1. \A i \in 1..13 : at + 5 + i - 1 = at + 4 + i
    BY <1>1
  <2>. QED
    BY <1>2, <2>1
<1>6. NameOf(c) = [i \in 1..13 |-> c[at + 4 + i]]
  BY <1>4 DEF NameOf
<1>7. NameOf(c) = text
  BY <1>5, <1>6
<1>. QED
  BY <1>4, <1>7 DEF Shown

\* The filter takes no name for a timing.
LEMMA FilterShows ==
    ASSUME NEW b \in ByteBlocks, NEW modes, NEW text, Shown(b, text),
           NEW c, c = RecalculateEdidBlockChecksum(FilterDetailedTimings(b, 54, 126, modes))
    PROVE  Shown(c, text)
<1>1. PICK d : d = FilterDetailedTimings(b, 54, 126, modes)
  OBVIOUS
<1>2. SlotsFiltered(b, d, 54, 126, modes) /\ \A i \in 0..126 : c[i] = d[i]
  BY <1>1, FirstBlockFiltered
<1>3. \A at \in BaseSlots : at \in TimingSlots(54, 126) /\ at \in {54, 72, 90, 108}
  <2>1. \A k \in 0..3 : (18 * k) % 18 = 0
    OBVIOUS
  <2>2. \A at \in BaseSlots : \E k \in 0..3 : at = 54 + 18 * k
    BY DEF BaseSlots
  <2>3. ASSUME NEW at \in BaseSlots PROVE at \in TimingSlots(54, 126)
    <3>1. PICK k \in 0..3 : at = 54 + 18 * k
      BY <2>2
    <3>2. at - 54 = 18 * k /\ at \in 54..126 /\ at + 18 <= 126
      BY <3>1
    <3>. QED
      BY <2>1, <3>2 DEF TimingSlots
  <2>. QED
    BY <2>3 DEF BaseSlots
<1>4. \A at \in BaseSlots : Slot(c, at) = Slot(d, at)
  <2>1. ASSUME NEW at \in BaseSlots, NEW i \in 0..17 PROVE c[at + i] = d[at + i]
    <3>1. at + i \in 0..126
      BY <1>3
    <3>. QED
      BY <1>2, <3>1
  <2>. QED
    BY <2>1 DEF Slot
<1>5. ASSUME NEW at \in BaseSlots, IsName(Slot(b, at)) PROVE Slot(c, at) = Slot(b, at)
  <2>1. Slot(b, at)[0] = 0 /\ Slot(b, at)[1] = 0
    BY <1>5 DEF IsName
  <2>2. ~IsTiming(Slot(b, at))
    BY <2>1 DEF IsTiming, PixelClock
  <2>. QED
    BY <1>2, <1>3, <1>4, <2>2 DEF SlotsFiltered
<1>6. ASSUME NEW at \in BaseSlots, ~IsName(Slot(b, at)) PROVE ~IsName(Slot(c, at))
  <2>1. Slot(c, at) = NoBytes \/ Slot(c, at) = Slot(b, at)
    BY <1>2, <1>3, <1>4 DEF SlotsFiltered
  <2>2. ~IsName(NoBytes)
    BY DEF IsName, NoBytes
  <2>. QED
    BY <1>6, <2>1, <2>2
<1>7. NameSlots(c) = NameSlots(b) /\ NameSlot(c) = NameSlot(b)
  BY <1>5, <1>6, SameNames
<1>8. PICK at : at = NameSlot(b) /\ at \in BaseSlots /\ IsName(Slot(b, at))
  BY NameAt DEF Shown, NameSlots
<1>9. \A i \in 0..17 : c[at + i] = b[at + i]
  <2>1. Slot(c, at) = Slot(b, at)
    BY <1>5, <1>8
  <2>. QED
    BY <2>1 DEF Slot
<1>10. ASSUME NEW i \in 1..13 PROVE c[at + 4 + i] = b[at + 4 + i]
  <2>1. at \in Nat /\ 4 + i \in 0..17 /\ at + 4 + i = at + (4 + i)
    BY <1>3, <1>8
  <2>. QED
    BY <1>9, <2>1
<1>11. NameOf(c) = NameOf(b)
  BY <1>7, <1>8, <1>10 DEF NameOf
<1>. QED
  BY <1>7, <1>11 DEF Shown

\* The patch leaves the fourth slot of the first block.
LEMMA PatchedName ==
    ASSUME NEW e \in Blocks(3), NEW c, c = Patched(e), Patchable(e), 108 \in NameSlots(e[1])
    PROVE  NameSlots(c[1]) # {}
<1>. DEFINE b == e[1]
            d == [baseModes(b) EXCEPT ![126] = 2]
<1>1. b \in ByteBlocks
  BY ValidBytes DEF Blocks
<1>2. c[1] = RecalculateEdidBlockChecksum(d)
  BY PatchTyped DEF PatchedBlocks
<1>. HIDE DEF b
<1>3. baseModes(b) \in ByteBlocks /\ \A i \in 0..127 : i \notin 54..107 => baseModes(b)[i] = b[i]
  BY <1>1, BaseModesBytes
<1>4. d \in ByteBlocks /\ \A i \in 108..125 : d[i] = b[i]
  <2>1. 2 \in 0..255
    OBVIOUS
  <2>2. PICK g \in ByteBlocks : g = baseModes(b)
    BY <1>3
  <2>3. d = [g EXCEPT ![126] = 2] /\ \A i \in 0..127 : i \notin 54..107 => g[i] = b[i]
    BY <1>3, <2>2
  <2>4. \A i \in 108..125 : i \in 0..127 /\ i # 126 /\ i \notin 54..107
    BY SMTT(30)
  <2>5. d \in ByteBlocks
    BY ONLY <2>1, <2>2, <2>3, Zenon DEF ByteBlocks
  <2>6. g = [i \in 0..127 |-> g[i]]
    BY <2>2, Zenon DEF ByteBlocks
  <2>7. \A i \in 0..127 : i # 126 => d[i] = g[i]
    BY ONLY <2>3, <2>6
  <2>. QED
    BY ONLY <2>3, <2>4, <2>5, <2>7
<1>. HIDE DEF d
<1>5. \A i \in 108..125 : c[1][i] = b[i]
  <2>1. \A i \in 108..125 : i \in 0..126
    OBVIOUS
  <2>. QED
    BY <1>2, <1>4, <2>1, ChecksumRight
<1>6. IsName(Slot(b, 108))
  BY DEF b, NameSlots
<1>7. IsName(Slot(c[1], 108))
  <2>1. PICK at : at = 108
    OBVIOUS
  <2>2. at \in 108..125 /\ at + 1 \in 108..125 /\ at + 3 \in 108..125
    BY <2>1
  <2>3. IsName(Slot(b, at))
    BY <1>6, <2>1
  <2>4. IsName(Slot(c[1], at))
    BY <1>5, <2>2, <2>3, NameMark
  <2>. QED
    BY <2>1, <2>4
<1>. QED
  BY <1>7 DEF NameSlots, BaseSlots

\* The buffer before the name is put in.
Begun ==
    /\ stage = "patch" => edid = Append(file, Zeros)
    /\ stage = "name" => edid = IF ver = 20 THEN Patched(Append(file, Zeros)) ELSE file

\* The file has the display's name, cannot have it or loses it to the patch.
NameTold ==
    stage \in {"filter", "modes", "done"} /\ ver # 0 /\ calm /\ tx.edid # <<>> =>
        \/ NameSlots(tx.edid[1]) = {}
        \/ NameSlots(file[1]) = {}
        \/ ver = 20 /\ Patchable(file) /\ 108 \notin NameSlots(file[1])
        \/ Shown(edid[1], NameOf(tx.edid[1]))

NameInv == LoadTyped /\ Begun /\ NameTold

\* Every step keeps track of the buffer.
LEMMA BegunNext == LoadTyped /\ Begun /\ [LoadNext]_loadVars => Begun'
<1>. SUFFICES ASSUME LoadTyped, Begun, [LoadNext]_loadVars PROVE Begun'
  OBVIOUS
<1>1. CASE ExchangeDisplay
  BY <1>1 DEF ExchangeDisplay, Begun
<1>2. CASE PassthroughEdidFromTxToRx
  BY <1>2 DEF PassthroughEdidFromTxToRx, Begun
<1>3. CASE LoadEdidData
  BY <1>3 DEF LoadEdidData, ReadDataFromFile, Begun
<1>4. CASE LoadEdid20
  BY <1>4 DEF LoadEdid20, ReadDataFromFile, Begun
<1>5. CASE PatchEdidFor120Hz
  BY <1>5 DEF PatchEdidFor120Hz, Begun, LoadTyped
<1>6. CASE PatchEdidMonitorName
  BY <1>6 DEF PatchEdidMonitorName, Begun
<1>7. CASE ReadEdidFromHdmiTx
  BY <1>7 DEF ReadEdidFromHdmiTx, Begun
<1>8. CASE FilterEdidByTxCapabilities
  BY <1>8 DEF FilterEdidByTxCapabilities, Begun
<1>9. CASE UpdataEdidDataWithPort
  BY <1>9 DEF UpdataEdidDataWithPort, Begun
<1>10. CASE UNCHANGED loadVars
  BY <1>10, SMTT(30) DEF Begun, loadVars
<1>. QED
  BY <1>1, <1>2, <1>3, <1>4, <1>5, <1>6, <1>7, <1>8, <1>9, <1>10 DEF LoadNext

\* The name goes in where a slot for it is left.
LEMMA NamePutIn ==
    ASSUME LoadTyped, Begun, PatchEdidMonitorName, tx.edid # <<>>,
           NameSlots(tx.edid[1]) # {}, NameSlots(file[1]) # {},
           ~(ver = 20 /\ Patchable(file) /\ 108 \notin NameSlots(file[1]))
    PROVE  Shown(edid'[1], NameOf(tx.edid[1]))
<1>1. /\ Size(ver) \in {2, 3} /\ edid \in Blocks(Size(ver)) /\ edid' = Named(edid, tx)
      /\ tx.edid \in Blocks(2) /\ stage = "name" /\ file \in Blocks(2) /\ ver \in {0, 14, 20}
  BY DisplayBlocks DEF PatchEdidMonitorName, LoadTyped, Size
<1>2. edid = IF ver = 20 THEN Patched(Append(file, Zeros)) ELSE file
  BY <1>1 DEF Begun
<1>3. NameSlots(edid[1]) # {}
  <2>1. CASE ver # 20
    BY <1>2, <2>1
  <2>2. CASE ver = 20
    <3>. DEFINE e == Append(file, Zeros)
    <3>1. e \in Blocks(3) /\ e[1] = file[1] /\ e[2] = file[2]
      BY <1>1, TwoBlocks
    <3>2. Patchable(e) <=> Patchable(file)
      BY <3>1 DEF Patchable
    <3>3. edid = Patched(e)
      BY <1>2, <2>2
    <3>. HIDE DEF e
    <3>4. CASE Patchable(e)
      <4>1. 108 \in NameSlots(e[1])
        BY <2>2, <3>1, <3>2, <3>4
      <4>. QED
        BY <3>1, <3>3, <3>4, <4>1, PatchedName
    <3>5. CASE ~Patchable(e)
      <4>1. edid = e
        BY <3>3, <3>5 DEF Patched
      <4>. QED
        BY <3>1, <4>1
    <3>. QED
      BY <3>4, <3>5
  <2>. QED
    BY <2>1, <2>2
<1>4. Renamed(edid[1], edid'[1], NameSlot(edid[1]) + 5, NameOf(tx.edid[1]))
  <2>1. NamedBlocks(edid, tx, Size(ver), edid')
    BY <1>1, NamedTyped
  <2>. QED
    BY <1>1, <1>3, <2>1 DEF NamedBlocks
<1>5. edid[1] \in ByteBlocks /\ tx.edid[1] \in ByteBlocks
  <2>1. 1 \in 1..2 /\ 1 \in 1..Size(ver)
    BY ONLY <1>1
  <2>. QED
    BY <1>1, <2>1, ValidBytes DEF Blocks
<1>6. NameOf(tx.edid[1]) \in [1..13 -> 0..255]
  BY <1>5, NameBytes, ZenonT(60)
<1>. QED
  BY <1>3, <1>4, <1>5, <1>6, RenamedShows, Zenon

\* Every step keeps the name.
LEMMA NameToldNext == NameInv /\ [LoadNext]_loadVars => NameTold'
<1>. SUFFICES ASSUME NameInv, [LoadNext]_loadVars PROVE NameTold'
  OBVIOUS
<1>. USE DEF NameInv
<1>1. CASE ExchangeDisplay
  BY <1>1 DEF ExchangeDisplay, NameTold
<1>2. CASE PassthroughEdidFromTxToRx
  BY <1>2 DEF PassthroughEdidFromTxToRx, NameTold
<1>3. CASE LoadEdidData
  BY <1>3 DEF LoadEdidData, NameTold
<1>4. CASE LoadEdid20
  BY <1>4 DEF LoadEdid20, NameTold
<1>5. CASE PatchEdidFor120Hz
  BY <1>5 DEF PatchEdidFor120Hz, NameTold
<1>6. CASE PatchEdidMonitorName
  BY <1>6, NamePutIn DEF PatchEdidMonitorName, NameTold
<1>7. CASE ReadEdidFromHdmiTx
  BY <1>7 DEF ReadEdidFromHdmiTx, NameTold
<1>8. CASE FilterEdidByTxCapabilities
  <2>. DEFINE modes == ReadTxDispCapModes(tx)
  <2>1. /\ Size(ver) \in {2, 3} /\ edid \in Blocks(Size(ver))
        /\ edid' = IF modes = {} THEN edid ELSE Filtered(edid, read.edid, modes)
        /\ stage = "modes" /\ UNCHANGED <<tx, ver, file, calm>>
    BY <1>8 DEF FilterEdidByTxCapabilities, LoadTyped, Size
  <2>. HIDE DEF modes
  <2>2. ASSUME NEW text, Shown(edid[1], text) PROVE Shown(edid'[1], text)
    <3>1. CASE modes = {}
      BY <2>1, <2>2, <3>1
    <3>2. CASE modes # {}
      <4>1. edid' = Filtered(edid, read.edid, modes)
        BY <2>1, <3>2
      <4>2. edid'[1] = RecalculateEdidBlockChecksum(FilterDetailedTimings(edid[1], 54, 126, modes))
        BY <2>1, <4>1, FilteredTyped DEF FilteredBlocks
      <4>3. edid[1] \in ByteBlocks
        <5>1. 1 \in 1..Size(ver)
          BY <2>1
        <5>. QED
          BY <2>1, <5>1, ValidBytes DEF Blocks
      <4>. QED
        BY <2>2, <4>2, <4>3, FilterShows
    <3>. QED
      BY <3>1, <3>2
  <2>. QED
    BY <2>1, <2>2 DEF NameTold
<1>9. CASE UpdataEdidDataWithPort
  BY <1>9 DEF UpdataEdidDataWithPort, NameTold
<1>10. CASE UNCHANGED loadVars
  BY <1>10 DEF NameTold, loadVars
<1>. QED
  BY <1>1, <1>2, <1>3, <1>4, <1>5, <1>6, <1>7, <1>8, <1>9, <1>10 DEF LoadNext

\* The source sees the display's name.
THEOREM NameShownCorrect == LoadSpec => []NameShown
<1>1. LoadInit => NameInv
  BY LoadTypedInit DEF LoadInit, NameInv, Begun, NameTold
<1>2. NameInv /\ [LoadNext]_loadVars => NameInv'
  BY LoadTypedNext, BegunNext, NameToldNext DEF NameInv
<1>3. NameInv => NameShown
  BY DEF NameInv, NameTold, NameShown, Shown
<1>. QED
  BY <1>1, <1>2, <1>3, PTL DEF LoadSpec

(***************************************************************************)
(* The insertion.                                                          *)
(***************************************************************************)

\* What the walk begins in and does not leave holds the offsets it comes to.
LEMMA ChainInside ==
    ASSUME NEW b \in ByteBlocks, NEW T, 4 \in T,
           \A p \in T : p \in 4..127 /\ (~AtEnd(b, p) => p + BlockLen(b, p) + 1 \in T)
    PROVE  Chain(b) \subseteq T
<1>. DEFINE K == {k \in Nat : \A p \in T : 127 - p < k => Walk(b)[p] \subseteq T}
<1>1. 0 \in K
  OBVIOUS
<1>2. ASSUME NEW k \in K PROVE k + 1 \in K
  <2>1. ASSUME NEW p \in T, 127 - p < k + 1 PROVE Walk(b)[p] \subseteq T
    <3>1. CASE AtEnd(b, p)
      BY <3>1, WalkStep
    <3>2. CASE ~AtEnd(b, p)
      <4>. DEFINE n == p + BlockLen(b, p) + 1
      <4>1. n \in p + 2..127 /\ Walk(b)[p] = {p} \cup Walk(b)[n] /\ n \in T
        BY <3>2, WalkStep, ZenonT(60)
      <4>2. p \in 4..127
        OBVIOUS
      <4>. HIDE DEF n
      <4>3. 127 - n < k
        BY <2>1, <4>1, <4>2
      <4>4. Walk(b)[n] \subseteq T
        BY <4>1, <4>3
      <4>. QED
        BY <4>1, <4>4
    <3>. QED
      BY ONLY <3>1, <3>2
  <2>. QED
    BY <2>1
<1>3. 124 \in K
  <2>. HIDE DEF K
  <2>1. K \in SUBSET Nat
    BY DEF K
  <2>. QED
    BY <1>1, <1>2, <2>1, SetInduction
<1>4. Walk(b)[4] \subseteq T
  BY <1>3
<1>. QED
  BY <1>4 DEF Chain

\* Putting a data block in its own place changes nothing.
LEMMA SplicedSelf ==
    ASSUME NEW b \in ByteBlocks, NEW off \in 4..126, ~AtEnd(b, off),
           NEW n, n = BlockLen(b, off) + 1
    PROVE  Spliced(b, off, n, Whole(b, off), b)
<1>1. n \in 2..32 /\ off + n \in off + 2..127
  <2>1. BlockLen(b, off) \in 1..31 /\ off + BlockLen(b, off) + 1 \in off + 2..127
    <3>1. off \in 4..127
      OBVIOUS
    <3>. QED
      BY <3>1, DataStep, Zenon
  <2>. QED
    BY <2>1
<1>2. b[2] \in 0..255
  <2>1. 2 \in 0..127
    OBVIOUS
  <2>. QED
    BY ONLY <2>1, Bytewise, ZenonT(60)
<1>3. b[2] = IF b[2] = 0 THEN 0 ELSE (b[2] - 0) % 256
  BY <1>2
<1>4. ASSUME NEW i \in 1..n PROVE b[off + i - 1] = Whole(b, off)[i]
  BY DEF Whole
<1>5. ASSUME NEW i \in off + n..126 PROVE b[i] = IF i + 0 < 127 THEN b[i + 0] ELSE 0
  <2>1. i + 0 = i /\ i < 127
    BY <1>1
  <2>. QED
    BY <2>1
<1>6. PICK cut : cut = BlockLen(b, off) + 1 - n /\ cut = 0
  <2>1. BlockLen(b, off) \in Int
    BY ONLY Offsets
  <2>. QED
    BY <2>1
<1>7. off + n \in off..127 /\ cut \in 0..32
  BY <1>1, <1>6
<1>. QED
  BY <1>3, <1>4, <1>5, <1>6, <1>7 DEF Spliced

\* What is before a data block the walk comes to.
LEMMA ChainPassed ==
    ASSUME NEW b \in ByteBlocks, NEW S, Laid(b, S), b[2] # 0, NEW off \in Chain(b)
    PROVE  off \in S /\ \E done, G : Done(b, off, done) /\ Passed(b, off, G)
<1>. DEFINE T == {p \in S : \E done, G : Done(b, p, done) /\ Passed(b, p, G)}
<1>1. 4 \in T
  <2>1. 4 \in S
    BY DEF Laid
  <2>2. Done(b, 4, {})
    BY DEF Done
  <2>3. Passed(b, 4, {4})
    BY DEF Passed
  <2>. QED
    BY <2>1, <2>2, <2>3
<1>2. ASSUME NEW p \in T
      PROVE  p \in 4..127 /\ (~AtEnd(b, p) => p + BlockLen(b, p) + 1 \in T)
  <2>1. p \in 4..127 /\ p \in S
    BY StationsBefore
  <2>2. ASSUME ~AtEnd(b, p) PROVE p + BlockLen(b, p) + 1 \in T
    <3>1. PICK done, G : Done(b, p, done) /\ Passed(b, p, G)
      BY SMTT(30)
    <3>. DEFINE n == BlockLen(b, p) + 1
    <3>2. p \in 4..126 /\ BlockLen(b, p) \in 1..31
      BY ONLY <2>1, <2>2, DataStep
    <3>3. n \in 2..32 /\ p + BlockLen(b, p) + 1 = p + n
      BY <3>2
    <3>4. Whole(b, p) \in DataBlock /\ Len(Whole(b, p)) = n
      BY <2>2, <3>2, WholeBlock DEF AtEnd
    <3>5. Spliced(b, p, n, Whole(b, p), b)
      BY <2>2, <3>2, SplicedSelf
    <3>. HIDE DEF n
    <3>6. \E d, H : Done(b, p + n, d) /\ Passed(b, p + n, H)
      <4>1. PICK at, new : at = p /\ new = Whole(b, p)
        OBVIOUS
      <4>2. /\ at \in 4..126 /\ Spliced(b, at, n, new, b)
            /\ new \in DataBlock /\ Len(new) = n /\ n \in 2..32
            /\ Done(b, at, done) /\ Passed(b, at, G)
        BY ONLY <3>1, <3>2, <3>3, <3>4, <3>5, <4>1
      <4>3. Done(b, at + n, done \cup ({new} \ {<<>>})) /\ Passed(b, at + n, G \cup {at + n})
        BY ONLY <4>2, DoneStep, b \in ByteBlocks
      <4>. QED
        BY <4>1, <4>3
    <3>7. p + n \in S
      <4>1. p # DataEnd(b)
        BY <2>1, <2>2, DataStep
      <4>2. p + BlockLen(b, p) + 1 \in S
        BY <2>1, <4>1 DEF Laid
      <4>. QED
        BY <3>3, <4>2
    <3>. QED
      BY <3>3, <3>6, <3>7
  <2>. QED
    BY <2>1, <2>2
<1>3. Chain(b) \subseteq T
  <2>. HIDE DEF T
  <2>. QED
    BY <1>1, <1>2, ChainInside
<1>. QED
  BY <1>3

\* w is v with VIC 63.
Grown(v, w) ==
    /\ v \in DataBlock /\ w \in DataBlock /\ IsVideo(v) /\ IsVideo(w)
    /\ Vics(w) = Vics(v) \cup {63}

\* The data block grows.
LEMMA InsertGrows ==
    ASSUME NEW b \in ByteBlocks, NEW off, ~AtEnd(b, off), NEW len, len = BlockLen(b, off),
           IsVideo(Whole(b, off)), NEW c, Inserted(b, c, off, len), off < b[2]
    PROVE  /\ BlockLen(c, off) = len + 1 /\ ~AtEnd(c, off)
           /\ Grown(Whole(b, off), Whole(c, off))
<1>1. /\ off \in 4..126 /\ len \in 1..30 /\ off + len + 1 \in off + 2..126
      /\ b[2] \in 4..126 /\ c \in ByteBlocks
      /\ c[off] = b[off] + 1 /\ c[2] = b[2] + 1 /\ c[off + len + 1] = 63
      /\ \A i \in 0..off + len : i # off /\ i # 2 => c[i] = b[i]
  BY DEF Inserted
<1>2. b[off] \in 0..255 /\ b[off] % 32 = len
  <2>1. off \in 0..127
    BY <1>1
  <2>. QED
    BY <2>1, Bytewise, Zenon DEF BlockLen
<1>3. c[off] % 32 = len + 1 /\ c[off] \div 32 = b[off] \div 32
  <2>1. \A x \in 0..255 : x % 32 <= 30 => (x + 1) % 32 = (x % 32) + 1 /\ (x + 1) \div 32 = x \div 32
    OBVIOUS
  <2>. QED
    BY <1>1, <1>2, <2>1
<1>4. BlockLen(c, off) = len + 1
  BY <1>3 DEF BlockLen
<1>5. DataEnd(c) = b[2] + 1
  BY <1>1 DEF DataEnd
<1>6. ~AtEnd(c, off) /\ ~Stops(c, off)
  BY <1>1, <1>4, <1>5 DEF AtEnd, Stops
<1>7. ~Stops(b, off)
  BY DEF AtEnd
<1>8. PICK v, w : v = Whole(b, off) /\ w = Whole(c, off)
  OBVIOUS
<1>9. /\ v \in DataBlock /\ Len(v) = len + 1 /\ v[1] = b[off]
      /\ \A i \in 1..len + 1 : v[i] = b[off + i - 1]
  BY <1>1, <1>7, <1>8, WholeBlock, Zenon
<1>10. /\ w \in DataBlock /\ Len(w) = len + 2 /\ w[1] = c[off]
       /\ \A i \in 1..len + 2 : w[i] = c[off + i - 1]
  <2>1. BlockLen(c, off) + 1 = len + 2
    BY <1>1, <1>4
  <2>2. w \in DataBlock /\ Len(w) = BlockLen(c, off) + 1 /\ w[1] = c[off]
    BY ONLY <1>1, <1>6, <1>8, WholeBlock, Zenon
  <2>3. \A i \in 1..BlockLen(c, off) + 1 : w[i] = c[off + i - 1]
    BY ONLY <1>1, <1>6, <1>8, WholeBlock
  <2>. QED
    BY <2>1, <2>2, <2>3
<1>11. ASSUME NEW i \in 2..len + 1 PROVE w[i] = v[i]
  <2>1. /\ i \in 1..len + 1 /\ i \in 1..len + 2
        /\ off + i - 1 \in 0..off + len /\ off + i - 1 # off /\ off + i - 1 # 2
    BY <1>1
  <2>. QED
    BY <1>1, <1>9, <1>10, <2>1
<1>12. w[len + 2] = 63
  <2>1. len + 2 \in 1..len + 2 /\ off + (len + 2) - 1 = off + len + 1
    BY <1>1
  <2>. QED
    BY ONLY <1>1, <1>10, <2>1
<1>13. IsVideo(v) /\ IsVideo(w)
  BY <1>3, <1>8, <1>9, <1>10 DEF IsVideo, BlockTag
<1>14. Vics(v) = {v[i] % 128 : i \in 2..len + 1} /\ Vics(w) = {w[i] % 128 : i \in 2..len + 2}
  BY <1>9, <1>10, <1>13 DEF Vics
<1>15. Vics(w) = Vics(v) \cup {63}
  <2>1. \A i : i \in 2..len + 2 <=> i \in 2..len + 1 \/ i = len + 2
    BY <1>1
  <2>2. 63 % 128 = 63
    OBVIOUS
  <2>3. \A i \in 2..len + 1 : w[i] % 128 = v[i] % 128
    BY <1>11
  <2>4. w[len + 2] % 128 = 63
    BY <1>12, <2>2
  <2>5. \A x : x \in Vics(w) <=> \E i \in 2..len + 2 : x = w[i] % 128
    BY <1>14
  <2>6. \A x : x \in Vics(v) <=> \E i \in 2..len + 1 : x = v[i] % 128
    BY <1>14
  <2>7. ASSUME NEW x PROVE x \in Vics(w) <=> x \in Vics(v) \/ x = 63
    BY <2>1, <2>3, <2>4, <2>5, <2>6
  <2>. QED
    BY <2>7
<1>. QED
  BY <1>4, <1>6, <1>8, <1>9, <1>10, <1>13, <1>15 DEF Grown

\* What is behind it moves right by one.
LEMMA InsertMoves ==
    ASSUME NEW b \in ByteBlocks, NEW S, Laid(b, S), NEW off, NEW len, NEW c,
           Inserted(b, c, off, len),
           NEW R, R = {p \in S : p >= off + len + 1}
    PROVE  InStep(b, c, R, 1)
<1>1. /\ off \in 4..126 /\ len \in 1..30 /\ b[2] \in 4..126 /\ c \in ByteBlocks
      /\ c[2] = b[2] + 1 /\ \A i \in off + len + 2..127 : c[i] = b[i - 1]
  BY DEF Inserted
<1>2. DataEnd(b) = b[2] /\ DataEnd(c) = b[2] + 1
  BY <1>1 DEF DataEnd
<1>3. \A p \in R : p \in S /\ p \in 4..126 /\ p >= off + len + 1 /\ p <= b[2]
  BY <1>1, <1>2, StationsBefore
<1>4. ASSUME NEW p \in R
      PROVE  \/ AtEnd(b, p) /\ AtEnd(c, p + 1)
             \/ /\ ~AtEnd(b, p) /\ ~AtEnd(c, p + 1)
                /\ Whole(c, p + 1) = Whole(b, p)
                /\ p + BlockLen(b, p) + 1 \in R
  <2>1. p \in S /\ p \in 4..126 /\ p >= off + len + 1 /\ p <= b[2]
    BY <1>3
  <2>2. CASE p = b[2]
    BY <1>1, <1>2, <2>2 DEF AtEnd
  <2>3. CASE p # b[2]
    <3>1. ~AtEnd(b, p) /\ p + BlockLen(b, p) + 1 \in S
      BY <1>1, <1>2, <2>1, <2>3 DEF Laid
    <3>. DEFINE l == BlockLen(b, p)
    <3>2. l \in 1..31 /\ p + l + 1 \in p + 2..127
      <4>1. p \in 4..127
        BY <2>1
      <4>. QED
        BY ONLY <3>1, <4>1, DataStep
    <3>3. p + l + 1 <= b[2]
      BY <1>2, <3>1, StationsBefore
    <3>4. BlockLen(c, p + 1) = l
      <4>1. p + 1 \in off + len + 2..127 /\ p + 1 - 1 = p
        BY <1>1, <2>1
      <4>2. PICK j : j = p + 1
        OBVIOUS
      <4>3. c[j] = b[j - 1]
        BY ONLY <1>1, <4>1, <4>2
      <4>4. j - 1 = p
        BY <2>1, <4>2
      <4>. QED
        BY <4>2, <4>3, <4>4 DEF BlockLen
    <3>5. Whole(c, p + 1) = [i \in 1..BlockLen(c, p + 1) + 1 |-> c[p + 1 + i - 1]]
      BY DEF Whole
    <3>6. Whole(b, p) = [i \in 1..l + 1 |-> b[p + i - 1]]
      BY DEF Whole
    <3>. HIDE DEF l
    <3>7. ASSUME NEW i \in 1..l + 1 PROVE c[p + 1 + i - 1] = b[p + i - 1]
      <4>1. p + 1 + i - 1 \in off + len + 2..127 /\ (p + 1 + i - 1) - 1 = p + i - 1
        BY <1>1, <2>1, <3>2, <3>3
      <4>. QED
        BY <1>1, <4>1
    <3>8. Whole(c, p + 1) = Whole(b, p)
      BY <3>4, <3>5, <3>6, <3>7
    <3>9. ~AtEnd(c, p + 1)
      BY ONLY <1>1, <1>2, <2>1, <3>2, <3>3, <3>4 DEF AtEnd, Stops
    <3>10. p + l + 1 \in R
      <4>1. p + l + 1 >= off + len + 1
        BY <1>1, <2>1, <3>2
      <4>2. p + l + 1 \in S
        BY <3>1 DEF l
      <4>. QED
        BY <4>1, <4>2
    <3>. QED
      BY <3>1, <3>8, <3>9, <3>10 DEF l
  <2>. QED
    BY <2>2, <2>3
<1>5. R \subseteq 4..127 /\ \A p \in R : p + 1 \in 4..127
  BY <1>3
<1>. QED
  BY <1>4, <1>5 DEF InStep

\* The insertion keeps the layout, and the data blocks but the one that grows.
InsertedBlocks(b, c) ==
    /\ \E U : Laid(c, U)
    /\ \E v, w, others : /\ Grown(v, w)
                         /\ DataBlocks(b) = others \cup {v} /\ DataBlocks(c) = others \cup {w}

\* So does InsertVic63, for an extension that has room.
LEMMA InsertLaid ==
    ASSUME NEW b \in ByteBlocks, NEW S, Laid(b, S), HasRoom(b), NEW c, c = InsertVic63(b)
    PROVE  InsertedBlocks(b, c)
<1>1. PICK off, len : off = FirstVideoBlock(b) /\ len = BlockLen(b, off)
  OBVIOUS
<1>2. /\ off \in 4..126 /\ off \in Chain(b) /\ ~AtEnd(b, off) /\ IsVideo(Whole(b, off))
      /\ len \in 1..30 /\ off + len + 1 \in off + 2..126 /\ b[2] \in 4..126 /\ off < b[2]
  BY <1>1, RoomAt
<1>3. Inserted(b, c, off, len)
  BY <1>1, InsertBytes
<1>4. /\ c \in ByteBlocks /\ c[2] = b[2] + 1
      /\ \A i \in 0..off + len : i # off /\ i # 2 => c[i] = b[i]
  BY <1>3 DEF Inserted
<1>5. DataEnd(b) = b[2] /\ DataEnd(c) = b[2] + 1
  BY <1>2, <1>4 DEF DataEnd
<1>6. /\ BlockLen(c, off) = len + 1 /\ ~AtEnd(c, off)
      /\ Grown(Whole(b, off), Whole(c, off))
  BY <1>1, <1>2, <1>3, InsertGrows
<1>7. off \in S
  BY <1>2, ChainPassed
<1>8. PICK done, G : Done(b, off, done) /\ Passed(b, off, G)
  BY <1>2, ChainPassed
<1>. DEFINE n == off + len + 1
            R == {p \in S : p >= off + len + 1}
            U == G \cup {p + 1 : p \in R}
<1>9. n \in 4..126 /\ n + 1 \in 4..127
  BY <1>2
<1>10. n \in R
  <2>1. off # DataEnd(b) /\ b[2] # 0
    BY <1>2, <1>5
  <2>2. off + BlockLen(b, off) + 1 \in S
    BY <1>7, <2>1 DEF Laid
  <2>3. n \in S
    BY <1>1, <2>2
  <2>. QED
    BY <1>9, <2>3
<1>11. InStep(b, c, R, 1)
  BY <1>3, InsertMoves
<1>12. DataFrom(c, n + 1) = DataFrom(b, n)
  <2>. HIDE DEF R, n
  <2>1. 1 \in Int
    OBVIOUS
  <2>. QED
    BY <1>4, <1>10, <1>11, <2>1, WalksInStep
<1>13. DataBlocks(b) = done \cup DataFrom(b, n) \cup {Whole(b, off)}
  <2>1. DataFrom(b, 4) = done \cup DataFrom(b, off)
    BY <1>2, <1>5, <1>8, SMTT(30) DEF Done
  <2>2. off \in 4..127
    BY ONLY <1>2
  <2>3. DataFrom(b, off) = {Whole(b, off)} \cup DataFrom(b, n)
    BY <1>1, <1>2, <2>2, DataStep
  <2>4. DataBlocks(b) = DataFrom(b, 4)
    BY DEF DataBlocks, Chain, DataFrom
  <2>. QED
    BY <2>1, <2>3, <2>4
<1>14. DataBlocks(c) = done \cup DataFrom(b, n) \cup {Whole(c, off)}
  <2>1. \A i \in 4..off - 1 : c[i] = b[i]
    <3>1. \A i \in 4..off - 1 : i \in 0..off + len /\ i # off /\ i # 2
      BY <1>2
    <3>. QED
      BY <1>4, <3>1
  <2>2. off <= DataEnd(c)
    BY <1>2, <1>5
  <2>3. DataFrom(c, 4) = done \cup DataFrom(c, off)
    BY ONLY <1>4, <1>8, <2>1, <2>2 DEF Done
  <2>4. off \in 4..127
    BY ONLY <1>2
  <2>5. DataFrom(c, off) = {Whole(c, off)} \cup DataFrom(c, off + BlockLen(c, off) + 1)
    BY <1>4, <1>6, <2>4, DataStep
  <2>6. off + BlockLen(c, off) + 1 = n + 1
    BY <1>2, <1>6
  <2>7. DataBlocks(c) = DataFrom(c, 4)
    BY DEF DataBlocks, Chain, DataFrom
  <2>. QED
    BY <1>12, <2>3, <2>5, <2>6, <2>7
<1>15. Laid(c, U)
  <2>1. /\ G \subseteq 4..off /\ 4 \in G /\ off \in G
        /\ \A q \in G : q # off => BlockLen(b, q) # 0 /\ q + BlockLen(b, q) + 1 \in G
    BY <1>8 DEF Passed
  <2>2. /\ R \subseteq 4..127 /\ \A p \in R : p + 1 \in 4..127
        /\ \A p \in R :
              \/ AtEnd(b, p) /\ AtEnd(c, p + 1)
              \/ /\ ~AtEnd(b, p) /\ ~AtEnd(c, p + 1)
                 /\ Whole(c, p + 1) = Whole(b, p)
                 /\ p + BlockLen(b, p) + 1 \in R
    BY <1>11 DEF InStep
  <2>3. U \subseteq 4..127 /\ 4 \in U
    <3>. HIDE DEF R
    <3>1. G \subseteq 4..127
      BY <1>2, <2>1
    <3>2. {p + 1 : p \in R} \subseteq 4..127
      BY <2>2
    <3>. QED
      BY <2>1, <3>1, <3>2
  <2>4. c[2] \in {0} \cup 4..127
    BY <1>2, <1>4
  <2>5. ASSUME NEW q \in G, q # off
        PROVE  ~AtEnd(c, q) /\ q < DataEnd(c) /\ q + BlockLen(c, q) + 1 \in G
    <3>1. q \in 4..off - 1
      BY <2>1, <2>5
    <3>2. c[q] = b[q]
      <4>1. q \in 0..off + len /\ q # off /\ q # 2
        BY <1>2, <3>1
      <4>. QED
        BY <1>4, <4>1
    <3>3. BlockLen(c, q) = BlockLen(b, q)
      BY <3>2 DEF BlockLen
    <3>4. BlockLen(c, q) # 0 /\ q + BlockLen(c, q) + 1 \in G
      BY <2>1, <2>5, <3>3
    <3>5. q + BlockLen(c, q) + 1 \in 4..off /\ BlockLen(c, q) \in Int
      <4>1. q \in 0..127
        BY ONLY <1>2, <3>1
      <4>2. BlockLen(c, q) \in 0..31
        BY <1>4, <4>1, Offsets
      <4>. QED
        BY <2>1, <3>4, <4>2
    <3>6. q < DataEnd(c) /\ ~(q >= DataEnd(c)) /\ ~(q + BlockLen(c, q) >= 127)
      BY <1>2, <1>5, <3>1, <3>5
    <3>. QED
      BY <3>4, <3>6 DEF AtEnd, Stops
  <2>6. off < DataEnd(c) /\ off + BlockLen(c, off) + 1 \in U
    <3>1. off + BlockLen(c, off) + 1 = n + 1
      BY <1>2, <1>6
    <3>2. n + 1 \in U
      <4>. HIDE DEF n, R
      <4>. QED
        BY <1>10
    <3>. QED
      BY <1>2, <1>5, <3>1, <3>2
  <2>7. ASSUME NEW p \in R
        PROVE  \/ p + 1 = DataEnd(c)
               \/ /\ ~AtEnd(c, p + 1) /\ p + 1 < DataEnd(c)
                  /\ p + 1 + BlockLen(c, p + 1) + 1 \in U
    <3>1. p \in 4..127 /\ p <= b[2] /\ p \in S
      <4>1. p \in S
        OBVIOUS
      <4>. HIDE DEF R
      <4>. QED
        BY <1>5, <4>1, StationsBefore
    <3>2. CASE p = b[2]
      BY <1>5, <3>2
    <3>3. CASE p # b[2]
      <4>1. p < b[2] /\ ~AtEnd(b, p)
        BY <1>2, <1>5, <3>1, <3>3 DEF Laid
      <4>2. /\ ~AtEnd(c, p + 1) /\ Whole(c, p + 1) = Whole(b, p)
            /\ p + BlockLen(b, p) + 1 \in R
        BY <2>2, <4>1
      <4>3. BlockLen(c, p + 1) = BlockLen(b, p) /\ BlockLen(b, p) \in Int
        <5>1. p \in 4..126 /\ p + 1 \in 4..126
          <6>1. p + 1 < DataEnd(c) \/ AtEnd(c, p + 1)
            BY ONLY <1>5, <3>1, <4>1, <1>2
          <6>. QED
            BY <1>2, <3>1, <4>1
        <5>2. Len(Whole(b, p)) = BlockLen(b, p) + 1
          BY <4>1, <5>1, WholeBlock DEF AtEnd
        <5>3. Len(Whole(c, p + 1)) = BlockLen(c, p + 1) + 1
          BY <1>4, <4>2, <5>1, WholeBlock DEF AtEnd
        <5>4. BlockLen(b, p) \in Int /\ BlockLen(c, p + 1) \in Int
          BY <1>4, <5>1, Offsets
        <5>. QED
          BY <4>2, <5>2, <5>3, <5>4
      <4>4. p + 1 + BlockLen(c, p + 1) + 1 = (p + BlockLen(b, p) + 1) + 1
        BY <3>1, <4>3
      <4>5. (p + BlockLen(b, p) + 1) + 1 \in U
        <5>. HIDE DEF R
        <5>. QED
          BY <4>2
      <4>6. p + 1 < DataEnd(c)
        BY <1>2, <1>5, <3>1, <4>1
      <4>. QED
        BY <4>2, <4>4, <4>5, <4>6
    <3>. QED
      BY <3>2, <3>3
  <2>8. ASSUME NEW u \in U
        PROVE  \/ u = DataEnd(c)
               \/ u < DataEnd(c) /\ c[2] = 0 /\ BlockLen(c, u) = 0
               \/ /\ ~AtEnd(c, u) /\ u < DataEnd(c)
                  /\ u + BlockLen(c, u) + 1 \in U
    <3>1. CASE u \in G /\ u # off
      BY <2>5, <3>1
    <3>2. CASE u = off
      BY <1>6, <2>6, <3>2
    <3>3. CASE u \in {p + 1 : p \in R}
      <4>. HIDE DEF R
      <4>1. PICK p \in R : u = p + 1
        BY <3>3
      <4>. HIDE DEF U
      <4>. QED
        BY <2>7, <4>1
    <3>. QED
      BY <3>1, <3>2, <3>3
  <2>. HIDE DEF U
  <2>. QED
    BY <2>3, <2>4, <2>8 DEF Laid
<1>. HIDE DEF U, R, n
<1>. QED
  BY <1>6, <1>13, <1>14, <1>15 DEF InsertedBlocks

(***************************************************************************)
(* The extensions of an EDID.                                              *)
(***************************************************************************)

\* Block m of e is one.
IsCea(e, m) == m - 1 <= e[1][126] /\ e[m][0] = 2

\* The extensions of an EDID of n blocks.
LEMMA CeaOf ==
    ASSUME NEW n \in {2, 3}, NEW e \in Blocks(n)
    PROVE  CeaBlocks(e) = {e[m] : m \in {k \in 2..n : IsCea(e, k)}}
<1>1. Len(e) = n /\ e # <<>>
  BY TwoBlocks
<1>. QED
  BY <1>1 DEF CeaBlocks, IsCea

\* All extensions are laid out well.
BlocksLaid(e) == \A b \in CeaBlocks(e) : \E S : Laid(b, S)

\* They are bytes.
LEMMA CeaBytes ==
    ASSUME NEW n \in {2, 3}, NEW e \in Blocks(n), NEW b \in CeaBlocks(e)
    PROVE  b \in ByteBlocks
<1>1. PICK m \in 2..n : b = e[m]
  BY CeaOf
<1>2. m \in 1..n
  OBVIOUS
<1>. QED
  BY <1>1, <1>2, ValidBytes DEF Blocks

\* What has the same extensions.
LEMMA CeaSame ==
    ASSUME NEW n \in {2, 3}, NEW e \in Blocks(n), NEW c \in Blocks(n),
           c[1][126] = e[1][126], \A m \in 2..n : c[m] = e[m]
    PROVE  CeaBlocks(c) = CeaBlocks(e)
<1>1. \A m \in 2..n : IsCea(c, m) <=> IsCea(e, m)
  BY DEF IsCea
<1>2. {c[m] : m \in {k \in 2..n : IsCea(c, k)}} = {e[m] : m \in {k \in 2..n : IsCea(e, k)}}
  BY <1>1
<1>. QED
  BY <1>2, CeaOf

\* A third block of zeros is no extension.
LEMMA CeaAppend ==
    ASSUME NEW e \in Blocks(2), NEW c, c = Append(e, Zeros)
    PROVE  CeaBlocks(c) = CeaBlocks(e)
<1>1. c \in Blocks(3) /\ c[1] = e[1] /\ c[2] = e[2] /\ c[3] = Zeros
  BY TwoBlocks
<1>2. Zeros[0] # 2
  BY DEF Zeros
<1>3. ~IsCea(c, 3)
  BY <1>1, <1>2 DEF IsCea
<1>4. IsCea(c, 2) <=> IsCea(e, 2)
  BY <1>1 DEF IsCea
<1>5. \A m : m \in 2..3 <=> m = 2 \/ m = 3
  OBVIOUS
<1>6. \A m : m \in 2..2 <=> m = 2
  OBVIOUS
<1>7. CeaBlocks(c) = {c[m] : m \in {k \in 2..3 : IsCea(c, k)}}
  BY <1>1, CeaOf
<1>8. CeaBlocks(e) = {e[m] : m \in {k \in 2..2 : IsCea(e, k)}}
  BY CeaOf
<1>9. {k \in 2..3 : IsCea(c, k)} = {k \in 2..2 : IsCea(e, k)}
  BY <1>3, <1>4, <1>5, <1>6
<1>10. \A k \in {j \in 2..2 : IsCea(e, j)} : c[k] = e[k]
  BY <1>1, <1>6
<1>. QED
  BY ONLY <1>7, <1>8, <1>9, <1>10

\* The renaming leaves the extensions.
LEMMA CeaNamed ==
    ASSUME NEW n \in {2, 3}, NEW e \in Blocks(n), NEW d, d.edid \in Blocks(2) \cup {<<>>},
           NEW c, c = Named(e, d)
    PROVE  c \in Blocks(n) /\ CeaBlocks(c) = CeaBlocks(e)
<1>1. NamedBlocks(e, d, n, c)
  BY NamedTyped
<1>2. c \in Blocks(n) /\ \A m \in 2..n : c[m] = e[m]
  BY <1>1 DEF NamedBlocks
<1>3. c[1][126] = e[1][126]
  <2>1. CASE d.edid = <<>> \/ NameSlots(d.edid[1]) = {} \/ NameSlots(e[1]) = {}
    BY <1>1, <2>1 DEF NamedBlocks
  <2>2. CASE d.edid # <<>> /\ NameSlots(d.edid[1]) # {} /\ NameSlots(e[1]) # {}
    <3>1. Renamed(e[1], c[1], NameSlot(e[1]) + 5, NameOf(d.edid[1]))
      BY <1>1, <2>2 DEF NamedBlocks
    <3>2. NameSlot(e[1]) \in {54, 72, 90, 108}
      BY <2>2, NameAt DEF BaseSlots
    <3>3. 126 \in 0..126 /\ 126 \notin NameSlot(e[1]) + 5..NameSlot(e[1]) + 5 + 12
      BY <3>2
    <3>. QED
      BY <3>1, <3>3 DEF Renamed
  <2>. QED
    BY <2>1, <2>2
<1>. QED
  BY <1>2, <1>3, CeaSame

\* What the patch makes of the extensions: the first may grow, a second comes.
PatchedCea(e, c) ==
    /\ CeaBlocks(c) = {c[2], SecondExtension}
    /\ c[2] \in ByteBlocks
    /\ ~HasRoom(e[2]) => DataBlocks(c[2]) = DataBlocks(e[2])
    /\ HasRoom(e[2]) => InsertedBlocks(e[2], c[2])

\* That is what the patch makes of them, and it keeps the layout.
LEMMA PatchLaid ==
    ASSUME NEW e \in Blocks(3), NEW c, c = Patched(e), Patchable(e), BlocksLaid(e)
    PROVE  PatchedCea(e, c) /\ BlocksLaid(c)
<1>. DEFINE x == IF HasRoom(e[2]) THEN InsertVic63(e[2]) ELSE e[2]
<1>1. /\ c \in Blocks(3) /\ c[2] = RecalculateEdidBlockChecksum(x)
      /\ c[1] = RecalculateEdidBlockChecksum([baseModes(e[1]) EXCEPT ![126] = 2])
      /\ c[3] = SecondExtension
  BY PatchTyped DEF PatchedBlocks
<1>2. e[1] \in ByteBlocks /\ e[2] \in ByteBlocks
  BY ONLY ValidBytes DEF Blocks
<1>3. e[1][126] > 0 /\ e[2][0] = 2 /\ e[1][126] \in Nat
  <2>1. 126 \in 0..127
    OBVIOUS
  <2>. QED
    BY <1>2, <2>1, Bytewise, ZenonT(60) DEF Patchable
<1>4. e[2] \in CeaBlocks(e)
  <2>1. IsCea(e, 2)
    BY <1>3 DEF IsCea
  <2>. QED
    BY <2>1, CeaOf
<1>5. PICK S : Laid(e[2], S)
  BY <1>4 DEF BlocksLaid
<1>6. x \in ByteBlocks /\ x[0] = 2
  <2>1. HasRoom(e[2]) => InsertVic63(e[2]) \in ByteBlocks /\ InsertVic63(e[2])[0] = 2
    <3>1. SUFFICES ASSUME HasRoom(e[2])
                   PROVE  InsertVic63(e[2]) \in ByteBlocks /\ InsertVic63(e[2])[0] = 2
      OBVIOUS
    <3>2. PICK y, off, len : /\ y = InsertVic63(e[2]) /\ off = FirstVideoBlock(e[2])
                             /\ len = BlockLen(e[2], off)
      OBVIOUS
    <3>3. Inserted(e[2], y, off, len)
      BY <1>2, <3>1, <3>2, InsertBytes
    <3>4. 0 \in 0..off + len /\ 0 # off /\ 0 # 2
      BY <3>3 DEF Inserted
    <3>. QED
      BY <1>3, <3>2, <3>3, <3>4 DEF Inserted
  <2>. QED
    BY <1>2, <1>3, <2>1
<1>7. HasRoom(e[2]) => InsertedBlocks(e[2], x)
  BY <1>2, <1>5, InsertLaid
<1>8. \E U : Laid(x, U)
  <2>1. CASE HasRoom(e[2])
    BY <1>7, <2>1 DEF InsertedBlocks
  <2>2. CASE ~HasRoom(e[2])
    BY <1>5, <2>2
  <2>. QED
    BY <2>1, <2>2
<1>9. ~HasRoom(e[2]) => x = e[2]
  OBVIOUS
<1>. HIDE DEF x
<1>10. PICK U : Laid(x, U)
  BY <1>8
<1>11. /\ c[2] \in ByteBlocks /\ c[2][0] = 2
       /\ Laid(c[2], U) /\ DataBlocks(c[2]) = DataBlocks(x)
  <2>1. 0 \in 0..126
    OBVIOUS
  <2>. QED
    BY <1>1, <1>6, <1>10, <2>1, ChecksumKeeps
<1>12. HasRoom(e[2]) => InsertedBlocks(e[2], c[2])
  BY <1>7, <1>11 DEF InsertedBlocks
<1>13. c[1][126] = 2
  <2>1. PICK g \in ByteBlocks : g = baseModes(e[1])
    BY <1>2, BaseModesBytes
  <2>2. PICK h : h = [g EXCEPT ![126] = 2]
    BY ONLY Zenon
  <2>3. h \in ByteBlocks /\ h[126] = 2
    <3>1. 2 \in 0..255 /\ 126 \in 0..127
      OBVIOUS
    <3>. QED
      BY ONLY <2>1, <2>2, <3>1, Zenon DEF ByteBlocks
  <2>4. c[1] = RecalculateEdidBlockChecksum(h)
    BY <1>1, <2>1, <2>2
  <2>5. 126 \in 0..126
    OBVIOUS
  <2>. QED
    BY <2>3, <2>4, <2>5, ChecksumRight
<1>14. CeaBlocks(c) = {c[2], SecondExtension}
  <2>1. IsCea(c, 2) /\ IsCea(c, 3)
    BY <1>1, <1>11, <1>13, SecondExtensionValid DEF IsCea
  <2>2. \A m : m \in 2..3 <=> m = 2 \/ m = 3
    OBVIOUS
  <2>3. CeaBlocks(c) = {c[m] : m \in {k \in 2..3 : IsCea(c, k)}}
    BY <1>1, CeaOf
  <2>. QED
    BY <1>1, <2>1, <2>2, <2>3
<1>15. Laid(SecondExtension, {4})
  <2>1. SecondExtension[2] = 4
    BY SecondExtensionValid
  <2>. QED
    BY <2>1 DEF Laid, DataEnd
<1>16. PatchedCea(e, c)
  BY <1>9, <1>11, <1>12, <1>14 DEF PatchedCea
<1>. QED
  BY <1>11, <1>14, <1>15, <1>16 DEF BlocksLaid

\* The filter keeps the extensions, each without what it takes out.
FilteredCea(e, c, n, vics, modes, allm, vrr) ==
    /\ c \in Blocks(n)
    /\ \A m \in 2..n : /\ IsCea(c, m) <=> IsCea(e, m)
                       /\ IsCea(e, m) => FilteredBlock(e[m], c[m], vics, modes, allm, vrr)

\* That is what the filter makes of extensions that are laid out well.
LEMMA FilteredExtensions ==
    ASSUME NEW n \in {2, 3}, NEW e \in Blocks(n), BlocksLaid(e),
           NEW txVics, NEW modes, NEW allm \in BOOLEAN, NEW vrr \in BOOLEAN,
           NEW c, FilteredBlocks(e, c, n, txVics, modes, allm, vrr),
           NEW vics, vics = {v \in 0..127 : TxSupportsVic(v, txVics, modes)}
    PROVE  FilteredCea(e, c, n, vics, modes, allm, vrr)
<1>1. /\ c \in Blocks(n) /\ c[1][126] = e[1][126]
      /\ \A m \in 2..n : /\ FilteredAt(e, c, m, txVics, modes, allm, vrr)
                         /\ c[m][0] = e[m][0]
  BY DEF FilteredBlocks
<1>2. \A m \in 2..n : IsCea(c, m) <=> IsCea(e, m)
  BY <1>1 DEF IsCea
<1>3. e[1][126] \in Int
  <2>1. 1 \in 1..n /\ 126 \in 0..127
    OBVIOUS
  <2>2. e[1] \in ByteBlocks
    BY ONLY <2>1, ValidBytes DEF Blocks
  <2>3. e[1][126] \in Nat
    BY ONLY <2>1, <2>2, Bytewise
  <2>. QED
    BY <2>3
<1>4. ASSUME NEW m \in 2..n, IsCea(e, m)
      PROVE  FilteredBlock(e[m], c[m], vics, modes, allm, vrr)
  <2>1. e[m] \in CeaBlocks(e)
    BY <1>4, CeaOf
  <2>2. PICK b \in ByteBlocks : b = e[m]
    BY <2>1, CeaBytes
  <2>3. PICK S : Laid(b, S)
    BY <2>1, <2>2 DEF BlocksLaid
  <2>4. PICK y : y = FilteredExtension(b, txVics, modes, allm, vrr)
    OBVIOUS
  <2>5. PICK z : z = c[m]
    OBVIOUS
  <2>6. z = RecalculateEdidBlockChecksum(y)
    <3>1. ~(m - 1 > e[1][126]) /\ e[m][0] = 2
      BY <1>3, <1>4 DEF IsCea
    <3>. QED
      BY <1>1, <2>2, <2>4, <2>5, <3>1 DEF FilteredAt
  <2>7. FilteredBlock(b, y, vics, modes, allm, vrr)
    BY <2>3, <2>4, ExtensionFiltered
  <2>8. y \in ByteBlocks /\ y[0] = b[0]
    BY <2>7 DEF FilteredBlock
  <2>9. PICK U : Laid(y, U)
    BY <2>7 DEF FilteredBlock
  <2>10. /\ z \in ByteBlocks /\ z[0] = y[0] /\ BlockTimings(z) = BlockTimings(y)
         /\ Laid(z, U) /\ DataBlocks(z) = DataBlocks(y)
    <3>1. 0 \in 0..126
      OBVIOUS
    <3>. QED
      BY <2>6, <2>8, <2>9, <3>1, ChecksumKeeps
  <2>11. FilteredBlock(b, z, vics, modes, allm, vrr)
    BY <2>7, <2>8, <2>10 DEF FilteredBlock
  <2>. QED
    BY <2>2, <2>5, <2>11
<1>. QED
  BY <1>1, <1>2, <1>4 DEF FilteredCea

\* So it keeps the layout.
LEMMA FilteredLaid ==
    ASSUME NEW n \in {2, 3}, NEW e, NEW c, NEW vics, NEW modes, NEW allm, NEW vrr,
           FilteredCea(e, c, n, vics, modes, allm, vrr)
    PROVE  BlocksLaid(c)
<1>1. c \in Blocks(n)
  BY DEF FilteredCea
<1>2. ASSUME NEW b \in CeaBlocks(c) PROVE \E S : Laid(b, S)
  <2>1. PICK m \in 2..n : b = c[m] /\ IsCea(c, m)
    BY <1>1, CeaOf
  <2>2. FilteredBlock(e[m], c[m], vics, modes, allm, vrr)
    BY <2>1 DEF FilteredCea
  <2>. QED
    BY <2>1, <2>2 DEF FilteredBlock
<1>. QED
  BY <1>2 DEF BlocksLaid

\* What is laid out well has stations.
LEMMA WellLaidBlocks ==
    ASSUME NEW e \in Blocks(2), \A b \in CeaBlocks(e) : WellLaid(b)
    PROVE  BlocksLaid(e)
<1>1. \A b \in CeaBlocks(e) : b \in ByteBlocks
  BY CeaBytes
<1>. QED
  BY <1>1, WellLaidStations DEF BlocksLaid

\* The buffer without a file has no extension.
LEMMA EmptyLaid == BlocksLaid(Empty)
<1>1. Empty \in Blocks(2) /\ Empty[2][0] = 0
  BY TwoBlocks DEF Empty, Zeros
<1>2. \A m \in 2..2 : ~IsCea(Empty, m)
  <2>1. \A m \in 2..2 : m = 2
    OBVIOUS
  <2>. QED
    BY <1>1, <2>1 DEF IsCea
<1>3. CeaBlocks(Empty) = {}
  BY <1>1, <1>2, CeaOf
<1>. QED
  BY <1>3 DEF BlocksLaid

\* A file is laid out well.
LEMMA FileLaid ==
    ASSUME FilesLaid, NEW f \in Files \cup {Empty}
    PROVE  f \in Blocks(2) /\ BlocksLaid(f)
<1>1. f \in Blocks(2)
  BY FileBlocks
<1>2. CASE f = Empty
  BY <1>1, <1>2, EmptyLaid
<1>3. CASE f \in Files
  BY <1>1, <1>3, WellLaidBlocks DEF FilesLaid
<1>. QED
  BY <1>1, <1>2, <1>3

\* Every buffer is laid out well, that of the display if the displays' are.
LaidOut ==
    /\ BlocksLaid(before)
    /\ ver # 0 \/ DisplaysLaid => BlocksLaid(edid)

\* Every step keeps the layout.
LEMMA LaidOutNext ==
    ASSUME FilesLaid, LoadTyped, LaidOut, [LoadNext]_loadVars
    PROVE  LaidOut'
<1>1. CASE ExchangeDisplay
  BY <1>1 DEF ExchangeDisplay, LaidOut
<1>2. CASE PassthroughEdidFromTxToRx
  <2>1. tx.edid # <<>> /\ edid' = tx.edid /\ before' = before
    BY <1>2 DEF PassthroughEdidFromTxToRx
  <2>2. tx \in TxDisplays /\ tx.edid \in Blocks(2)
    <3>1. tx \in TxDisplays
      BY <2>1, NoDisplayAssumption DEF LoadTyped, SeenDisplays
    <3>. QED
      BY <2>1, <3>1, DisplayBlocks DEF SeenDisplays
  <2>3. DisplaysLaid => BlocksLaid(tx.edid)
    BY <2>2, WellLaidBlocks DEF DisplaysLaid
  <2>4. ver' = 0
    BY <1>2 DEF PassthroughEdidFromTxToRx
  <2>. QED
    BY <2>1, <2>3, <2>4 DEF LaidOut
<1>3. ASSUME NEW v \in {14, 20}, ReadDataFromFile(v)
      PROVE  BlocksLaid(before') /\ BlocksLaid(edid')
  <2>1. PICK f \in Files \cup {Empty} : file' = f
    BY <1>3 DEF ReadDataFromFile
  <2>2. f \in Blocks(2) /\ BlocksLaid(f)
    BY FileLaid
  <2>3. edid' = (IF v = 20 THEN Append(f, Zeros) ELSE f) /\ before' = edid'
    BY <1>3, <2>1 DEF ReadDataFromFile
  <2>4. BlocksLaid(Append(f, Zeros))
    <3>1. CeaBlocks(Append(f, Zeros)) = CeaBlocks(f)
      BY <2>2, CeaAppend
    <3>. QED
      BY <2>2, <3>1 DEF BlocksLaid
  <2>. QED
    BY <2>2, <2>3, <2>4
<1>4. CASE LoadEdidData
  BY <1>3, <1>4 DEF LoadEdidData, LaidOut
<1>5. CASE LoadEdid20
  BY <1>3, <1>5 DEF LoadEdid20, LaidOut
<1>6. CASE PatchEdidFor120Hz
  <2>1. edid \in Blocks(3) /\ ver = 20 /\ edid' = Patched(edid) /\ UNCHANGED <<ver, before>>
    BY <1>6 DEF PatchEdidFor120Hz, LoadTyped, Size
  <2>2. BlocksLaid(edid)
    BY <2>1 DEF LaidOut
  <2>3. BlocksLaid(edid')
    <3>1. CASE Patchable(edid)
      BY <2>1, <2>2, <3>1, PatchLaid
    <3>2. CASE ~Patchable(edid)
      BY <2>1, <2>2, <3>2 DEF Patched
    <3>. QED
      BY <3>1, <3>2
  <2>. QED
    BY <2>1, <2>3 DEF LaidOut
<1>7. CASE PatchEdidMonitorName
  <2>1. /\ Size(ver) \in {2, 3} /\ edid \in Blocks(Size(ver)) /\ edid' = Named(edid, tx)
        /\ tx.edid \in Blocks(2) \cup {<<>>} /\ before' = edid' /\ ver' = ver /\ ver # 0
    BY <1>7, DisplayBlocks DEF PatchEdidMonitorName, LoadTyped, Size
  <2>2. CeaBlocks(edid') = CeaBlocks(edid)
    BY <2>1, CeaNamed
  <2>3. BlocksLaid(edid')
    BY <2>1, <2>2 DEF LaidOut, BlocksLaid
  <2>. QED
    BY <2>1, <2>3 DEF LaidOut
<1>8. CASE ReadEdidFromHdmiTx
  BY <1>8 DEF ReadEdidFromHdmiTx, LaidOut
<1>9. CASE FilterEdidByTxCapabilities
  <2>. DEFINE modes == ReadTxDispCapModes(tx)
  <2>1. /\ Size(ver) \in {2, 3} /\ edid \in Blocks(Size(ver)) /\ ver # 0
        /\ edid' = IF modes = {} THEN edid ELSE Filtered(edid, read.edid, modes)
        /\ UNCHANGED <<before, ver>>
    BY <1>9 DEF FilterEdidByTxCapabilities, LoadTyped, Size
  <2>. HIDE DEF modes
  <2>2. BlocksLaid(edid)
    BY <2>1 DEF LaidOut
  <2>3. PICK txVics, allm, vrr, vics, c :
           /\ txVics = ParseTxEdidVics(read.edid)
           /\ allm = ParseTxFeatureSupport(read.edid, "allm")
           /\ vrr = ParseTxFeatureSupport(read.edid, "vrr")
           /\ vics = {v \in 0..127 : TxSupportsVic(v, txVics, modes)}
           /\ c = Filtered(edid, read.edid, modes)
    OBVIOUS
  <2>4. FilteredBlocks(edid, c, Size(ver), txVics, modes, allm, vrr)
    BY <2>1, <2>3, FilteredTyped
  <2>5. allm \in BOOLEAN /\ vrr \in BOOLEAN
    BY <2>3 DEF ParseTxFeatureSupport
  <2>6. FilteredCea(edid, c, Size(ver), vics, modes, allm, vrr)
    BY <2>1, <2>2, <2>3, <2>4, <2>5, FilteredExtensions
  <2>7. BlocksLaid(c)
    BY <2>1, <2>6, FilteredLaid
  <2>. QED
    BY <2>1, <2>2, <2>3, <2>7 DEF LaidOut
<1>10. CASE UpdataEdidDataWithPort
  BY <1>10, EmptyLaid DEF UpdataEdidDataWithPort, LaidOut
<1>11. CASE UNCHANGED loadVars
  BY <1>11 DEF LaidOut, loadVars
<1>. QED
  BY <1>1, <1>2, <1>4, <1>5, <1>6, <1>7, <1>8, <1>9, <1>10, <1>11 DEF LoadNext

\* LoadEdidData keeps the layout of the files.
THEOREM LaidOutCorrect ==
    ASSUME FilesLaid
    PROVE  LoadSpec => []LaidOut
<1>1. LoadInit => LaidOut
  BY EmptyLaid DEF LoadInit, LaidOut
<1>2. LoadTyped /\ LaidOut /\ [LoadNext]_loadVars => LaidOut'
  BY LaidOutNext
<1>. QED
  BY <1>1, <1>2, LoadTypeCorrect, PTL DEF LoadSpec

\* No step leaves the offset of the timings behind.
THEOREM BlocksEndAtTimingsCorrect ==
    ASSUME FilesLaid, DisplaysLaid
    PROVE  LoadSpec => []BlocksEndAtTimings
<1>1. LoadTyped /\ LaidOut => BlocksEndAtTimings
  <2>. SUFFICES ASSUME LoadTyped, LaidOut PROVE BlocksEndAtTimings
    OBVIOUS
  <2>1. Size(ver) \in {2, 3} /\ edid \in Blocks(Size(ver)) /\ BlocksLaid(edid)
    BY DEF LoadTyped, LaidOut, Size
  <2>2. ASSUME NEW b \in CeaBlocks(edid), b[2] >= 4
        PROVE  b[2] = 4 \/ \E o \in Chain(b) : o + BlockLen(b, o) + 1 = b[2]
    <3>1. b \in ByteBlocks
      BY <2>1, CeaBytes
    <3>2. PICK S : Laid(b, S)
      BY <2>1 DEF BlocksLaid
    <3>. QED
      BY <2>2, <3>1, <3>2, LaidEnds
  <2>. QED
    BY <2>2 DEF BlocksEndAtTimings
<1>. QED
  BY <1>1, LaidOutCorrect, LoadTypeCorrect, PTL

(***************************************************************************)
(* What a source may send before and after the filter.                     *)
(***************************************************************************)

\* What an extension offers.
BlockOffers(b) ==
    {<<"vic", v>> : v \in Listed(DataBlocks(b))} \cup
    {<<"420", v>> : v \in Listed420(DataBlocks(b))} \cup
    {<<"timing", m>> : m \in BlockTimings(b)}

\* An EDID offers what its blocks offer.
LEMMA OffersByBlock ==
    ASSUME NEW e
    PROVE  \A o : o \in Offers(e) <=>
              \/ \E m \in Timings(e[1], 54, 126) : o = <<"timing", m>>
              \/ \E b \in CeaBlocks(e) : o \in BlockOffers(b)
<1>1. Offers(e) = {<<"timing", m>> : m \in Timings(e[1], 54, 126)} \cup
                  UNION {BlockOffers(b) : b \in CeaBlocks(e)}
  BY DEF Offers, BlockOffers, Listed, Listed420, BlockTimings
<1>. QED
  BY <1>1

\* VICs, VICs with 4:2:0 and timings.
LEMMA InBlockOffers ==
    ASSUME NEW b
    PROVE  \A o : o \in BlockOffers(b) <=>
              \/ \E v \in Listed(DataBlocks(b)) : o = <<"vic", v>>
              \/ \E v \in Listed420(DataBlocks(b)) : o = <<"420", v>>
              \/ \E m \in BlockTimings(b) : o = <<"timing", m>>
  BY DEF BlockOffers

\* The other data blocks are those of its extensions.
LEMMA OthersByBlock ==
    ASSUME NEW e
    PROVE  \A d : d \in Others(e) <=> \E b \in CeaBlocks(e) : d \in OtherBlocks(DataBlocks(b))
<1>1. Others(e) = UNION {OtherBlocks(DataBlocks(b)) : b \in CeaBlocks(e)}
  BY DEF Others, OtherBlocks, Other
<1>. QED
  BY ONLY <1>1, Zenon

\* And so are the ends of timings.
LEMMA RemainsByBlock ==
    ASSUME NEW e, NEW b \in CeaBlocks(e), NEW m \in BlockRemains(b)
    PROVE  <<"timing", m>> \in Remains(e)
  BY DEF Remains, BlockRemains

\* A feature is announced by one of its extensions.
LEMMA FeatureByBlock ==
    ASSUME NEW e, NEW f
    PROVE  ParseTxFeatureSupport(e, f) <=> \E b \in CeaBlocks(e) : HasAny(DataBlocks(b), f)
  BY DEF ParseTxFeatureSupport, HasAny

\* And so is FreeSync.
LEMMA FreeSyncByBlock ==
    ASSUME NEW e
    PROVE  Advertises(e, FreeSync) <=> \E b \in CeaBlocks(e) : HasFreeSync(DataBlocks(b))
  BY DEF Advertises, HasFreeSync

\* VICs have 7 bits.
LEMMA ListedVics ==
    ASSUME NEW b \in ByteBlocks
    PROVE  Listed(DataBlocks(b)) \subseteq 0..127 /\ Listed420(DataBlocks(b)) \subseteq 0..127
<1>1. DataBlocks(b) \subseteq DataBlock
  <2>1. DataBlocks(b) = DataFrom(b, 4)
    BY DEF DataBlocks, Chain, DataFrom
  <2>2. 4 \in 4..127
    OBVIOUS
  <2>. QED
    BY <2>1, <2>2, DataFromBlocks
<1>2. ASSUME NEW d \in DataBlock, NEW v \in Vics(d) PROVE v \in 0..127
  <2>1. PICK i \in (IF IsVideo(d) THEN 2 ELSE 3)..Len(d) : v = d[i] % 128
    BY DEF Vics
  <2>2. d \in Seq(0..255) /\ i \in 1..Len(d)
    BY <2>1 DEF DataBlock
  <2>3. d[i] \in 0..255
    BY <2>2, ElementOfSeq
  <2>4. \A x \in 0..255 : x % 128 \in 0..127
    OBVIOUS
  <2>. QED
    BY <2>1, <2>3, <2>4
<1>. QED
  BY <1>1, <1>2 DEF Listed, Listed420

\* The display d can show what is offered.
Showable(o, d) ==
    IF o[1] = "timing" THEN o[2] \in ReadTxDispCapModes(d)
    ELSE \/ o[2] > 0 /\ <<"vic", o[2]>> \in Offers(d.edid)
         \/ \E m \in ReadTxDispCapModes(d) : m \in VicToMode(o[2])

\* For VICs, that is what the filter asks.
LEMMA ShowableVics ==
    ASSUME NEW d, NEW vics,
           vics = {v \in 0..127 : TxSupportsVic(v, ParseTxEdidVics(d.edid), ReadTxDispCapModes(d))}
    PROVE  \A v \in 0..127 : /\ Showable(<<"vic", v>>, d) <=> v \in vics
                             /\ Showable(<<"420", v>>, d) <=> v \in vics
<1>1. ASSUME NEW v PROVE v \in ParseTxEdidVics(d.edid) <=> <<"vic", v>> \in Offers(d.edid)
  <2>1. ParseTxEdidVics(d.edid) = UNION {Listed(DataBlocks(b)) : b \in CeaBlocks(d.edid)}
    BY DEF ParseTxEdidVics, Listed
  <2>2. \A b : <<"vic", v>> \in BlockOffers(b) <=> v \in Listed(DataBlocks(b))
    BY InBlockOffers
  <2>3. \A m : <<"vic", v>> # <<"timing", m>>
    OBVIOUS
  <2>. QED
    BY <2>1, <2>2, <2>3, OffersByBlock
<1>2. ASSUME NEW v \in 0..127, NEW k \in {"vic", "420"} PROVE Showable(<<k, v>>, d) <=> v \in vics
  <2>1. <<k, v>>[1] # "timing" /\ <<k, v>>[2] = v
    OBVIOUS
  <2>2. Showable(<<k, v>>, d) <=> \/ v > 0 /\ <<"vic", v>> \in Offers(d.edid)
                                  \/ \E m \in ReadTxDispCapModes(d) : m \in VicToMode(v)
    BY <2>1 DEF Showable
  <2>3. v \in vics <=> TxSupportsVic(v, ParseTxEdidVics(d.edid), ReadTxDispCapModes(d))
    OBVIOUS
  <2>. QED
    BY <1>1, <2>2, <2>3 DEF TxSupportsVic
<1>. QED
  BY <1>2

\* For timings as well.
LEMMA ShowableTimings ==
    ASSUME NEW d
    PROVE  \A m : Showable(<<"timing", m>>, d) <=> m \in ReadTxDispCapModes(d)
  BY DEF Showable

\* c is what the filter has made of e for the display d.
FilteredFor(e, c, d) ==
    c = IF ReadTxDispCapModes(d) = {} THEN e ELSE Filtered(e, d.edid, ReadTxDispCapModes(d))

\* What the filter has read, and what it began and ended with.
FilterReads ==
    /\ stage \in {"idle", "patch", "name", "filter"} => read = NoDisplay
    /\ stage \in {"filter", "modes"} => edid = before
    /\ stage = "modes" /\ calm => read = tx
    /\ stage = "done" /\ calm /\ read # NoDisplay => read = tx /\ FilteredFor(before, edid, tx)

\* Every step keeps track of what the filter has read.
LEMMA FilterReadsNext == FilterReads /\ [LoadNext]_loadVars => FilterReads'
<1>. SUFFICES ASSUME FilterReads, [LoadNext]_loadVars PROVE FilterReads'
  OBVIOUS
<1>1. CASE ExchangeDisplay
  BY <1>1 DEF ExchangeDisplay, FilterReads
<1>2. CASE PassthroughEdidFromTxToRx
  BY <1>2 DEF PassthroughEdidFromTxToRx, FilterReads
<1>3. CASE LoadEdidData
  BY <1>3 DEF LoadEdidData, ReadDataFromFile, FilterReads
<1>4. CASE LoadEdid20
  BY <1>4 DEF LoadEdid20, ReadDataFromFile, FilterReads
<1>5. CASE PatchEdidFor120Hz
  BY <1>5 DEF PatchEdidFor120Hz, FilterReads
<1>6. CASE PatchEdidMonitorName
  BY <1>6 DEF PatchEdidMonitorName, FilterReads
<1>7. CASE ReadEdidFromHdmiTx
  BY <1>7 DEF ReadEdidFromHdmiTx, FilterReads
<1>8. CASE FilterEdidByTxCapabilities
  <2>1. /\ stage = "modes" /\ stage' = "done" /\ UNCHANGED <<tx, read, before, calm>>
        /\ edid' = IF ReadTxDispCapModes(tx) = {} THEN edid
                   ELSE Filtered(edid, read.edid, ReadTxDispCapModes(tx))
    BY <1>8 DEF FilterEdidByTxCapabilities
  <2>2. edid = before /\ (calm => read = tx)
    BY <2>1 DEF FilterReads
  <2>3. calm' => FilteredFor(before', edid', tx')
    BY <2>1, <2>2 DEF FilteredFor
  <2>. QED
    BY <2>1, <2>2, <2>3 DEF FilterReads
<1>9. CASE UpdataEdidDataWithPort
  BY <1>9 DEF UpdataEdidDataWithPort, FilterReads
<1>10. CASE UNCHANGED loadVars
  BY <1>10 DEF FilterReads, FilteredFor, loadVars
<1>. QED
  BY <1>1, <1>2, <1>3, <1>4, <1>5, <1>6, <1>7, <1>8, <1>9, <1>10 DEF LoadNext

\* The filter reads one display and filters for it.
THEOREM FilterReadsCorrect == LoadSpec => []FilterReads
<1>1. LoadInit => FilterReads
  BY DEF LoadInit, FilterReads
<1>. QED
  BY <1>1, FilterReadsNext, PTL DEF LoadSpec

\* Blocks that have been filtered, those of an EDID with good extensions.
LEMMA FilteredForBlocks ==
    ASSUME LoadTyped, LaidOut, FilterReads, FilteredForDisplay,
           NEW n, n = Size(ver), NEW modes, modes = ReadTxDispCapModes(tx),
           NEW allm, allm = ParseTxFeatureSupport(tx.edid, "allm"),
           NEW vrr, vrr = ParseTxFeatureSupport(tx.edid, "vrr"),
           NEW vics, vics = {v \in 0..127 : TxSupportsVic(v, ParseTxEdidVics(tx.edid), modes)}
    PROVE  /\ n \in {2, 3} /\ before \in Blocks(n) /\ edid \in Blocks(n)
           /\ edid[1] = RecalculateEdidBlockChecksum(
                            FilterDetailedTimings(before[1], 54, 126, modes))
           /\ FilteredCea(before, edid, n, vics, modes, allm, vrr)
<1>1. n \in {2, 3} /\ before \in Blocks(n) /\ edid \in Blocks(n)
  BY DEF LoadTyped, Size
<1>2. edid = Filtered(before, tx.edid, modes)
  BY DEF FilteredForDisplay, FilterReads, FilteredFor
<1>3. BlocksLaid(before)
  BY DEF LaidOut
<1>4. PICK txVics : txVics = ParseTxEdidVics(tx.edid)
  OBVIOUS
<1>5. FilteredBlocks(before, edid, n, txVics, modes, allm, vrr)
  BY <1>1, <1>2, <1>4, FilteredTyped
<1>6. allm \in BOOLEAN /\ vrr \in BOOLEAN
  BY DEF ParseTxFeatureSupport
<1>7. vics = {v \in 0..127 : TxSupportsVic(v, txVics, modes)}
  BY <1>4
<1>8. FilteredCea(before, edid, n, vics, modes, allm, vrr)
  BY <1>1, <1>3, <1>5, <1>6, <1>7, FilteredExtensions
<1>. QED
  BY <1>1, <1>5, <1>8 DEF FilteredBlocks

\* Each extension of the buffer is a filtered one of the buffer before.
LEMMA FilteredOneByOne ==
    ASSUME NEW n \in {2, 3}, NEW e \in Blocks(n), NEW c \in Blocks(n),
           NEW vics, NEW modes, NEW allm, NEW vrr,
           FilteredCea(e, c, n, vics, modes, allm, vrr)
    PROVE  /\ \A b \in CeaBlocks(e) : \E d \in CeaBlocks(c) :
                 FilteredBlock(b, d, vics, modes, allm, vrr)
           /\ \A d \in CeaBlocks(c) : \E b \in CeaBlocks(e) :
                 FilteredBlock(b, d, vics, modes, allm, vrr)
<1>1. \A m \in 2..n : /\ IsCea(c, m) <=> IsCea(e, m)
                      /\ IsCea(e, m) => FilteredBlock(e[m], c[m], vics, modes, allm, vrr)
  BY DEF FilteredCea
<1>2. CeaBlocks(e) = {e[m] : m \in {k \in 2..n : IsCea(e, k)}}
  BY CeaOf
<1>3. CeaBlocks(c) = {c[m] : m \in {k \in 2..n : IsCea(c, k)}}
  BY CeaOf
<1>4. ASSUME NEW b \in CeaBlocks(e)
      PROVE  \E d \in CeaBlocks(c) : FilteredBlock(b, d, vics, modes, allm, vrr)
  <2>1. PICK m \in 2..n : IsCea(e, m) /\ b = e[m]
    BY <1>2
  <2>2. c[m] \in CeaBlocks(c)
    BY <1>1, <1>3, <2>1
  <2>. QED
    BY <1>1, <2>1, <2>2
<1>5. ASSUME NEW d \in CeaBlocks(c)
      PROVE  \E b \in CeaBlocks(e) : FilteredBlock(b, d, vics, modes, allm, vrr)
  <2>1. PICK m \in 2..n : IsCea(c, m) /\ d = c[m]
    BY <1>3
  <2>2. e[m] \in CeaBlocks(e)
    BY <1>1, <1>2, <2>1
  <2>. QED
    BY <1>1, <2>1, <2>2
<1>. QED
  BY <1>4, <1>5

\* ALLM, VRR and FreeSync go to a display that has them.
THEOREM FeaturesAgreeCorrect ==
    ASSUME FilesLaid
    PROVE  LoadSpec => []FeaturesAgree
<1>1. LoadTyped /\ LaidOut /\ FilterReads => FeaturesAgree
  <2>. SUFFICES ASSUME LoadTyped, LaidOut, FilterReads, FilteredForDisplay
                PROVE  FeaturesAgree
    BY DEF FeaturesAgree
  <2>1. PICK n, modes, allm, vrr, vics :
           /\ n = Size(ver) /\ modes = ReadTxDispCapModes(tx)
           /\ allm = ParseTxFeatureSupport(tx.edid, "allm")
           /\ vrr = ParseTxFeatureSupport(tx.edid, "vrr")
           /\ vics = {v \in 0..127 : TxSupportsVic(v, ParseTxEdidVics(tx.edid), modes)}
    OBVIOUS
  <2>2. /\ n \in {2, 3} /\ before \in Blocks(n) /\ edid \in Blocks(n)
        /\ FilteredCea(before, edid, n, vics, modes, allm, vrr)
    BY <2>1, FilteredForBlocks
  <2>3. /\ \A b \in CeaBlocks(before) : \E d \in CeaBlocks(edid) :
              FilteredBlock(b, d, vics, modes, allm, vrr)
        /\ \A d \in CeaBlocks(edid) : \E b \in CeaBlocks(before) :
              FilteredBlock(b, d, vics, modes, allm, vrr)
    BY <2>2, FilteredOneByOne
  <2>4. ASSUME NEW b, NEW d, FilteredBlock(b, d, vics, modes, allm, vrr)
        PROVE  /\ HasAny(DataBlocks(d), "allm") <=> HasAny(DataBlocks(b), "allm") /\ allm
               /\ HasAny(DataBlocks(d), "vrr") <=> HasAny(DataBlocks(b), "vrr") /\ vrr
               /\ HasFreeSync(DataBlocks(d)) => vrr
    BY <2>4 DEF FilteredBlock, Agree
  <2>5. ParseTxFeatureSupport(edid, "allm") <=> ParseTxFeatureSupport(before, "allm") /\ allm
    BY <2>3, <2>4, FeatureByBlock
  <2>6. ParseTxFeatureSupport(edid, "vrr") <=> ParseTxFeatureSupport(before, "vrr") /\ vrr
    BY <2>3, <2>4, FeatureByBlock
  <2>7. Advertises(edid, FreeSync) => vrr
    BY <2>3, <2>4, FreeSyncByBlock
  <2>8. \A f, e : ParseTxFeatureSupport(e, f) \in BOOLEAN
    BY DEF ParseTxFeatureSupport
  <2>9. ASSUME NEW f \in {"allm", "vrr"}
        PROVE  ParseTxFeatureSupport(edid, f) =
                  (ParseTxFeatureSupport(before, f) /\ ParseTxFeatureSupport(tx.edid, f))
    <3>1. CASE f = "allm"
      BY <2>1, <2>5, <2>8, <3>1
    <3>2. CASE f = "vrr"
      BY <2>1, <2>6, <2>8, <3>2
    <3>. QED
      BY <3>1, <3>2
  <2>. QED
    BY <2>1, <2>7, <2>9 DEF FeaturesAgree
<1>. QED
  BY <1>1, LoadTypeCorrect, LaidOutCorrect, FilterReadsCorrect, PTL

\* The first block's timings that are left.
LEMMA FirstTimings ==
    ASSUME NEW b \in ByteBlocks, NEW modes,
           NEW c, c = RecalculateEdidBlockChecksum(FilterDetailedTimings(b, 54, 126, modes))
    PROVE  Timings(c, 54, 126) = Timings(b, 54, 126) \cap modes
<1>1. PICK d : d = FilterDetailedTimings(b, 54, 126, modes)
  OBVIOUS
<1>2. \A i \in 0..126 : c[i] = d[i]
  BY <1>1, FirstBlockFiltered
<1>3. PICK start \in 0..127, end \in 0..127 : start = 54 /\ end = 126
  OBVIOUS
<1>4. d = FilterDetailedTimings(b, start, end, modes)
  BY <1>1, <1>3
<1>5. Timings(d, start, end) = Timings(b, start, end) \cap modes
  <2>1. OnlyModes(b, d, start, end, modes)
    BY <1>4, TimingsFiltered, Zenon
  <2>. QED
    BY <2>1, SMTT(30) DEF OnlyModes
<1>6. \A i \in start..end - 1 : c[i] = d[i]
  BY ONLY <1>2, <1>3
<1>7. Timings(c, start, end) = Timings(d, start, end)
  BY ONLY <1>6, TimingsSame, ZenonT(60)
<1>. QED
  BY <1>3, <1>5, <1>7

\* What of the offers of an extension is left.
LEMMA OffersLeft ==
    ASSUME NEW d, NEW modes, modes = ReadTxDispCapModes(d),
           NEW vics, vics = {v \in 0..127 : TxSupportsVic(v, ParseTxEdidVics(d.edid), modes)},
           NEW b \in ByteBlocks, NEW allm, NEW vrr,
           NEW c, FilteredBlock(b, c, vics, modes, allm, vrr)
    PROVE  /\ \A o \in BlockOffers(b) : Showable(o, d) => o \in BlockOffers(c)
           /\ \A o \in BlockOffers(c) :
                 /\ Showable(o, d)
                 /\ o \in BlockOffers(b) \/ \E m \in BlockRemains(b) : o = <<"timing", m>>
<1>1. /\ Listed(DataBlocks(c)) = Listed(DataBlocks(b)) \cap vics
      /\ Listed420(DataBlocks(c)) = Listed420(DataBlocks(b)) \cap vics
      /\ BlockTimings(b) \cap modes \subseteq BlockTimings(c)
      /\ BlockTimings(c) \subseteq (BlockTimings(b) \cup BlockRemains(b)) \cap modes
  BY DEF FilteredBlock, Agree
<1>2. Listed(DataBlocks(b)) \subseteq 0..127 /\ Listed420(DataBlocks(b)) \subseteq 0..127
  BY ListedVics
<1>3. \A v \in 0..127 : /\ Showable(<<"vic", v>>, d) <=> v \in vics
                        /\ Showable(<<"420", v>>, d) <=> v \in vics
  BY ShowableVics, ZenonT(60)
<1>4. \A m : Showable(<<"timing", m>>, d) <=> m \in modes
  BY ShowableTimings, Zenon
<1>5. ASSUME NEW o \in BlockOffers(b), Showable(o, d) PROVE o \in BlockOffers(c)
  <2>1. CASE \E v \in Listed(DataBlocks(b)) : o = <<"vic", v>>
    BY ONLY <1>1, <1>2, <1>3, <1>5, <2>1, InBlockOffers, ZenonT(60)
  <2>2. CASE \E v \in Listed420(DataBlocks(b)) : o = <<"420", v>>
    BY ONLY <1>1, <1>2, <1>3, <1>5, <2>2, InBlockOffers, ZenonT(60)
  <2>3. CASE \E m \in BlockTimings(b) : o = <<"timing", m>>
    BY <1>1, <1>4, <1>5, <2>3, InBlockOffers
  <2>. QED
    BY <2>1, <2>2, <2>3, InBlockOffers
<1>6. ASSUME NEW o \in BlockOffers(c)
      PROVE  /\ Showable(o, d)
             /\ o \in BlockOffers(b) \/ \E m \in BlockRemains(b) : o = <<"timing", m>>
  <2>1. CASE \E v \in Listed(DataBlocks(c)) : o = <<"vic", v>>
    BY ONLY <1>1, <1>2, <1>3, <2>1, InBlockOffers, Zenon
  <2>2. CASE \E v \in Listed420(DataBlocks(c)) : o = <<"420", v>>
    BY ONLY <1>1, <1>2, <1>3, <2>2, InBlockOffers
  <2>3. CASE \E m \in BlockTimings(c) : o = <<"timing", m>>
    BY <1>1, <1>4, <2>3, InBlockOffers
  <2>. QED
    BY <2>1, <2>2, <2>3, InBlockOffers
<1>. QED
  BY <1>5, <1>6

\* The filter takes out what the display cannot show, and nothing else.
THEOREM FilterExactCorrect ==
    ASSUME FilesLaid
    PROVE  LoadSpec => []FilterExact
<1>1. LoadTyped /\ LaidOut /\ FilterReads => FilterExact
  <2>. SUFFICES ASSUME LoadTyped, LaidOut, FilterReads, FilteredForDisplay
                PROVE  /\ {o \in Offers(before) : Showable(o, tx)} \subseteq Offers(edid)
                       /\ Offers(edid) \subseteq
                             {o \in Offers(before) \cup Remains(before) : Showable(o, tx)}
                       /\ Others(edid) = Others(before)
    BY DEF FilterExact, Showable
  <2>1. PICK n, modes, allm, vrr, vics :
           /\ n = Size(ver) /\ modes = ReadTxDispCapModes(tx)
           /\ allm = ParseTxFeatureSupport(tx.edid, "allm")
           /\ vrr = ParseTxFeatureSupport(tx.edid, "vrr")
           /\ vics = {v \in 0..127 : TxSupportsVic(v, ParseTxEdidVics(tx.edid), modes)}
    OBVIOUS
  <2>2. /\ n \in {2, 3} /\ before \in Blocks(n) /\ edid \in Blocks(n)
        /\ edid[1] = RecalculateEdidBlockChecksum(
                         FilterDetailedTimings(before[1], 54, 126, modes))
        /\ FilteredCea(before, edid, n, vics, modes, allm, vrr)
    BY <2>1, FilteredForBlocks
  <2>3. /\ \A b \in CeaBlocks(before) : \E d \in CeaBlocks(edid) :
              FilteredBlock(b, d, vics, modes, allm, vrr)
        /\ \A d \in CeaBlocks(edid) : \E b \in CeaBlocks(before) :
              FilteredBlock(b, d, vics, modes, allm, vrr)
    BY <2>2, FilteredOneByOne
  <2>4. \A b \in CeaBlocks(before) : b \in ByteBlocks
    BY <2>2, CeaBytes
  <2>5. Timings(edid[1], 54, 126) = Timings(before[1], 54, 126) \cap modes
    <3>1. before[1] \in ByteBlocks
      <4>1. 1 \in 1..n
        BY <2>2
      <4>. QED
        BY <2>2, <4>1, ValidBytes DEF Blocks
    <3>. QED
      BY <2>2, <3>1, FirstTimings
  <2>6. ASSUME NEW b \in CeaBlocks(before), NEW d, FilteredBlock(b, d, vics, modes, allm, vrr)
        PROVE  /\ \A o \in BlockOffers(b) : Showable(o, tx) => o \in BlockOffers(d)
               /\ \A o \in BlockOffers(d) :
                     /\ Showable(o, tx)
                     /\ o \in BlockOffers(b) \/ \E m \in BlockRemains(b) : o = <<"timing", m>>
    <3>1. b \in ByteBlocks
      BY <2>4
    <3>. QED
      BY <2>1, <2>6, <3>1, OffersLeft
  <2>7. ASSUME NEW o \in Offers(before), Showable(o, tx) PROVE o \in Offers(edid)
    <3>1. CASE \E m \in Timings(before[1], 54, 126) : o = <<"timing", m>>
      BY <2>1, <2>5, <2>7, <3>1, ShowableTimings, OffersByBlock
    <3>2. CASE \E b \in CeaBlocks(before) : o \in BlockOffers(b)
      BY <2>3, <2>6, <2>7, <3>2, OffersByBlock
    <3>. QED
      BY <3>1, <3>2, OffersByBlock
  <2>8. ASSUME NEW o \in Offers(edid)
        PROVE  Showable(o, tx) /\ o \in Offers(before) \cup Remains(before)
    <3>1. CASE \E m \in Timings(edid[1], 54, 126) : o = <<"timing", m>>
      BY <2>1, <2>5, <3>1, ShowableTimings, OffersByBlock
    <3>2. CASE \E d \in CeaBlocks(edid) : o \in BlockOffers(d)
      <4>1. PICK d \in CeaBlocks(edid) : o \in BlockOffers(d)
        BY <3>2
      <4>2. PICK b \in CeaBlocks(before) : FilteredBlock(b, d, vics, modes, allm, vrr)
        BY <2>3
      <4>3. /\ Showable(o, tx)
            /\ o \in BlockOffers(b) \/ \E m \in BlockRemains(b) : o = <<"timing", m>>
        BY <2>6, <4>1, <4>2
      <4>4. o \in BlockOffers(b) => o \in Offers(before)
        BY OffersByBlock
      <4>5. (\E m \in BlockRemains(b) : o = <<"timing", m>>) => o \in Remains(before)
        BY RemainsByBlock
      <4>. QED
        BY <4>3, <4>4, <4>5
    <3>. QED
      BY <3>1, <3>2, OffersByBlock
  <2>9. Others(edid) = Others(before)
    <3>1. ASSUME NEW b, NEW d, FilteredBlock(b, d, vics, modes, allm, vrr)
          PROVE  OtherBlocks(DataBlocks(d)) = OtherBlocks(DataBlocks(b))
      BY <3>1 DEF FilteredBlock, Agree
    <3>2. \A x : x \in Others(edid) <=> x \in Others(before)
      BY <2>3, <3>1, OthersByBlock
    <3>. QED
      BY <3>2
  <2>. QED
    BY <2>7, <2>8, <2>9
<1>. QED
  BY <1>1, LoadTypeCorrect, LaidOutCorrect, FilterReadsCorrect, PTL

(***************************************************************************)
(* The modes of the patch.                                                 *)
(***************************************************************************)

\* A timing has the numbers that were written.
LEMMA TimingReads ==
    ASSUME NEW clock \in Nat, NEW hActive \in Nat, NEW hBlank \in Nat,
           NEW vActive \in Nat, NEW vBlank \in Nat, NEW flags,
           Fits(hActive, 15), Fits(hBlank, 15), Fits(vActive, 15), Fits(vBlank, 15),
           NEW s, s = WriteDetailedTiming(clock, hActive, hBlank, vActive, vBlank, flags)
    PROVE  /\ PixelClock(s) = clock /\ s[17] = flags
           /\ s[2] + 256 * (s[4] \div 16) = hActive /\ HTotal(s) = hActive + hBlank
           /\ s[5] + 256 * (s[7] \div 16) = vActive /\ VTotal(s) = vActive + vBlank
<1>1. /\ s[0] = clock % 256 /\ s[1] = clock \div 256
      /\ s[2] = hActive % 256 /\ s[3] = hBlank % 256
      /\ s[4] = 16 * (hActive \div 256) + hBlank \div 256
      /\ s[5] = vActive % 256 /\ s[6] = vBlank % 256
      /\ s[7] = 16 * (vActive \div 256) + vBlank \div 256
      /\ s[17] = flags
  BY DEF WriteDetailedTiming
<1>2. \A n \in Nat : (n % 256) + 256 * (n \div 256) = n /\ n \div 256 \in Nat /\ n % 256 \in Nat
  OBVIOUS
<1>3. \A m, n \in 0..15 : (16 * m + n) \div 16 = m /\ (16 * m + n) % 16 = n
  OBVIOUS
<1>4. s[4] \div 16 = hActive \div 256 /\ s[4] % 16 = hBlank \div 256
  BY <1>1, <1>3 DEF Fits
<1>5. s[7] \div 16 = vActive \div 256 /\ s[7] % 16 = vBlank \div 256
  BY <1>1, <1>3 DEF Fits
<1>6. PixelClock(s) = clock
  BY <1>1, <1>2 DEF PixelClock
<1>7. s[2] + 256 * (s[4] \div 16) = hActive /\ s[3] + 256 * (s[4] % 16) = hBlank
  BY <1>1, <1>2, <1>4
<1>8. s[5] + 256 * (s[7] \div 16) = vActive /\ s[6] + 256 * (s[7] % 16) = vBlank
  BY <1>1, <1>2, <1>5
<1>9. HTotal(s) = hActive + hBlank
  <2>1. PICK a \in Nat, x \in Nat, b \in Nat, y \in Nat :
           /\ a = s[2] /\ x = 256 * (s[4] \div 16) /\ b = s[3] /\ y = 256 * (s[4] % 16)
    BY <1>1, <1>2, <1>4
  <2>2. HTotal(s) = a + x + b + y
    BY <2>1 DEF HTotal
  <2>. QED
    BY <1>7, <2>1, <2>2
<1>10. VTotal(s) = vActive + vBlank
  <2>1. PICK a \in Nat, x \in Nat, b \in Nat, y \in Nat :
           /\ a = s[5] /\ x = 256 * (s[7] \div 16) /\ b = s[6] /\ y = 256 * (s[7] % 16)
    BY <1>1, <1>2, <1>5
  <2>2. VTotal(s) = a + x + b + y
    BY <2>1 DEF VTotal
  <2>. QED
    BY <1>8, <2>1, <2>2
<1>. QED
  BY <1>1, <1>6, <1>7, <1>8, <1>9, <1>10

\* A quotient is what its product says.
LEMMA Quotient ==
    ASSUME NEW x \in Nat, NEW y \in Nat \ {0}, NEW q \in Nat, q * y <= x, x < q * y + y
    PROVE  x \div y = q
  OBVIOUS

\* The slot s is a timing of this mode.
Shows(s, w, h, f) == IsTiming(s) /\ DetailedTimingToMode(s) = <<w, h, f, 0>>

\* So many pixels, and so many frames of them, in the clock's tens of kHz.
LEMMA TimingShows ==
    ASSUME NEW clock \in Nat \ {0}, NEW w \in Nat, NEW hBlank \in Nat \ {0},
           NEW h \in Nat, NEW vBlank \in Nat \ {0},
           Fits(w, 15), Fits(hBlank, 15), Fits(h, 15), Fits(vBlank, 15),
           NEW f \in Nat, NEW pixels \in Nat \ {0}, pixels = (w + hBlank) * (h + vBlank),
           f * pixels <= clock * 10000 + pixels \div 2,
           clock * 10000 + pixels \div 2 < f * pixels + pixels
    PROVE  Shows(WriteDetailedTiming(clock, w, hBlank, h, vBlank, 30), w, h, f)
<1>. DEFINE s == WriteDetailedTiming(clock, w, hBlank, h, vBlank, 30)
<1>1. /\ PixelClock(s) = clock /\ s[17] = 30
      /\ s[2] + 256 * (s[4] \div 16) = w /\ HTotal(s) = w + hBlank
      /\ s[5] + 256 * (s[7] \div 16) = h /\ VTotal(s) = h + vBlank
  BY TimingReads, SMTT(30)
<1>. HIDE DEF s
<1>2. IsTiming(s)
  BY <1>1 DEF IsTiming
<1>3. HTotal(s) * VTotal(s) = pixels
  BY <1>1
<1>4. PICK x \in Nat : x = clock * 10000 + pixels \div 2
  OBVIOUS
<1>5. x \div pixels = f
  <2>1. f * pixels <= x /\ x < f * pixels + pixels
    BY <1>4
  <2>2. \A a \in Nat, b \in Nat \ {0}, q \in Nat : q * b <= a /\ a < q * b + b => a \div b = q
    BY Quotient
  <2>. QED
    BY ONLY <2>1, <2>2, x \in Nat, pixels \in Nat \ {0}, f \in Nat
<1>6. (PixelClock(s) * 10000 + pixels \div 2) \div pixels = f
  BY <1>1, <1>4, <1>5
<1>7. Bit(s[17], 128) = 0
  BY <1>1 DEF Bit
<1>8. DetailedTimingToMode(s) = <<w, h, f, 0>>
  <2>1. \A p, u, v, q, t :
           /\ p = HTotal(s) * VTotal(s)
           /\ u = s[2] + 256 * (s[4] \div 16)
           /\ v = s[5] + 256 * (s[7] \div 16)
           /\ q = (PixelClock(s) * 10000 + p \div 2) \div p
           /\ t = Bit(s[17], 128)
           => DetailedTimingToMode(s) = <<u, v, q, t>>
    BY ONLY SMT DEF DetailedTimingToMode
  <2>2. PICK p, u, v, q, t :
           /\ p = HTotal(s) * VTotal(s)
           /\ u = s[2] + 256 * (s[4] \div 16)
           /\ v = s[5] + 256 * (s[7] \div 16)
           /\ q = (PixelClock(s) * 10000 + p \div 2) \div p
           /\ t = Bit(s[17], 128)
    OBVIOUS
  <2>3. p = pixels /\ u = w /\ v = h /\ t = 0
    BY ONLY <1>1, <1>3, <1>7, <2>2
  <2>4. q = (PixelClock(s) * 10000 + pixels \div 2) \div pixels
    BY ONLY <2>2, <2>3
  <2>5. q = f
    BY ONLY <1>6, <2>4
  <2>6. DetailedTimingToMode(s) = <<u, v, q, t>>
    BY ONLY <2>1, <2>2
  <2>. QED
    BY ONLY <2>3, <2>5, <2>6
<1>9. Shows(s, w, h, f)
  BY ONLY <1>2, <1>8 DEF Shows
<1>. QED
  BY <1>9 DEF s

\* Those of the patch.
LEMMA PatchShows ==
    /\ Shows(Mode1440p144, 2560, 1440, 144)
    /\ Shows(Mode1440p120, 2560, 1440, 120)
    /\ Shows(Mode1440p60, 2560, 1440, 60)
    /\ Shows(Mode1080p144, 1920, 1080, 144)
    /\ Shows(Mode1080p240, 1920, 1080, 240)
    /\ Shows(Mode3440p60, 3440, 1440, 60)
<1>1. Shows(Mode1440p144, 2560, 1440, 144)
  <2>1. PICK clock \in Nat \ {0}, w \in Nat, hBlank \in Nat \ {0}, h \in Nat,
             vBlank \in Nat \ {0}, f \in Nat, pixels \in Nat \ {0} :
           /\ clock = 57104 /\ w = 2560 /\ hBlank = 160 /\ h = 1440 /\ vBlank = 18
           /\ f = 144 /\ pixels = 3965760
    BY SMT
  <2>2. pixels = (w + hBlank) * (h + vBlank)
    BY <2>1
  <2>3. /\ f * pixels <= clock * 10000 + pixels \div 2
        /\ clock * 10000 + pixels \div 2 < f * pixels + pixels
    BY <2>1
  <2>4. Fits(w, 15) /\ Fits(hBlank, 15) /\ Fits(h, 15) /\ Fits(vBlank, 15)
    BY <2>1 DEF Fits
  <2>5. Shows(WriteDetailedTiming(clock, w, hBlank, h, vBlank, 30), w, h, f)
    BY <2>2, <2>3, <2>4, TimingShows
  <2>. QED
    BY <2>1, <2>5 DEF Mode1440p144
<1>2. Shows(Mode1440p120, 2560, 1440, 120)
  <2>1. PICK clock \in Nat \ {0}, w \in Nat, hBlank \in Nat \ {0}, h \in Nat,
             vBlank \in Nat \ {0}, f \in Nat, pixels \in Nat \ {0} :
           /\ clock = 49775 /\ w = 2560 /\ hBlank = 160 /\ h = 1440 /\ vBlank = 85
           /\ f = 120 /\ pixels = 4148000
    BY SMT
  <2>2. pixels = (w + hBlank) * (h + vBlank)
    BY <2>1
  <2>3. /\ f * pixels <= clock * 10000 + pixels \div 2
        /\ clock * 10000 + pixels \div 2 < f * pixels + pixels
    BY <2>1
  <2>4. Fits(w, 15) /\ Fits(hBlank, 15) /\ Fits(h, 15) /\ Fits(vBlank, 15)
    BY <2>1 DEF Fits
  <2>5. Shows(WriteDetailedTiming(clock, w, hBlank, h, vBlank, 30), w, h, f)
    BY <2>2, <2>3, <2>4, TimingShows
  <2>. QED
    BY <2>1, <2>5 DEF Mode1440p120
<1>3. Shows(Mode1440p60, 2560, 1440, 60)
  <2>1. PICK clock \in Nat \ {0}, w \in Nat, hBlank \in Nat \ {0}, h \in Nat,
             vBlank \in Nat \ {0}, f \in Nat, pixels \in Nat \ {0} :
           /\ clock = 24150 /\ w = 2560 /\ hBlank = 160 /\ h = 1440 /\ vBlank = 41
           /\ f = 60 /\ pixels = 4028320
    BY SMT
  <2>2. pixels = (w + hBlank) * (h + vBlank)
    BY <2>1
  <2>3. /\ f * pixels <= clock * 10000 + pixels \div 2
        /\ clock * 10000 + pixels \div 2 < f * pixels + pixels
    BY <2>1
  <2>4. Fits(w, 15) /\ Fits(hBlank, 15) /\ Fits(h, 15) /\ Fits(vBlank, 15)
    BY <2>1 DEF Fits
  <2>5. Shows(WriteDetailedTiming(clock, w, hBlank, h, vBlank, 30), w, h, f)
    BY <2>2, <2>3, <2>4, TimingShows
  <2>. QED
    BY <2>1, <2>5 DEF Mode1440p60
<1>4. Shows(Mode1080p144, 1920, 1080, 144)
  <2>1. PICK clock \in Nat \ {0}, w \in Nat, hBlank \in Nat \ {0}, h \in Nat,
             vBlank \in Nat \ {0}, f \in Nat, pixels \in Nat \ {0} :
           /\ clock = 35640 /\ w = 1920 /\ hBlank = 280 /\ h = 1080 /\ vBlank = 45
           /\ f = 144 /\ pixels = 2475000
    BY SMT
  <2>2. pixels = (w + hBlank) * (h + vBlank)
    BY <2>1
  <2>3. /\ f * pixels <= clock * 10000 + pixels \div 2
        /\ clock * 10000 + pixels \div 2 < f * pixels + pixels
    BY <2>1
  <2>4. Fits(w, 15) /\ Fits(hBlank, 15) /\ Fits(h, 15) /\ Fits(vBlank, 15)
    BY <2>1 DEF Fits
  <2>5. Shows(WriteDetailedTiming(clock, w, hBlank, h, vBlank, 30), w, h, f)
    BY <2>2, <2>3, <2>4, TimingShows
  <2>. QED
    BY <2>1, <2>5 DEF Mode1080p144
<1>5. Shows(Mode1080p240, 1920, 1080, 240)
  <2>1. PICK clock \in Nat \ {0}, w \in Nat, hBlank \in Nat \ {0}, h \in Nat,
             vBlank \in Nat \ {0}, f \in Nat, pixels \in Nat \ {0} :
           /\ clock = 59400 /\ w = 1920 /\ hBlank = 280 /\ h = 1080 /\ vBlank = 45
           /\ f = 240 /\ pixels = 2475000
    BY SMT
  <2>2. pixels = (w + hBlank) * (h + vBlank)
    BY <2>1
  <2>3. /\ f * pixels <= clock * 10000 + pixels \div 2
        /\ clock * 10000 + pixels \div 2 < f * pixels + pixels
    BY <2>1
  <2>4. Fits(w, 15) /\ Fits(hBlank, 15) /\ Fits(h, 15) /\ Fits(vBlank, 15)
    BY <2>1 DEF Fits
  <2>5. Shows(WriteDetailedTiming(clock, w, hBlank, h, vBlank, 30), w, h, f)
    BY <2>2, <2>3, <2>4, TimingShows
  <2>. QED
    BY <2>1, <2>5 DEF Mode1080p240
<1>6. Shows(Mode3440p60, 3440, 1440, 60)
  <2>1. PICK clock \in Nat \ {0}, w \in Nat, hBlank \in Nat \ {0}, h \in Nat,
             vBlank \in Nat \ {0}, f \in Nat, pixels \in Nat \ {0} :
           /\ clock = 31975 /\ w = 3440 /\ hBlank = 160 /\ h = 1440 /\ vBlank = 49
           /\ f = 60 /\ pixels = 5360400
    BY SMT
  <2>2. pixels = (w + hBlank) * (h + vBlank)
    BY <2>1
  <2>3. /\ f * pixels <= clock * 10000 + pixels \div 2
        /\ clock * 10000 + pixels \div 2 < f * pixels + pixels
    BY <2>1
  <2>4. Fits(w, 15) /\ Fits(hBlank, 15) /\ Fits(h, 15) /\ Fits(vBlank, 15)
    BY ONLY <2>1 DEF Fits
  <2>5. Shows(WriteDetailedTiming(clock, w, hBlank, h, vBlank, 30), w, h, f)
    BY <2>2, <2>3, <2>4, TimingShows
  <2>. QED
    BY <2>1, <2>5 DEF Mode3440p60
<1>. QED
  BY <1>1, <1>2, <1>3, <1>4, <1>5, <1>6

\* A slot whose bytes are those of a timing.
LEMMA SlotIs ==
    ASSUME NEW b, NEW at \in Int, NEW s \in [0..17 -> 0..255], \A i \in 0..17 : b[at + i] = s[i]
    PROVE  Slot(b, at) = s
  BY SMTT(30) DEF Slot

\* The timings of the second extension are the modes the comments name.
LEMMA NewModesNamed ==
    /\ \A n \in 0..5 : /\ newModes[n + 1] \in [0..17 -> 0..255] /\ IsTiming(newModes[n + 1])
                       /\ DetailedTimingToMode(newModes[n + 1]) \in NamedModes
    /\ \A m \in NamedModes : \E n \in 0..5 : m = DetailedTimingToMode(newModes[n + 1])
<1>1. /\ newModes[1] = Mode1440p120 /\ newModes[2] = Mode1440p60 /\ newModes[3] = Mode1080p144
      /\ newModes[4] = Mode1080p240 /\ newModes[5] = Mode3440p60 /\ newModes[6] = Mode1440p144
  BY ONLY DEF newModes
<1>2. /\ newModes[1] \in [0..17 -> 0..255] /\ newModes[2] \in [0..17 -> 0..255]
      /\ newModes[3] \in [0..17 -> 0..255] /\ newModes[4] \in [0..17 -> 0..255]
      /\ newModes[5] \in [0..17 -> 0..255] /\ newModes[6] \in [0..17 -> 0..255]
  BY ONLY <1>1, PatchTimings, Zenon
<1>3. ASSUME NEW k \in 1..6
      PROVE  /\ newModes[k] \in [0..17 -> 0..255] /\ IsTiming(newModes[k])
             /\ DetailedTimingToMode(newModes[k]) \in NamedModes
  <2>1. CASE k = 1
    <3>1. <<2560, 1440, 120, 0>> \in NamedModes
      BY DEF NamedModes
    <3>2. Shows(Mode1440p120, 2560, 1440, 120) /\ newModes[k] = Mode1440p120
      BY ONLY <1>1, <2>1, PatchShows
    <3>3. IsTiming(newModes[k]) /\ DetailedTimingToMode(newModes[k]) = <<2560, 1440, 120, 0>>
      BY ONLY <3>2 DEF Shows
    <3>4. newModes[k] \in [0..17 -> 0..255]
      BY ONLY <1>2, <2>1, Zenon
    <3>. QED
      BY ONLY <3>1, <3>3, <3>4
  <2>2. CASE k = 2
    <3>1. <<2560, 1440, 60, 0>> \in NamedModes
      BY DEF NamedModes
    <3>2. Shows(Mode1440p60, 2560, 1440, 60) /\ newModes[k] = Mode1440p60
      BY ONLY <1>1, <2>2, PatchShows
    <3>3. IsTiming(newModes[k]) /\ DetailedTimingToMode(newModes[k]) = <<2560, 1440, 60, 0>>
      BY ONLY <3>2 DEF Shows
    <3>4. newModes[k] \in [0..17 -> 0..255]
      BY ONLY <1>2, <2>2, Zenon
    <3>. QED
      BY ONLY <3>1, <3>3, <3>4
  <2>3. CASE k = 3
    <3>1. <<1920, 1080, 144, 0>> \in NamedModes
      BY DEF NamedModes
    <3>2. Shows(Mode1080p144, 1920, 1080, 144) /\ newModes[k] = Mode1080p144
      BY ONLY <1>1, <2>3, PatchShows
    <3>3. IsTiming(newModes[k]) /\ DetailedTimingToMode(newModes[k]) = <<1920, 1080, 144, 0>>
      BY ONLY <3>2 DEF Shows
    <3>4. newModes[k] \in [0..17 -> 0..255]
      BY ONLY <1>2, <2>3, Zenon
    <3>. QED
      BY ONLY <3>1, <3>3, <3>4
  <2>4. CASE k = 4
    <3>1. <<1920, 1080, 240, 0>> \in NamedModes
      BY DEF NamedModes
    <3>2. Shows(Mode1080p240, 1920, 1080, 240) /\ newModes[k] = Mode1080p240
      BY ONLY <1>1, <2>4, PatchShows
    <3>3. IsTiming(newModes[k]) /\ DetailedTimingToMode(newModes[k]) = <<1920, 1080, 240, 0>>
      BY ONLY <3>2 DEF Shows
    <3>4. newModes[k] \in [0..17 -> 0..255]
      BY ONLY <1>2, <2>4, Zenon
    <3>. QED
      BY ONLY <3>1, <3>3, <3>4
  <2>5. CASE k = 5
    <3>1. <<3440, 1440, 60, 0>> \in NamedModes
      BY DEF NamedModes
    <3>2. Shows(Mode3440p60, 3440, 1440, 60) /\ newModes[k] = Mode3440p60
      BY ONLY <1>1, <2>5, PatchShows
    <3>3. IsTiming(newModes[k]) /\ DetailedTimingToMode(newModes[k]) = <<3440, 1440, 60, 0>>
      BY ONLY <3>2 DEF Shows
    <3>4. newModes[k] \in [0..17 -> 0..255]
      BY ONLY <1>2, <2>5, Zenon
    <3>. QED
      BY ONLY <3>1, <3>3, <3>4
  <2>6. CASE k = 6
    <3>1. <<2560, 1440, 144, 0>> \in NamedModes
      BY DEF NamedModes
    <3>2. Shows(Mode1440p144, 2560, 1440, 144) /\ newModes[k] = Mode1440p144
      BY ONLY <1>1, <2>6, PatchShows
    <3>3. IsTiming(newModes[k]) /\ DetailedTimingToMode(newModes[k]) = <<2560, 1440, 144, 0>>
      BY ONLY <3>2, SMTT(30) DEF Shows
    <3>4. newModes[k] \in [0..17 -> 0..255]
      BY ONLY <1>2, <2>6, Zenon
    <3>. QED
      BY ONLY <3>1, <3>3, <3>4
  <2>7. k = 1 \/ k = 2 \/ k = 3 \/ k = 4 \/ k = 5 \/ k = 6
    OBVIOUS
  <2>. QED
    BY ONLY <2>1, <2>2, <2>3, <2>4, <2>5, <2>6, <2>7, ZenonT(60)
<1>4. ASSUME NEW m \in NamedModes PROVE \E k \in 1..6 : m = DetailedTimingToMode(newModes[k])
  <2>1. CASE m = <<2560, 1440, 120, 0>>
    <3>1. Shows(Mode1440p120, 2560, 1440, 120) /\ newModes[1] = Mode1440p120
      BY ONLY <1>1, PatchShows
    <3>2. DetailedTimingToMode(newModes[1]) = <<2560, 1440, 120, 0>>
      BY ONLY <3>1 DEF Shows
    <3>. QED
      BY ONLY <2>1, <3>2
  <2>2. CASE m = <<2560, 1440, 60, 0>>
    <3>1. Shows(Mode1440p60, 2560, 1440, 60) /\ newModes[2] = Mode1440p60
      BY ONLY <1>1, PatchShows
    <3>2. DetailedTimingToMode(newModes[2]) = <<2560, 1440, 60, 0>>
      BY ONLY <3>1 DEF Shows
    <3>. QED
      BY ONLY <2>2, <3>2
  <2>3. CASE m = <<1920, 1080, 144, 0>>
    <3>1. Shows(Mode1080p144, 1920, 1080, 144) /\ newModes[3] = Mode1080p144
      BY ONLY <1>1, PatchShows
    <3>2. DetailedTimingToMode(newModes[3]) = <<1920, 1080, 144, 0>>
      BY ONLY <3>1 DEF Shows
    <3>. QED
      BY ONLY <2>3, <3>2
  <2>4. CASE m = <<1920, 1080, 240, 0>>
    <3>1. Shows(Mode1080p240, 1920, 1080, 240) /\ newModes[4] = Mode1080p240
      BY ONLY <1>1, PatchShows
    <3>2. DetailedTimingToMode(newModes[4]) = <<1920, 1080, 240, 0>>
      BY ONLY <3>1 DEF Shows
    <3>. QED
      BY ONLY <2>4, <3>2
  <2>5. CASE m = <<3440, 1440, 60, 0>>
    <3>1. Shows(Mode3440p60, 3440, 1440, 60) /\ newModes[5] = Mode3440p60
      BY ONLY <1>1, PatchShows
    <3>2. DetailedTimingToMode(newModes[5]) = <<3440, 1440, 60, 0>>
      BY ONLY <3>1 DEF Shows
    <3>. QED
      BY ONLY <2>5, <3>2
  <2>6. CASE m = <<2560, 1440, 144, 0>>
    <3>1. Shows(Mode1440p144, 2560, 1440, 144) /\ newModes[6] = Mode1440p144
      BY ONLY <1>1, PatchShows
    <3>2. DetailedTimingToMode(newModes[6]) = <<2560, 1440, 144, 0>>
      BY ONLY <3>1 DEF Shows
    <3>. QED
      BY ONLY <2>6, <3>2
  <2>. QED
    BY ONLY m \in NamedModes, <2>1, <2>2, <2>3, <2>4, <2>5, <2>6 DEF NamedModes
<1>5. \A n \in 0..5 : n + 1 \in 1..6
  OBVIOUS
<1>6. \A k \in 1..6 : \E n \in 0..5 : n + 1 = k
  <2>1. \A k \in 1..6 : k - 1 \in 0..5 /\ (k - 1) + 1 = k
    OBVIOUS
  <2>. QED
    BY <2>1
<1>7. \A n \in 0..5 : /\ newModes[n + 1] \in [0..17 -> 0..255] /\ IsTiming(newModes[n + 1])
                      /\ DetailedTimingToMode(newModes[n + 1]) \in NamedModes
  BY ONLY <1>3, <1>5, Zenon
<1>8. \A m \in NamedModes : \E n \in 0..5 : m = DetailedTimingToMode(newModes[n + 1])
  BY ONLY <1>4, <1>6
<1>. QED
  BY ONLY <1>7, <1>8, Zenon

\* They are what it offers, and it has no data blocks.
LEMMA SecondOffers ==
    /\ BlockTimings(SecondExtension) = NamedModes
    /\ DataBlocks(SecondExtension) = {}
<1>. DEFINE b == SecondExtension
<1>1. b \in ByteBlocks /\ b[2] = 4
  BY SecondExtensionValid, ValidBytes
<1>2. \A n \in 0..5, i \in 0..17 : b[4 + 18 * n + i] = newModes[n + 1][i]
  BY ONLY SecondExtensionValid, Zenon
<1>. HIDE DEF b
<1>3. ASSUME NEW n \in 0..5 PROVE Slot(b, 4 + 18 * n) = newModes[n + 1]
  <2>1. newModes[n + 1] \in [0..17 -> 0..255]
    BY NewModesNamed, Zenon
  <2>2. \A i \in 0..17 : b[4 + 18 * n + i] = newModes[n + 1][i]
    BY ONLY <1>2
  <2>3. PICK at \in Int, s \in [0..17 -> 0..255] : at = 4 + 18 * n /\ s = newModes[n + 1]
    BY ONLY <2>1
  <2>4. \A i \in 0..17 : b[at + i] = s[i]
    BY <2>2, <2>3
  <2>. QED
    BY <2>3, <2>4, SlotIs, SMTT(30)
<1>4. PICK start \in 0..127, end \in 0..127 : start = 4 /\ end = 127
  OBVIOUS
<1>5. \A m : m \in Timings(b, start, end) <=> m \in NamedModes
  <2>1. ASSUME NEW m \in Timings(b, start, end) PROVE m \in NamedModes
    <3>1. PICK at \in TimingSlots(start, end) :
             IsTiming(Slot(b, at)) /\ m = DetailedTimingToMode(Slot(b, at))
      BY TimingsBySlots
    <3>2. at \in start..end - 18 /\ \E k \in 0..7 : at = start + 18 * k
      BY SlotAt, Zenon
    <3>3. PICK k \in 0..7 : at = start + 18 * k
      BY <3>2
    <3>4. k \in 0..5 /\ at = 4 + 18 * k
      BY <1>4, <3>2, <3>3
    <3>5. Slot(b, at) = newModes[k + 1]
      BY <1>3, <3>4
    <3>. QED
      BY ONLY <3>1, <3>4, <3>5, NewModesNamed, ZenonT(60)
  <2>2. ASSUME NEW m \in NamedModes PROVE m \in Timings(b, start, end)
    <3>1. PICK n \in 0..5 : m = DetailedTimingToMode(newModes[n + 1])
      BY NewModesNamed, ZenonT(60)
    <3>2. IsTiming(newModes[n + 1])
      BY ONLY NewModesNamed, Zenon
    <3>3. n \in Nat /\ start + 18 * n + 18 <= end
      BY <1>4
    <3>4. start + 18 * n \in TimingSlots(start, end)
      BY <3>3, SlotOf
    <3>5. Slot(b, start + 18 * n) = newModes[n + 1]
      BY <1>3, <1>4
    <3>. QED
      BY ONLY <3>1, <3>2, <3>4, <3>5, TimingsBySlots, SMTT(30)
  <2>. QED
    BY <2>1, <2>2, SMTT(30)
<1>6. BlockTimings(b) = NamedModes
  <2>1. BlockTimings(b) = Timings(b, start, end)
    BY <1>1, <1>4 DEF BlockTimings
  <2>. QED
    BY <1>5, <2>1
<1>7. DataBlocks(b) = {}
  <2>1. 4 \in 4..127 /\ AtEnd(b, 4)
    BY ONLY <1>1 DEF AtEnd, DataEnd
  <2>2. Walk(b)[4] = {}
    BY ONLY <1>1, <2>1, WalkStep
  <2>. QED
    BY <2>2 DEF DataBlocks, Chain
<1>. QED
  BY <1>6, <1>7 DEF b

\* The modes of the first block are the patch's and the one of the fourth slot.
LEMMA FirstPatched ==
    ASSUME NEW b \in ByteBlocks,
           NEW c, c = RecalculateEdidBlockChecksum([baseModes(b) EXCEPT ![126] = 2])
    PROVE  Timings(c, 54, 126) \subseteq NamedModes \cup Timings(b, 54, 126)
<1>1. PICK d : d = [baseModes(b) EXCEPT ![126] = 2]
  OBVIOUS
<1>2. /\ baseModes(b) \in ByteBlocks
      /\ \A i \in 0..127 : i \notin 54..107 => baseModes(b)[i] = b[i]
      /\ \A i \in 0..17 : /\ baseModes(b)[54 + i] = Mode1440p144[i]
                          /\ baseModes(b)[72 + i] = Mode1440p120[i]
                          /\ baseModes(b)[90 + i] = Mode1440p60[i]
  BY BaseModesBytes
<1>3. d \in ByteBlocks /\ \A i \in 0..125 : d[i] = baseModes(b)[i]
  <2>1. PICK v \in ByteBlocks : v = baseModes(b)
    BY <1>2
  <2>2. d = [v EXCEPT ![126] = 2]
    BY <1>1, <2>1, SMTT(30)
  <2>3. d \in ByteBlocks
    <3>1. 2 \in 0..255 /\ 126 \in 0..127
      OBVIOUS
    <3>. QED
      BY ONLY <2>1, <2>2, <3>1, Zenon DEF ByteBlocks
  <2>4. ASSUME NEW i \in 0..125 PROVE d[i] = v[i]
    <3>1. i \in 0..127 /\ i # 126
      BY SMTT(30)
    <3>2. v \in [0..127 -> 0..255]
      BY ONLY Zenon DEF ByteBlocks
    <3>. QED
      BY ONLY <2>2, <3>1, <3>2
  <2>. QED
    BY <2>1, <2>3, <2>4
<1>4. c = RecalculateEdidBlockChecksum(d)
  BY <1>1
<1>5. \A i \in 0..126 : c[i] = d[i]
  BY <1>3, <1>4, ChecksumRight
<1>6. \A i \in 0..17 : /\ c[54 + i] = Mode1440p144[i] /\ c[72 + i] = Mode1440p120[i]
                       /\ c[90 + i] = Mode1440p60[i] /\ c[108 + i] = b[108 + i]
  <2>1. \A i \in 0..17 : /\ 54 + i \in 0..125 /\ 72 + i \in 0..125 /\ 90 + i \in 0..125
                         /\ 108 + i \in 0..125 /\ 108 + i \notin 54..107
    OBVIOUS
  <2>2. \A i \in 0..125 : c[i] = baseModes(b)[i]
    BY <1>3, <1>5
  <2>3. \A i \in 0..125 : i \notin 54..107 => c[i] = b[i]
    BY <1>2, <2>2
  <2>. QED
    BY ONLY <1>2, <2>1, <2>2, <2>3
<1>7. /\ Slot(c, 54) = Mode1440p144 /\ Slot(c, 72) = Mode1440p120 /\ Slot(c, 90) = Mode1440p60
      /\ Slot(c, 108) = Slot(b, 108)
  <2>1. Slot(c, 54) = Mode1440p144
    <3>1. PICK at \in Int : at = 54
      OBVIOUS
    <3>2. PICK s \in [0..17 -> 0..255] : s = Mode1440p144
      BY ONLY PatchTimings
    <3>3. \A i \in 0..17 : c[at + i] = s[i]
      BY ONLY <1>6, <3>1, <3>2
    <3>4. Slot(c, at) = s
      BY ONLY <3>3, at \in Int, s \in [0..17 -> 0..255], SlotIs, Zenon
    <3>. QED
      BY ONLY <3>1, <3>2, <3>4, Zenon
  <2>2. Slot(c, 72) = Mode1440p120
    <3>1. PICK at \in Int : at = 72
      OBVIOUS
    <3>2. PICK s \in [0..17 -> 0..255] : s = Mode1440p120
      BY PatchTimings, Zenon
    <3>3. \A i \in 0..17 : c[at + i] = s[i]
      BY ONLY <1>6, <3>1, <3>2
    <3>4. Slot(c, at) = s
      BY ONLY <3>3, at \in Int, s \in [0..17 -> 0..255], SlotIs, Zenon
    <3>. QED
      BY ONLY <3>1, <3>2, <3>4, Zenon
  <2>3. Slot(c, 90) = Mode1440p60
    <3>1. PICK at \in Int : at = 90
      OBVIOUS
    <3>2. PICK s \in [0..17 -> 0..255] : s = Mode1440p60
      BY ONLY PatchTimings
    <3>3. \A i \in 0..17 : c[at + i] = s[i]
      BY ONLY <1>6, <3>1, <3>2
    <3>4. Slot(c, at) = s
      BY ONLY <3>3, at \in Int, s \in [0..17 -> 0..255], SlotIs, Zenon
    <3>. QED
      BY ONLY <3>1, <3>2, <3>4, Zenon
  <2>4. Slot(c, 108) = Slot(b, 108)
    BY ONLY <1>6 DEF Slot
  <2>. QED
    BY ONLY <2>1, <2>2, <2>3, <2>4, SMTT(30)
<1>8. PICK start \in 0..127, end \in 0..127 : start = 54 /\ end = 126
  OBVIOUS
<1>9. ASSUME NEW m \in Timings(c, start, end) PROVE m \in NamedModes \cup Timings(b, start, end)
  <2>1. PICK at \in TimingSlots(start, end) :
           IsTiming(Slot(c, at)) /\ m = DetailedTimingToMode(Slot(c, at))
    BY TimingsBySlots, SMTT(30)
  <2>2. at \in start..end - 18 /\ \E k \in 0..7 : at = start + 18 * k
    BY SlotAt, ZenonT(60)
  <2>3. at = 54 \/ at = 72 \/ at = 90 \/ at = 108
    BY <1>8, <2>2
  <2>4. newModes[6] = Mode1440p144 /\ newModes[1] = Mode1440p120 /\ newModes[2] = Mode1440p60
    BY DEF newModes
  <2>5. \A k \in 1..6 : DetailedTimingToMode(newModes[k]) \in NamedModes
    <3>1. \A k \in 1..6 : k - 1 \in 0..5 /\ (k - 1) + 1 = k
      OBVIOUS
    <3>. QED
      BY <3>1, NewModesNamed, Zenon
  <2>6. /\ DetailedTimingToMode(newModes[6]) \in NamedModes
        /\ DetailedTimingToMode(newModes[1]) \in NamedModes
        /\ DetailedTimingToMode(newModes[2]) \in NamedModes
    BY <2>5
  <2>7. CASE at = 54
    BY ONLY <1>7, <2>1, <2>4, <2>6, <2>7
  <2>8. CASE at = 72
    BY ONLY <1>7, <2>1, <2>4, <2>6, <2>8
  <2>9. CASE at = 90
    BY ONLY <1>7, <2>1, <2>4, <2>6, <2>9
  <2>10. CASE at = 108
    <3>1. Slot(b, at) = Slot(c, at)
      BY ONLY <1>7, <2>10
    <3>. QED
      BY ONLY <2>1, <3>1, TimingsBySlots
  <2>. QED
    BY ONLY <2>3, <2>7, <2>8, <2>9, <2>10
<1>. QED
  BY ONLY <1>8, <1>9

\* The modes of the timing that the insertion pushes over the end.
Pushed(b) ==
    {DetailedTimingToMode(Slot(b, at)) : at \in
        {a \in TimingSlots(b[2], 127) : a + 17 = 126 /\ IsTiming(Slot(b, a))}}

\* The insertion moves the timings; the one at the end may go.
LEMMA InsertTimings ==
    ASSUME NEW b \in ByteBlocks, NEW c, NEW off, NEW len, Inserted(b, c, off, len),
           off + len + 1 <= b[2]
    PROVE  /\ BlockTimings(c) \subseteq BlockTimings(b)
           /\ BlockTimings(b) \ Pushed(b) \subseteq BlockTimings(c)
<1>. DEFINE from == b[2]
            to == c[2]
<1>1. from \in 4..126 /\ to = from + 1 /\ c \in ByteBlocks
  BY DEF Inserted
<1>2. \A i \in off + len + 2..127 : c[i] = b[i - 1]
  BY DEF Inserted
<1>3. off \in 4..126 /\ len \in 1..30 /\ off + len + 1 <= from
  BY DEF Inserted
<1>. HIDE DEF from, to
<1>4. ASSUME NEW k \in 0..7, to + 18 * k + 18 <= 127
      PROVE  Slot(c, to + 18 * k) = Slot(b, from + 18 * k)
  <2>1. ASSUME NEW i \in 0..17 PROVE c[to + 18 * k + i] = b[from + 18 * k + i]
    <3>. DEFINE j == to + 18 * k + i
    <3>1. j \in off + len + 2..127 /\ j - 1 = from + 18 * k + i
      BY <1>1, <1>3, <1>4
    <3>. HIDE DEF j
    <3>2. c[j] = b[from + 18 * k + i]
      BY <1>2, <3>1
    <3>. QED
      BY <3>2 DEF j
  <2>. QED
    BY <2>1 DEF Slot
<1>5. to \in 0..127 /\ from \in 0..127 /\ 127 \in 0..127
  BY <1>1
<1>6. ASSUME NEW m \in BlockTimings(c) PROVE m \in BlockTimings(b)
  <2>1. to \in 4..126 /\ m \in Timings(c, to, 127)
    BY DEF BlockTimings, to
  <2>2. PICK at \in TimingSlots(to, 127) :
           IsTiming(Slot(c, at)) /\ m = DetailedTimingToMode(Slot(c, at))
    BY ONLY <2>1, TimingsBySlots
  <2>3. at \in to..127 - 18 /\ \E k \in 0..7 : at = to + 18 * k
    BY ONLY <1>5, SlotAt, Zenon
  <2>4. PICK k \in 0..7 : at = to + 18 * k
    BY <2>3
  <2>5. to + 18 * k + 18 <= 127 /\ from + 18 * k + 18 <= 127 /\ k \in Nat
    BY <1>1, <2>3, <2>4
  <2>6. from + 18 * k \in TimingSlots(from, 127)
    BY <1>5, <2>5, SlotOf, ZenonT(60)
  <2>7. Slot(c, at) = Slot(b, from + 18 * k)
    BY <1>4, <2>4, <2>5
  <2>8. m \in Timings(b, from, 127)
    BY <2>2, <2>6, <2>7, TimingsBySlots
  <2>. QED
    BY <1>1, <2>8 DEF BlockTimings, from
<1>7. ASSUME NEW m \in BlockTimings(b), m \notin Pushed(b) PROVE m \in BlockTimings(c)
  <2>1. m \in Timings(b, from, 127)
    BY <1>1 DEF BlockTimings, from
  <2>2. PICK at \in TimingSlots(from, 127) :
           IsTiming(Slot(b, at)) /\ m = DetailedTimingToMode(Slot(b, at))
    BY <2>1, TimingsBySlots
  <2>3. at + 17 # 126
    BY ONLY <1>7, <2>2 DEF Pushed, from
  <2>4. at \in from..127 - 18 /\ \E k \in 0..7 : at = from + 18 * k
    BY ONLY <1>5, SlotAt, Zenon
  <2>5. PICK k \in 0..7 : at = from + 18 * k
    BY <2>4
  <2>6. to + 18 * k + 18 <= 127 /\ k \in Nat /\ to \in 4..126
    BY <1>1, <2>3, <2>4, <2>5
  <2>7. to + 18 * k \in TimingSlots(to, 127)
    BY <1>5, <2>6, SlotOf, ZenonT(60)
  <2>8. Slot(c, to + 18 * k) = Slot(b, at)
    BY <1>4, <2>5, <2>6
  <2>9. m \in Timings(c, to, 127)
    BY <2>2, <2>7, <2>8, TimingsBySlots
  <2>. QED
    BY <2>6, <2>9 DEF BlockTimings, to
<1>. QED
  BY <1>6, <1>7

\* What a source finds in the data blocks after the insertion.
LEMMA InsertedOffers ==
    ASSUME NEW b, NEW c, InsertedBlocks(b, c)
    PROVE  /\ Listed(DataBlocks(c)) = Listed(DataBlocks(b)) \cup {63}
           /\ Listed420(DataBlocks(c)) = Listed420(DataBlocks(b))
           /\ OtherBlocks(DataBlocks(c)) = OtherBlocks(DataBlocks(b))
<1>1. PICK v, w, others : /\ Grown(v, w) /\ DataBlocks(b) = others \cup {v}
                          /\ DataBlocks(c) = others \cup {w}
  BY DEF InsertedBlocks
<1>2. IsVideo(v) /\ IsVideo(w) /\ Vics(w) = Vics(v) \cup {63}
  BY <1>1 DEF Grown
<1>3. \A d : IsVideo(d) => ~IsVideo420(d) /\ ~Other(d)
  BY DEF IsVideo, IsVideo420, Other
<1>4. Listed(others \cup {w}) = Listed(others \cup {v}) \cup {63}
  BY ONLY <1>2 DEF Listed
<1>5. Listed420(others \cup {w}) = Listed420(others \cup {v})
  BY ONLY <1>2, <1>3 DEF Listed420
<1>6. OtherBlocks(others \cup {w}) = OtherBlocks(others \cup {v})
  BY ONLY <1>2, <1>3 DEF OtherBlocks
<1>. QED
  BY ONLY <1>1, <1>4, <1>5, <1>6

\* The extension b as the patch leaves it.
PatchedBlock(b, c) ==
    /\ BlockTimings(c) \subseteq BlockTimings(b)
    /\ \A m \in BlockTimings(b) : m \in BlockTimings(c) \/ (HasRoom(b) /\ m \in Pushed(b))
    /\ \A v : v \in Listed(DataBlocks(c)) <=>
                 \/ v \in Listed(DataBlocks(b))
                 \/ HasRoom(b) /\ v = 63
    /\ Listed420(DataBlocks(c)) = Listed420(DataBlocks(b))
    /\ OtherBlocks(DataBlocks(c)) = OtherBlocks(DataBlocks(b))

\* That is how it leaves one that is laid out well.
LEMMA ExtensionPatched ==
    ASSUME NEW b \in ByteBlocks, NEW S, Laid(b, S),
           NEW c, c = RecalculateEdidBlockChecksum(IF HasRoom(b) THEN InsertVic63(b) ELSE b)
    PROVE  PatchedBlock(b, c)
<1>1. CASE HasRoom(b)
  <2>1. PICK d, off, len : /\ d = InsertVic63(b) /\ off = FirstVideoBlock(b)
                           /\ len = BlockLen(b, off)
    OBVIOUS
  <2>2. Inserted(b, d, off, len)
    BY <1>1, <2>1, InsertBytes
  <2>3. d \in ByteBlocks
    BY <2>2 DEF Inserted
  <2>4. InsertedBlocks(b, d)
    BY <1>1, <2>1, InsertLaid
  <2>5. c = RecalculateEdidBlockChecksum(d)
    BY <1>1, <2>1
  <2>6. PICK U : Laid(d, U)
    BY <2>4 DEF InsertedBlocks
  <2>7. BlockTimings(c) = BlockTimings(d) /\ DataBlocks(c) = DataBlocks(d)
    BY <2>3, <2>5, <2>6, ChecksumKeeps
  <2>8. off + len + 1 <= b[2]
    <3>1. /\ off \in 4..126 /\ off \in Chain(b) /\ ~AtEnd(b, off) /\ b[2] \in 4..126
      BY <1>1, <2>1, RoomAt
    <3>2. off \in S
      BY <3>1, ChainPassed
    <3>3. off + BlockLen(b, off) + 1 \in S
      <4>1. ~(off = DataEnd(b)) /\ BlockLen(b, off) # 0
        <5>1. DataEnd(b) \in 4..127
          BY StationsBefore
        <5>. QED
          BY <3>1, <5>1 DEF AtEnd, Stops
      <4>. QED
        BY <3>2, <4>1 DEF Laid
    <3>4. off + BlockLen(b, off) + 1 <= DataEnd(b)
      BY <3>3, StationsBefore
    <3>. QED
      BY <2>1, <3>1, <3>4 DEF DataEnd
  <2>9. /\ BlockTimings(d) \subseteq BlockTimings(b)
        /\ BlockTimings(b) \ Pushed(b) \subseteq BlockTimings(d)
    BY <2>2, <2>8, InsertTimings
  <2>10. /\ Listed(DataBlocks(d)) = Listed(DataBlocks(b)) \cup {63}
         /\ Listed420(DataBlocks(d)) = Listed420(DataBlocks(b))
         /\ OtherBlocks(DataBlocks(d)) = OtherBlocks(DataBlocks(b))
    BY <2>4, InsertedOffers
  <2>. QED
    BY ONLY <1>1, <2>7, <2>9, <2>10 DEF PatchedBlock
<1>2. CASE ~HasRoom(b)
  <2>1. c = RecalculateEdidBlockChecksum(b)
    BY <1>2
  <2>2. BlockTimings(c) = BlockTimings(b) /\ DataBlocks(c) = DataBlocks(b)
    BY <2>1, ChecksumKeeps
  <2>. QED
    BY ONLY <1>2, <2>2 DEF PatchedBlock
<1>. QED
  BY <1>1, <1>2

\* Nothing is offered by a block of zeros.
LEMMA NothingFirst ==
    ASSUME NEW b, b = [Zeros EXCEPT ![126] = 1]
    PROVE  Timings(b, 54, 126) = {}
<1>1. PICK start \in 0..127, end \in 0..127 : start = 54 /\ end = 126
  OBVIOUS
<1>2. \A i \in 0..125 : b[i] = 0
  BY DEF Zeros
<1>3. ASSUME NEW at \in TimingSlots(start, end) PROVE Slot(b, at) = NoBytes
  <2>1. at \in start..end - 18
    BY SlotAt, Zenon
  <2>2. \A i \in 0..17 : at + i \in 0..125
    BY <1>1, <2>1
  <2>. QED
    BY ONLY <1>2, <2>2, ZenonT(60) DEF Slot, NoBytes
<1>4. \A m : m \notin Timings(b, start, end)
  <2>1. SUFFICES ASSUME NEW m \in Timings(b, start, end) PROVE FALSE
    OBVIOUS
  <2>2. PICK at \in TimingSlots(start, end) : IsTiming(Slot(b, at))
    BY <2>1, TimingsBySlots
  <2>. QED
    BY <1>3, <2>2, NoTiming
<1>. QED
  BY ONLY <1>1, <1>4

\* e is what the patch makes of the file f.
PatchedFile(f, e) ==
    /\ f[2] \in ByteBlocks
    /\ CeaBlocks(f) = {f[2]} /\ CeaBlocks(e) = {e[2], SecondExtension}
    /\ PatchedBlock(f[2], e[2])
    /\ Timings(e[1], 54, 126) \subseteq NamedModes \cup Timings(f[1], 54, 126)

\* That is what it makes of a file that is laid out well.
LEMMA FilePatched ==
    ASSUME NEW f \in Blocks(2), BlocksLaid(f), Patchable(f),
           NEW e, e = Patched(Append(f, Zeros))
    PROVE  PatchedFile(f, e)
<1>1. PICK a : a = Append(f, Zeros)
  OBVIOUS
<1>2. a \in Blocks(3) /\ a[1] = f[1] /\ a[2] = f[2]
  BY <1>1, TwoBlocks
<1>3. Patchable(a)
  BY <1>2 DEF Patchable
<1>4. e = Patched(a)
  BY <1>1
<1>5. CeaBlocks(a) = CeaBlocks(f)
  BY <1>1, CeaAppend
<1>6. BlocksLaid(a)
  BY <1>5 DEF BlocksLaid
<1>7. CeaBlocks(e) = {e[2], SecondExtension}
  BY <1>2, <1>3, <1>4, <1>6, PatchLaid DEF PatchedCea
<1>8. /\ e[1] = RecalculateEdidBlockChecksum([baseModes(f[1]) EXCEPT ![126] = 2])
      /\ e[2] = RecalculateEdidBlockChecksum(IF HasRoom(f[2]) THEN InsertVic63(f[2]) ELSE f[2])
  <2>1. PatchedBlocks(a, e)
    BY <1>2, <1>4, PatchTyped
  <2>. QED
    BY <1>2, <1>3, <2>1 DEF PatchedBlocks
<1>9. f[1] \in ByteBlocks /\ f[2] \in ByteBlocks
  BY ValidBytes DEF Blocks
<1>10. CeaBlocks(f) = {f[2]}
  <2>1. 126 \in 0..127
    BY ONLY SMTT(30)
  <2>2. f[1][126] > 0 /\ f[2][0] = 2 /\ f[1][126] \in Nat
    BY <1>9, <2>1, Bytewise, ZenonT(60) DEF Patchable
  <2>3. IsCea(f, 2)
    BY <2>2 DEF IsCea
  <2>4. \A m : m \in 2..2 <=> m = 2
    OBVIOUS
  <2>5. CeaBlocks(f) = {f[m] : m \in {k \in 2..2 : IsCea(f, k)}}
    BY CeaOf
  <2>. QED
    BY <2>3, <2>4, <2>5
<1>11. PICK S : Laid(f[2], S)
  BY <1>10 DEF BlocksLaid
<1>12. PatchedBlock(f[2], e[2])
  BY <1>8, <1>9, <1>11, ExtensionPatched
<1>13. Timings(e[1], 54, 126) \subseteq NamedModes \cup Timings(f[1], 54, 126)
  BY <1>8, <1>9, FirstPatched
<1>. QED
  BY <1>7, <1>9, <1>10, <1>12, <1>13 DEF PatchedFile

\* What a file with nothing but its extension offers.
LEMMA BareOffers ==
    ASSUME NEW f \in Blocks(2), Patchable(f),
           NEW g, g = [f EXCEPT ![1] = [Zeros EXCEPT ![126] = 1]],
           NEW o \in Offers(g)
    PROVE  o \in BlockOffers(f[2])
<1>1. PICK z : z = [Zeros EXCEPT ![126] = 1]
  OBVIOUS
<1>2. z[126] = 1
  BY <1>1 DEF Zeros
<1>3. f \in [1..2 -> Valid]
  BY DEF Blocks
<1>4. g[1] = z /\ g[2] = f[2] /\ g \in [1..2 -> Valid \cup {z}]
  <2>1. g = [f EXCEPT ![1] = z]
    BY <1>1
  <2>. QED
    BY ONLY <1>3, <2>1
<1>5. Len(g) = 2 /\ g # <<>>
  <2>1. \A T : \A n \in Nat : \A e \in [1..n -> T] : e \in Seq(T) /\ Len(e) = n
    OBVIOUS
  <2>2. Len(<<>>) = 0
    OBVIOUS
  <2>3. PICK T : T = Valid \cup {z}
    OBVIOUS
  <2>4. g \in [1..2 -> T]
    BY <1>4, <2>3
  <2>5. Len(g) = 2
    BY ONLY <2>1, <2>4
  <2>. QED
    BY <2>2, <2>5
<1>6. CeaBlocks(g) \subseteq {f[2]}
  <2>1. CeaBlocks(g) = {g[n] : n \in {m \in 2..2 : m - 1 <= g[1][126] /\ g[m][0] = 2}}
    BY <1>5 DEF CeaBlocks
  <2>2. \A m : m \in 2..2 <=> m = 2
    OBVIOUS
  <2>. QED
    BY <1>4, <2>1, <2>2
<1>7. Timings(g[1], 54, 126) = {}
  BY <1>1, <1>4, NothingFirst
<1>8. PICK b \in CeaBlocks(g) : o \in BlockOffers(b)
  BY <1>7, OffersByBlock
<1>. QED
  BY <1>6, <1>8

\* The modes are added.
LEMMA ModesAdded ==
    ASSUME NEW f, NEW e, PatchedFile(f, e), NEW m \in NamedModes
    PROVE  <<"timing", m>> \in Offers(e)
<1>1. m \in BlockTimings(SecondExtension)
  BY SecondOffers
<1>2. <<"timing", m>> \in BlockOffers(SecondExtension)
  BY <1>1, InBlockOffers
<1>3. SecondExtension \in CeaBlocks(e)
  BY DEF PatchedFile
<1>. QED
  BY <1>2, <1>3, OffersByBlock

\* So is VIC 63, where there is room.
LEMMA VicAdded ==
    ASSUME NEW f, NEW e, PatchedFile(f, e), HasRoom(f[2])
    PROVE  <<"vic", 63>> \in Offers(e)
<1>1. 63 \in Listed(DataBlocks(e[2]))
  BY DEF PatchedFile, PatchedBlock
<1>2. <<"vic", 63>> \in BlockOffers(e[2])
  BY <1>1, InBlockOffers
<1>3. e[2] \in CeaBlocks(e)
  BY DEF PatchedFile
<1>. QED
  BY <1>2, <1>3, OffersByBlock

\* The extension's offers stay, but for the timing that is pushed out.
LEMMA OffersKept ==
    ASSUME NEW f, NEW e, PatchedFile(f, e), NEW o \in BlockOffers(f[2])
    PROVE  \/ o \in Offers(e)
           \/ HasRoom(f[2]) /\ \E m \in Pushed(f[2]) : o = <<"timing", m>>
<1>1. PatchedBlock(f[2], e[2]) /\ e[2] \in CeaBlocks(e)
  BY DEF PatchedFile
<1>2. o \in BlockOffers(e[2]) => o \in Offers(e)
  BY <1>1, OffersByBlock
<1>3. CASE \E v \in Listed(DataBlocks(f[2])) : o = <<"vic", v>>
  <2>1. PICK v : v \in Listed(DataBlocks(f[2])) /\ o = <<"vic", v>>
    BY <1>3
  <2>2. v \in Listed(DataBlocks(e[2]))
    BY <1>1, <2>1 DEF PatchedBlock
  <2>. QED
    BY <1>2, <2>1, <2>2, InBlockOffers
<1>4. CASE \E v \in Listed420(DataBlocks(f[2])) : o = <<"420", v>>
  <2>1. PICK v : v \in Listed420(DataBlocks(f[2])) /\ o = <<"420", v>>
    BY <1>4
  <2>2. v \in Listed420(DataBlocks(e[2]))
    BY <1>1, <2>1 DEF PatchedBlock
  <2>. QED
    BY <1>2, <2>1, <2>2, InBlockOffers
<1>5. CASE \E m \in BlockTimings(f[2]) : o = <<"timing", m>>
  <2>1. PICK m : m \in BlockTimings(f[2]) /\ o = <<"timing", m>>
    BY <1>5
  <2>2. m \in BlockTimings(e[2]) \/ (HasRoom(f[2]) /\ m \in Pushed(f[2]))
    BY <1>1, <2>1 DEF PatchedBlock
  <2>3. m \in BlockTimings(e[2]) => o \in BlockOffers(e[2])
    BY <2>1, InBlockOffers
  <2>. QED
    BY <1>2, <2>1, <2>2, <2>3
<1>. QED
  BY <1>3, <1>4, <1>5, InBlockOffers

\* Nothing else comes in addition.
LEMMA OffersAdded ==
    ASSUME NEW f, NEW e, PatchedFile(f, e), NEW o \in Offers(e)
    PROVE  \/ o \in Offers(f) \/ o = <<"vic", 63>>
           \/ \E m \in NamedModes : o = <<"timing", m>>
<1>1. /\ PatchedBlock(f[2], e[2]) /\ f[2] \in CeaBlocks(f)
      /\ CeaBlocks(e) = {e[2], SecondExtension}
      /\ Timings(e[1], 54, 126) \subseteq NamedModes \cup Timings(f[1], 54, 126)
  BY DEF PatchedFile
<1>2. CASE \E m \in Timings(e[1], 54, 126) : o = <<"timing", m>>
  <2>1. PICK m \in Timings(e[1], 54, 126) : o = <<"timing", m>>
    BY <1>2
  <2>2. m \in NamedModes \/ m \in Timings(f[1], 54, 126)
    BY <1>1
  <2>. QED
    BY <2>1, <2>2, OffersByBlock
<1>3. CASE o \in BlockOffers(e[2])
  <2>1. o \in BlockOffers(f[2]) => o \in Offers(f)
    BY <1>1, OffersByBlock
  <2>2. CASE \E v \in Listed(DataBlocks(e[2])) : o = <<"vic", v>>
    <3>1. PICK v : v \in Listed(DataBlocks(e[2])) /\ o = <<"vic", v>>
      BY <2>2
    <3>2. v \in Listed(DataBlocks(f[2])) \/ v = 63
      BY <1>1, <3>1 DEF PatchedBlock
    <3>3. v \in Listed(DataBlocks(f[2])) => o \in BlockOffers(f[2])
      BY <3>1, InBlockOffers
    <3>. QED
      BY <2>1, <3>1, <3>2, <3>3
  <2>3. CASE \E v \in Listed420(DataBlocks(e[2])) : o = <<"420", v>>
    <3>1. PICK v : v \in Listed420(DataBlocks(e[2])) /\ o = <<"420", v>>
      BY <2>3
    <3>2. v \in Listed420(DataBlocks(f[2]))
      BY <1>1, <3>1 DEF PatchedBlock
    <3>. QED
      BY <2>1, <3>1, <3>2, InBlockOffers
  <2>4. CASE \E m \in BlockTimings(e[2]) : o = <<"timing", m>>
    <3>1. PICK m : m \in BlockTimings(e[2]) /\ o = <<"timing", m>>
      BY <2>4
    <3>2. m \in BlockTimings(f[2])
      BY <1>1, <3>1 DEF PatchedBlock
    <3>. QED
      BY <2>1, <3>1, <3>2, InBlockOffers
  <2>. QED
    BY <1>3, <2>2, <2>3, <2>4, InBlockOffers
<1>4. CASE o \in BlockOffers(SecondExtension)
  <2>1. Listed(DataBlocks(SecondExtension)) = {} /\ Listed420(DataBlocks(SecondExtension)) = {}
    BY SecondOffers DEF Listed, Listed420
  <2>2. PICK m \in BlockTimings(SecondExtension) : o = <<"timing", m>>
    BY <1>4, <2>1, InBlockOffers
  <2>. QED
    BY <2>2, SecondOffers
<1>. QED
  BY <1>1, <1>2, <1>3, <1>4, OffersByBlock

\* The other data blocks stay.
LEMMA OthersKept ==
    ASSUME NEW f, NEW e, PatchedFile(f, e)
    PROVE  Others(e) = Others(f)
<1>1. /\ OtherBlocks(DataBlocks(e[2])) = OtherBlocks(DataBlocks(f[2]))
      /\ CeaBlocks(f) = {f[2]} /\ CeaBlocks(e) = {e[2], SecondExtension}
  BY DEF PatchedFile, PatchedBlock
<1>2. OtherBlocks(DataBlocks(SecondExtension)) = {}
  BY SecondOffers DEF OtherBlocks
<1>3. \A d : d \in Others(e) <=> d \in OtherBlocks(DataBlocks(e[2]))
  BY <1>1, <1>2, OthersByBlock
<1>4. \A d : d \in Others(f) <=> d \in OtherBlocks(DataBlocks(f[2]))
  BY <1>1, OthersByBlock
<1>. QED
  BY <1>1, <1>3, <1>4

\* The file that was read is laid out well.
FileInv == LoadTyped /\ Begun /\ BlocksLaid(file)

\* The patch adds what its comments say and takes nothing it need not.
THEOREM PatchExactCorrect ==
    ASSUME FilesLaid
    PROVE  LoadSpec => []PatchExact
<1>1. LoadInit => FileInv
  BY LoadTypedInit, EmptyLaid DEF LoadInit, FileInv, Begun
<1>2. FileInv /\ [LoadNext]_loadVars => FileInv'
  <2>. SUFFICES ASSUME FileInv, [LoadNext]_loadVars PROVE FileInv'
    OBVIOUS
  <2>1. LoadTyped' /\ Begun'
    BY LoadTypedNext, BegunNext DEF FileInv
  <2>2. BlocksLaid(file')
    <3>1. CASE file' = file
      BY <3>1 DEF FileInv
    <3>2. CASE file' \in Files \cup {Empty}
      BY <3>2, FileLaid
    <3>3. file' = file \/ file' \in Files \cup {Empty}
      BY DEF LoadNext, ExchangeDisplay, PassthroughEdidFromTxToRx, LoadEdidData, LoadEdid20,
             ReadDataFromFile, PatchEdidFor120Hz, PatchEdidMonitorName, ReadEdidFromHdmiTx,
             FilterEdidByTxCapabilities, UpdataEdidDataWithPort, loadVars
    <3>. QED
      BY <3>1, <3>2, <3>3
  <2>. QED
    BY <2>1, <2>2 DEF FileInv
<1>3. FileInv => PatchExact
  <2>. SUFFICES ASSUME FileInv, stage = "name", ver = 20, Patchable(file) PROVE PatchExact
    BY DEF PatchExact
  <2>1. PatchedFile(file, edid)
    <3>1. edid = Patched(Append(file, Zeros))
      BY DEF FileInv, Begun
    <3>2. file \in Blocks(2) /\ BlocksLaid(file)
      BY DEF FileInv, LoadTyped
    <3>. QED
      BY <3>1, <3>2, FilePatched
  <2>. DEFINE b == file[2]
              pushed == {<<"timing", DetailedTimingToMode(Slot(b, at))>> :
                            at \in {a \in TimingSlots(b[2], 127) :
                                       HasRoom(b) /\ a + 17 = 126 /\ IsTiming(Slot(b, a))}}
              added == {<<"timing", m>> : m \in NamedModes}
              bare == [file EXCEPT ![1] = [Zeros EXCEPT ![126] = 1]]
  <2>2. added \subseteq Offers(edid)
    BY <2>1, ModesAdded
  <2>3. HasRoom(b) => <<"vic", 63>> \in Offers(edid)
    BY <2>1, VicAdded
  <2>4. Offers(bare) \ pushed \subseteq Offers(edid)
    <3>1. SUFFICES ASSUME NEW o \in Offers(bare), o \notin pushed PROVE o \in Offers(edid)
      OBVIOUS
    <3>2. o \in BlockOffers(b)
      <4>1. PICK g : g = bare
        OBVIOUS
      <4>2. /\ file \in Blocks(2) /\ o \in Offers(g)
            /\ g = [file EXCEPT ![1] = [Zeros EXCEPT ![126] = 1]]
        BY <3>1, <4>1 DEF FileInv, LoadTyped
      <4>. QED
        BY <4>2, BareOffers
    <3>3. HasRoom(b) => \A m \in Pushed(b) : <<"timing", m>> \in pushed
      BY DEF Pushed
    <3>. QED
      BY <2>1, <3>1, <3>2, <3>3, OffersKept
  <2>5. Offers(edid) \subseteq Offers(file) \cup added \cup {<<"vic", 63>>}
    BY <2>1, OffersAdded
  <2>6. Others(edid) = Others(file)
    BY <2>1, OthersKept
  <2>. QED
    BY ONLY <2>2, <2>3, <2>4, <2>5, <2>6 DEF PatchExact
<1>. QED
  BY <1>1, <1>2, <1>3, PTL DEF LoadSpec

=============================================================================
