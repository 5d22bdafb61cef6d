---------------------------- MODULE Upkeep_proofs ----------------------------
(***************************************************************************)
(* What sync-plans promises, for any lists of plans and any number of      *)
(* scripts and listings; what a worker detects on its pages, for any       *)
(* vendored files and overrides and any number of matches at once; what    *)
(* the migrations build, for any releases and deploys; and what a search   *)
(* and a profile show, for any stores, queries, limit and requests at once.*)
(*                                                                         *)
(* Holes are bounded by giving each its list: the entries of the list      *)
(* before the hole's have their limits, so a list has one hole at most.    *)
(* A script that ran alone is exact up to the entry it stands at.          *)
(*                                                                         *)
(* Over a disk nobody has touched, whatever a match has read so far and    *)
(* whatever is cached is what the disk says; over any disk, what is cached *)
(* are technologies of some versions with their overrides.                 *)
(*                                                                         *)
(* The schema is that of the migrations recorded, because running some of  *)
(* them and then the others is running them all: a number for which it     *)
(* were not would have a least one.  Each migration finds what it needs in *)
(* the schema before it and is undone by its down; without stray deploys   *)
(* the code is at most one deploy behind its schema.                       *)
(*                                                                         *)
(* What each query of a request has read is what the tables say as long as *)
(* nothing was written since it began; a write voids that, and leaves the  *)
(* limits and the history that the request was given.                      *)
(***************************************************************************)
EXTENDS Migrations, PlanCatalog, Fingerprints, StoreReads,
        FiniteSetTheorems, WellFoundedInduction, TLAPS

-----------------------------------------------------------------------------
(* The plans. *)

\* What one step of PlanNext may be.
LEMMA PlanSteps ==
  ASSUME [PlanNext]_planVars
  PROVE  \/ UNCHANGED planVars
         \/ \E c \in Script : UpsertBySlug(c)
         \/ \E c \in Script : UpsertForPlan(c)
         \/ \E c \in Script : Die(c)
         \/ \E c \in Script, l \in List : StartSync(c, l)
         \/ \E s \in Slug : Retire(s)
         \/ \E r \in Reader : GetActivePlans(r)
         \/ \E r \in Reader : Answer(r)
         \/ \E r \in Reader, s \in Slug : GetLimitsForPlan(r, s)
BY DEF PlanNext

\* A running script works on one of the lists and stands at one of its plans.
LEMMA RunningScripts ==
  ASSUME PlanTypeOK, NEW c \in Script, Running(c)
  PROVE  /\ script[c] \in Working
         /\ script[c].list \in List /\ script[c].list \in Seq(Plan)
         /\ script[c].at \in DOMAIN script[c].list
         /\ script[c].at \in 1 .. Len(script[c].list)
         /\ Len(script[c].list) \in Nat
         /\ Entry(c) \in Plan
<1>1. script[c] \in Working
  BY DEF PlanTypeOK, Running, Idle
<1>2. script[c].list \in List /\ script[c].list \in Seq(Plan)
  BY <1>1, PlanCatalogAssumption DEF Working
<1>3. script[c].at \in DOMAIN script[c].list
  BY DEF PlanTypeOK
<1> QED
  BY <1>1, <1>2, <1>3 DEF Entry

\* The plans of a list have slugs of their own.
LEMMA SlugsDiffer ==
  ASSUME NEW l \in List, NEW i \in DOMAIN l, NEW j \in DOMAIN l, l[i].slug = l[j].slug
  PROVE  i = j
BY PlanCatalogAssumption

LEMMA EntriesArePlans ==
  ASSUME NEW l \in List, NEW i \in DOMAIN l
  PROVE  /\ l[i] \in Plan /\ i \in Nat /\ i >= 1 /\ i <= Len(l) /\ Len(l) \in Nat
         /\ l[i].slug \in Slug /\ l[i].price \in Price /\ l[i].cents \in Nat /\ l[i].limit \in Nat
<1>1. l \in Seq(Plan)
  BY PlanCatalogAssumption
<1>2. Len(l) \in Nat /\ i \in 1 .. Len(l)
  BY <1>1
<1>3. l[i] \in Plan
  BY <1>1, <1>2
<1>4. l[i].slug \in Slug /\ l[i].price \in Price /\ l[i].cents \in Nat /\ l[i].limit \in Nat
  BY <1>3 DEF Plan
<1> QED
  BY <1>2, <1>3, <1>4

\* A script that another one disturbs goes on, but not alone.
LEMMA DisturbedScripts ==
  ASSUME PlanTypeOK, NEW c \in Script, NEW d \in Script, d # c
  PROVE  /\ Disturbed(c)[d] \in Working \cup {Idle}
         /\ Disturbed(c)[d].list = script[d].list
         /\ Disturbed(c)[d].at = script[d].at
         /\ Disturbed(c)[d].next = script[d].next
         /\ ~Disturbed(c)[d].alone
<1>1. Disturbed(c)[d] = [script[d] EXCEPT !.alone = FALSE]
  BY DEF Disturbed
<1>2. ASSUME NEW w \in Working PROVE
        /\ [w EXCEPT !.alone = FALSE] \in Working
        /\ [w EXCEPT !.alone = FALSE].list = w.list /\ [w EXCEPT !.alone = FALSE].at = w.at
        /\ [w EXCEPT !.alone = FALSE].next = w.next /\ ~[w EXCEPT !.alone = FALSE].alone
  BY DEF Working
<1>3. /\ [Idle EXCEPT !.alone = FALSE] = Idle
      /\ ~Idle.alone
  <2>1. Idle \in [list : {<<>>}, at : {1}, next : {"plan"}, alone : {FALSE}]
    BY DEF Idle
  <2>2. ASSUME NEW i \in [list : {<<>>}, at : {1}, next : {"plan"}, alone : {FALSE}]
        PROVE  [i EXCEPT !.alone = FALSE] = i /\ ~i.alone
    OBVIOUS
  <2> QED
    BY <2>1, <2>2
<1>4. script[d] \in Working \/ script[d] = Idle
  BY DEF PlanTypeOK
<1> QED
  BY <1>1, <1>2, <1>3, <1>4

---------------------------------------------------------------------------
(* Types. *)

\* StartSync's script, and the scripts next to it.
LEMMA StartedScripts ==
  ASSUME PlanTypeOK, NEW c \in Script, NEW l \in List, StartSync(c, l)
  PROVE  /\ script' \in [Script -> Working \cup {Idle}]
         /\ script'[c].list = l /\ script'[c].at = 1 /\ script'[c].next = "plan"
         /\ script'[c].alone = (\A d \in Script : ~Running(d))
         /\ 1 \in DOMAIN l
         /\ \A d \in Script : d # c =>
              /\ script'[d].list = script[d].list /\ script'[d].at = script[d].at
              /\ script'[d].next = script[d].next /\ ~script'[d].alone
<1> DEFINE started == [list |-> l, at |-> 1, next |-> "plan", alone |-> \A d \in Script : ~Running(d)]
<1>1. started \in Working
  BY DEF Working
<1>2. script' = [Disturbed(c) EXCEPT ![c] = started]
  BY DEF StartSync
<1>3. started.list = l /\ started.at = 1 /\ started.next = "plan"
      /\ started.alone = (\A d \in Script : ~Running(d))
  OBVIOUS
<1>4. l \in Seq(Plan) /\ l # <<>>
  BY PlanCatalogAssumption DEF StartSync
<1>5. 1 \in DOMAIN l
  BY <1>4
<1>6. Disturbed(c) = [d \in Script |-> Disturbed(c)[d]]
  BY DEF Disturbed
<1> HIDE DEF started
<1>7. script' = [d \in Script |-> IF d = c THEN started ELSE Disturbed(c)[d]]
  BY <1>2, <1>6
<1>8. script'[c] = started
  BY <1>7
<1>9. \A d \in Script : d # c => script'[d] = Disturbed(c)[d]
  BY <1>7
<1>10. \A d \in Script : script'[d] \in Working \cup {Idle}
  BY <1>1, <1>8, <1>9, DisturbedScripts
<1>11. script' \in [Script -> Working \cup {Idle}]
  BY <1>7, <1>10
<1> QED
  BY <1>3, <1>5, <1>8, <1>9, <1>11, DisturbedScripts

LEMMA PlanTypeStep == PlanTypeOK /\ [PlanNext]_planVars => PlanTypeOK'
<1> SUFFICES ASSUME PlanTypeOK, [PlanNext]_planVars PROVE PlanTypeOK'
  OBVIOUS
<1>1. CASE UNCHANGED planVars
  BY <1>1 DEF planVars, PlanTypeOK, Running
<1>2. ASSUME NEW c \in Script, UpsertBySlug(c) PROVE PlanTypeOK'
  <2>1. Running(c)
    BY <1>2 DEF UpsertBySlug
  <2>2. script[c] \in Working /\ Entry(c) \in Plan
    BY <2>1, RunningScripts
  <2> DEFINE row == [price |-> Entry(c).price, cents |-> Entry(c).cents,
                     active |-> IF plans[Entry(c).slug] = NoRow THEN TRUE ELSE plans[Entry(c).slug].active]
  <2>3. row \in PlanRow
    BY <2>2 DEF PlanTypeOK, Plan, PlanRow
  <2>4. plans' = [plans EXCEPT ![Entry(c).slug] = row]
    BY <1>2 DEF UpsertBySlug
  <2> HIDE DEF row
  <2>5. plans' \in [Slug -> PlanRow \cup {NoRow}]
    BY <2>3, <2>4 DEF PlanTypeOK
  <2>6. script' \in [Script -> Working \cup {Idle}]
    BY <1>2, <2>2 DEF UpsertBySlug, PlanTypeOK, Working
  <2>7. \A d \in Script : script'[d].list = script[d].list /\ script'[d].at = script[d].at
    BY <1>2, <2>2 DEF UpsertBySlug, PlanTypeOK, Working
  <2> QED
    BY <1>2, <2>5, <2>6, <2>7 DEF UpsertBySlug, PlanTypeOK, Running
<1>3. ASSUME NEW c \in Script, UpsertForPlan(c) PROVE PlanTypeOK'
  <2>1. Running(c)
    BY <1>3 DEF UpsertForPlan
  <2>2. script[c] \in Working /\ Entry(c) \in Plan /\ script[c].list \in List
        /\ script[c].at \in 1 .. Len(script[c].list) /\ script[c].list \in Seq(Plan)
    BY <2>1, RunningScripts
  <2>3. limits' \in [Slug -> Nat \cup {NoRow}]
    BY <1>3, <2>2 DEF UpsertForPlan, PlanTypeOK, Plan
  <2>4. CASE script[c].at = Len(script[c].list)
    <3>1. script' = [script EXCEPT ![c] = Idle]
      BY <1>3, <2>4 DEF UpsertForPlan
    <3>2. synced' \in List \cup {NoRow}
      BY <1>3, <2>2, <2>4 DEF UpsertForPlan
    <3> QED
      BY <1>3, <2>3, <3>1, <3>2 DEF UpsertForPlan, PlanTypeOK, Running, Idle
  <2>5. CASE script[c].at # Len(script[c].list)
    <3> DEFINE moved == [script[c] EXCEPT !.at = script[c].at + 1, !.next = "plan"]
    <3>1. moved \in Working /\ moved.list = script[c].list /\ moved.at = script[c].at + 1
      <4>1. script[c].at \in Nat
        BY <2>2 DEF Working
      <4>2. script[c].at + 1 \in Nat \ {0}
        BY <4>1
      <4> QED
        BY <2>2, <4>2 DEF Working
    <3>2. moved.at \in DOMAIN moved.list
      BY <2>2, <2>5, <3>1
    <3>3. script' = [script EXCEPT ![c] = moved]
      BY <1>3, <2>5 DEF UpsertForPlan
    <3> HIDE DEF moved
    <3>4. script' \in [Script -> Working \cup {Idle}]
      BY <3>1, <3>3 DEF PlanTypeOK
    <3>5. \A d \in Script : script'[d] = IF d = c THEN moved ELSE script[d]
      BY <3>3 DEF PlanTypeOK
    <3>6. synced' = synced
      BY <1>3, <2>5 DEF UpsertForPlan
    <3> QED
      BY <1>3, <2>3, <3>2, <3>4, <3>5, <3>6 DEF UpsertForPlan, PlanTypeOK, Running
  <2> QED
    BY <2>4, <2>5
<1>4. ASSUME NEW c \in Script, Die(c) PROVE PlanTypeOK'
  BY <1>4 DEF Die, PlanTypeOK, Running, Idle
<1>5. ASSUME NEW c \in Script, NEW l \in List, StartSync(c, l) PROVE PlanTypeOK'
  <2>1. ASSUME NEW d \in Script, Running(d)' PROVE script'[d].at \in DOMAIN script'[d].list
    <3>1. CASE d = c
      BY <1>5, <3>1, StartedScripts
    <3>2. CASE d # c
      BY <1>5, <2>1, <3>2, StartedScripts DEF PlanTypeOK, Running
    <3> QED
      BY <3>1, <3>2
  <2>2. script' \in [Script -> Working \cup {Idle}]
    BY <1>5, StartedScripts
  <2>3. runs' \in Nat /\ ran' \subseteq List /\ synced' = NoRow
    BY <1>5 DEF StartSync, PlanTypeOK
  <2>4. UNCHANGED <<plans, limits, reads>>
    BY <1>5 DEF StartSync
  <2> QED
    BY <2>1, <2>2, <2>3, <2>4 DEF PlanTypeOK
<1>6. ASSUME NEW s \in Slug, Retire(s) PROVE PlanTypeOK'
  BY <1>6 DEF Retire, PlanTypeOK, PlanRow, Running
<1>7. ASSUME NEW r \in Reader, GetActivePlans(r) PROVE PlanTypeOK'
  BY <1>7 DEF GetActivePlans, PlanTypeOK, Running
<1>8. ASSUME NEW r \in Reader, Answer(r) PROVE PlanTypeOK'
  BY <1>8 DEF Answer, PlanTypeOK, Running
<1>9. ASSUME NEW r \in Reader, NEW s \in Slug, GetLimitsForPlan(r, s) PROVE PlanTypeOK'
  BY <1>9 DEF GetLimitsForPlan, PlanTypeOK, Running
<1> QED
  BY <1>1, <1>2, <1>3, <1>4, <1>5, <1>6, <1>7, <1>8, <1>9, PlanSteps

\* The tables hold rows of their shape, and a running script stands at one of
\* the plans of its list (SyncPlansCommand.run).
THEOREM PlanTypesHold == PlanSpec => []PlanTypeOK
<1>1. PlanInit => PlanTypeOK
  BY DEF PlanInit, PlanTypeOK, Running, Idle
<1> QED
  BY <1>1, PlanTypeStep, PTL DEF PlanSpec

---------------------------------------------------------------------------
(* Holes. *)

\* The limits of the plans before an entry are there.
LimitsBefore(l, k) == \A i \in DOMAIN l : i < k => limits[l[i].slug] # NoRow

\* The run of l that died, or stands, at h left the hole.
LeftBy(h, l) == \E k \in DOMAIN l : l[k].slug = h /\ LimitsBefore(l, k)

RunningInRan == \A c \in Script : Running(c) =>
                  script[c].list \in ran /\ LimitsBefore(script[c].list, script[c].at)
HolesHaveLists == \A h \in Holes : \E l \in ran : LeftBy(h, l)
HoleInv == PlanTypeOK /\ RunningInRan /\ HolesHaveLists

\* Limits are never taken away.
LimitsGrow == \A s \in Slug : limits[s] # NoRow => limits'[s] # NoRow

\* What was left by a list stays left by it, as long as limits only come.
LEMMA LeftByGrows ==
  ASSUME LimitsGrow
  PROVE  /\ \A l \in List : \A k \in Nat : LimitsBefore(l, k) => LimitsBefore(l, k)'
         /\ \A h \in Slug, l \in List : LeftBy(h, l) => LeftBy(h, l)'
<1>1. ASSUME NEW l \in List, NEW k \in Nat, LimitsBefore(l, k) PROVE LimitsBefore(l, k)'
  BY <1>1, EntriesArePlans DEF LimitsGrow, LimitsBefore
<1>2. ASSUME NEW h \in Slug, NEW l \in List, LeftBy(h, l) PROVE LeftBy(h, l)'
  <2>1. PICK k \in DOMAIN l : l[k].slug = h /\ LimitsBefore(l, k)
    BY <1>2 DEF LeftBy
  <2>2. LimitsBefore(l, k)'
    BY <1>1, <2>1, EntriesArePlans
  <2> QED
    BY <2>1, <2>2 DEF LeftBy
<1> QED
  BY <1>1, <1>2

\* A step that leaves no new hole and starts or moves no script keeps the invariant.
LEMMA HolesKept ==
  ASSUME HoleInv, PlanTypeOK', LimitsGrow, Holes' \subseteq Holes, ran' = ran,
         \A d \in Script : Running(d)' => /\ script[d].list = script'[d].list
                                          /\ script[d].at = script'[d].at
  PROVE  HoleInv'
<1>1. RunningInRan'
  <2> SUFFICES ASSUME NEW d \in Script, Running(d)'
               PROVE  script'[d].list \in ran' /\ LimitsBefore(script[d].list, script[d].at)'
    BY DEF RunningInRan
  <2>1. Running(d)
    BY DEF Running
  <2>2. script[d].list \in ran /\ LimitsBefore(script[d].list, script[d].at)
    BY <2>1 DEF HoleInv, RunningInRan
  <2>3. script[d].at \in Nat /\ script[d].list \in List
    BY <2>1, RunningScripts DEF HoleInv
  <2>4. PICK l \in List, k \in Nat : l = script[d].list /\ k = script[d].at
    BY <2>3
  <2>5. LimitsBefore(l, k)'
    BY <2>2, <2>4, LeftByGrows
  <2>6. l = script'[d].list /\ k = script'[d].at
    BY <2>4
  <2> QED
    BY <2>2, <2>4, <2>5, <2>6 DEF LimitsBefore
<1>2. HolesHaveLists'
  <2> SUFFICES ASSUME NEW h \in Holes' PROVE \E l \in ran' : LeftBy(h, l)'
    BY DEF HolesHaveLists
  <2>1. h \in Holes /\ h \in Slug
    BY DEF Holes
  <2>2. PICK l \in ran : LeftBy(h, l)
    BY <2>1 DEF HoleInv, HolesHaveLists
  <2>3. l \in List
    BY <2>2 DEF HoleInv, PlanTypeOK
  <2> QED
    BY <2>1, <2>2, <2>3, LeftByGrows
<1> QED
  BY <1>1, <1>2 DEF HoleInv

LEMMA HoleStep == HoleInv /\ [PlanNext]_planVars => HoleInv'
<1> SUFFICES ASSUME HoleInv, [PlanNext]_planVars PROVE HoleInv'
  OBVIOUS
<1>0. PlanTypeOK /\ PlanTypeOK'
  BY PlanTypeStep DEF HoleInv
<1>1. CASE UNCHANGED planVars
  BY <1>0, <1>1, HolesKept DEF planVars, Holes, MaxCount, LimitsGrow, Running
<1>2. ASSUME NEW c \in Script, UpsertBySlug(c) PROVE HoleInv'
  <2>1. Running(c) /\ UNCHANGED <<limits, ran>>
    BY <1>2 DEF UpsertBySlug
  <2>2. PICK l \in List, k \in Nat : l = script[c].list /\ k = script[c].at
    BY <1>0, <2>1, RunningScripts
  <2>3. k \in DOMAIN l /\ l[k] = Entry(c) /\ l[k].slug \in Slug
    BY <1>0, <2>1, <2>2, RunningScripts, EntriesArePlans DEF Entry
  <2>4. l \in ran /\ LimitsBefore(l, k)
    BY <2>1, <2>2 DEF HoleInv, RunningInRan
  <2>5. LeftBy(l[k].slug, l)
    BY <2>3, <2>4 DEF LeftBy
  <2>6. LimitsGrow
    BY <2>1 DEF LimitsGrow
  <2>7. \A d \in Script : script'[d].list = script[d].list /\ script'[d].at = script[d].at
    <3>1. script[c] \in Working
      BY <1>0, <2>1, RunningScripts
    <3> QED
      BY <1>0, <1>2, <3>1 DEF UpsertBySlug, PlanTypeOK, Working
  <2>8. RunningInRan'
    <3> SUFFICES ASSUME NEW d \in Script, Running(d)'
                 PROVE  script'[d].list \in ran' /\ LimitsBefore(script[d].list, script[d].at)'
      BY DEF RunningInRan
    <3>1. script[d].list \in ran /\ LimitsBefore(script[d].list, script[d].at)
      BY <2>7 DEF Running, HoleInv, RunningInRan
    <3> QED
      BY <2>1, <2>7, <3>1 DEF LimitsBefore
  <2>9. HolesHaveLists'
    <3> SUFFICES ASSUME NEW h \in Holes' PROVE \E m \in ran' : LeftBy(h, m)'
      BY DEF HolesHaveLists
    <3>1. CASE h = l[k].slug
      BY <2>1, <2>3, <2>4, <2>5, <2>6, <3>1, LeftByGrows
    <3>2. CASE h # l[k].slug
      <4>1. h \in Slug /\ plans'[h] = plans[h]
        BY <1>0, <1>2, <2>3, <3>2 DEF UpsertBySlug, Holes, PlanTypeOK
      <4>2. h \in Holes
        BY <2>1, <4>1 DEF Holes, MaxCount
      <4>3. PICK m \in ran : LeftBy(h, m)
        BY <4>2 DEF HoleInv, HolesHaveLists
      <4>4. m \in List
        BY <1>0, <4>3 DEF PlanTypeOK
      <4> QED
        BY <2>1, <2>6, <4>1, <4>3, <4>4, LeftByGrows
    <3> QED
      BY <3>1, <3>2
  <2> QED
    BY <1>0, <2>8, <2>9 DEF HoleInv
<1>3. ASSUME NEW c \in Script, UpsertForPlan(c) PROVE HoleInv'
  <2>1. Running(c) /\ UNCHANGED <<plans, ran>>
    BY <1>3 DEF UpsertForPlan
  <2>2. PICK l \in List, k \in Nat : l = script[c].list /\ k = script[c].at
    BY <1>0, <2>1, RunningScripts
  <2>3. k \in DOMAIN l /\ l[k] = Entry(c) /\ l[k].slug \in Slug /\ l[k].limit \in Nat
    BY <1>0, <2>1, <2>2, RunningScripts, EntriesArePlans DEF Entry
  <2>4. l \in ran /\ LimitsBefore(l, k)
    BY <2>1, <2>2 DEF HoleInv, RunningInRan
  <2>5. limits' = [limits EXCEPT ![l[k].slug] = l[k].limit] /\ l[k].limit # NoRow
    BY <1>3, <2>3, PlanCatalogAssumption DEF UpsertForPlan
  <2>6. LimitsGrow
    BY <1>0, <2>3, <2>5 DEF LimitsGrow, PlanTypeOK
  <2>7. LimitsBefore(l, k + 1)'
    <3> SUFFICES ASSUME NEW i \in DOMAIN l, i < k + 1 PROVE limits'[l[i].slug] # NoRow
      BY DEF LimitsBefore
    <3>1. i \in Nat /\ l[i].slug \in Slug
      BY EntriesArePlans
    <3>2. CASE i = k
      BY <1>0, <2>3, <2>5, <3>2 DEF PlanTypeOK
    <3>3. CASE i < k
      BY <2>4, <2>6, <3>1, <3>3 DEF LimitsBefore, LimitsGrow
    <3> QED
      BY <2>2, <3>1, <3>2, <3>3
  <2>8. \A d \in Script \ {c} : script'[d] = script[d]
    <3>1. \E w : script' = [script EXCEPT ![c] = w]
      BY <1>3 DEF UpsertForPlan
    <3> QED
      BY <1>0, <3>1 DEF PlanTypeOK
  <2>9. Running(c)' => script'[c].list = l /\ script'[c].at = k + 1
    <3>1. CASE k = Len(l)
      BY <1>0, <1>3, <2>2, <3>1 DEF UpsertForPlan, PlanTypeOK, Running, Idle
    <3>2. CASE k # Len(l)
      <4>1. script[c] \in Working
        BY <1>0, <2>1, RunningScripts
      <4> QED
        BY <1>0, <1>3, <2>2, <3>2, <4>1 DEF UpsertForPlan, PlanTypeOK, Working
    <3> QED
      BY <3>1, <3>2
  <2>10. RunningInRan'
    <3> SUFFICES ASSUME NEW d \in Script, Running(d)'
                 PROVE  script'[d].list \in ran' /\ LimitsBefore(script[d].list, script[d].at)'
      BY DEF RunningInRan
    <3>1. CASE d = c
      BY <2>1, <2>4, <2>7, <2>9, <3>1 DEF LimitsBefore
    <3>2. CASE d # c
      <4>1. Running(d) /\ script'[d] = script[d]
        BY <2>8, <3>2 DEF Running
      <4>2. PICK m \in List, j \in Nat : m = script[d].list /\ j = script[d].at
        BY <1>0, <4>1, RunningScripts
      <4>3. m \in ran /\ LimitsBefore(m, j)
        BY <4>1, <4>2 DEF HoleInv, RunningInRan
      <4>4. LimitsBefore(m, j)'
        BY <2>6, <4>3, LeftByGrows
      <4> QED
        BY <2>1, <4>1, <4>2, <4>3, <4>4 DEF LimitsBefore
    <3> QED
      BY <3>1, <3>2
  <2>11. HolesHaveLists'
    <3> SUFFICES ASSUME NEW h \in Holes' PROVE \E m \in ran' : LeftBy(h, m)'
      BY DEF HolesHaveLists
    <3>1. h \in Holes /\ h \in Slug
      BY <2>1, <2>6 DEF Holes, MaxCount, LimitsGrow
    <3>2. PICK m \in ran : LeftBy(h, m)
      BY <3>1 DEF HoleInv, HolesHaveLists
    <3> QED
      BY <1>0, <2>1, <2>6, <3>1, <3>2, LeftByGrows DEF PlanTypeOK
  <2> QED
    BY <1>0, <2>10, <2>11 DEF HoleInv
<1>4. ASSUME NEW c \in Script, Die(c) PROVE HoleInv'
  <2>1. \A d \in Script : Running(d)' => script'[d] = script[d]
    BY <1>0, <1>4 DEF Die, Running, Idle, PlanTypeOK
  <2> QED
    BY <1>0, <1>4, <2>1, HolesKept DEF Die, Holes, MaxCount, LimitsGrow
<1>5. ASSUME NEW c \in Script, NEW l \in List, StartSync(c, l) PROVE HoleInv'
  <2>1. UNCHANGED <<plans, limits>> /\ ran' = ran \cup {l}
    BY <1>5 DEF StartSync
  <2>2. LimitsGrow
    BY <2>1 DEF LimitsGrow
  <2>3. RunningInRan'
    <3> SUFFICES ASSUME NEW d \in Script, Running(d)'
                 PROVE  script'[d].list \in ran' /\ LimitsBefore(script[d].list, script[d].at)'
      BY DEF RunningInRan
    <3>1. CASE d = c
      <4>1. script'[d].list = l /\ script'[d].at = 1
        BY <1>0, <1>5, <3>1, StartedScripts
      <4>2. \A i \in DOMAIN l : ~(i < 1)
        BY EntriesArePlans
      <4> QED
        BY <2>1, <4>1, <4>2 DEF LimitsBefore
    <3>2. CASE d # c
      <4>1. script'[d].list = script[d].list /\ script'[d].at = script[d].at
        BY <1>0, <1>5, <3>2, StartedScripts
      <4>2. script[d].list \in ran /\ LimitsBefore(script[d].list, script[d].at)
        BY <4>1 DEF Running, HoleInv, RunningInRan
      <4> QED
        BY <2>1, <4>1, <4>2 DEF LimitsBefore
    <3> QED
      BY <3>1, <3>2
  <2>4. HolesHaveLists'
    <3> SUFFICES ASSUME NEW h \in Holes' PROVE \E m \in ran' : LeftBy(h, m)'
      BY DEF HolesHaveLists
    <3>1. h \in Holes /\ h \in Slug
      BY <2>1 DEF Holes, MaxCount
    <3>2. PICK m \in ran : LeftBy(h, m)
      BY <3>1 DEF HoleInv, HolesHaveLists
    <3> QED
      BY <1>0, <2>1, <2>2, <3>1, <3>2, LeftByGrows DEF PlanTypeOK
  <2> QED
    BY <1>0, <2>3, <2>4 DEF HoleInv
<1>6. ASSUME NEW s \in Slug, Retire(s) PROVE HoleInv'
  <2>1. Holes' \subseteq Holes
    BY <1>0, <1>6 DEF Retire, Holes, MaxCount, PlanTypeOK
  <2> QED
    BY <1>0, <1>6, <2>1, HolesKept DEF Retire, LimitsGrow, Running
<1>7. ASSUME NEW r \in Reader, GetActivePlans(r) PROVE HoleInv'
  BY <1>0, <1>7, HolesKept DEF GetActivePlans, Holes, MaxCount, LimitsGrow, Running
<1>8. ASSUME NEW r \in Reader, Answer(r) PROVE HoleInv'
  BY <1>0, <1>8, HolesKept DEF Answer, Holes, MaxCount, LimitsGrow, Running
<1>9. ASSUME NEW r \in Reader, NEW s \in Slug, GetLimitsForPlan(r, s) PROVE HoleInv'
  BY <1>0, <1>9, HolesKept DEF GetLimitsForPlan, Holes, MaxCount, LimitsGrow, Running
<1> QED
  BY <1>1, <1>2, <1>3, <1>4, <1>5, <1>6, <1>7, <1>8, <1>9, PlanSteps

\* A list leaves one hole at most, so there are no more holes than lists.
LEMMA HolesCount == HoleInv => HolesAreBounded
<1> SUFFICES ASSUME HoleInv PROVE HolesAreBounded
  OBVIOUS
<1> DEFINE f == [h \in Holes |-> CHOOSE l \in ran : LeftBy(h, l)]
<1>1. \A h \in Holes : f[h] \in ran /\ LeftBy(h, f[h])
  BY DEF HoleInv, HolesHaveLists
<1>2. ASSUME NEW g \in Holes, NEW h \in Holes, f[g] = f[h] PROVE g = h
  <2>1. PICK l \in ran : l = f[g] /\ l = f[h]
    BY <1>1, <1>2
  <2>2. l \in List
    BY <2>1 DEF HoleInv, PlanTypeOK
  <2> HIDE DEF f
  <2>3. LeftBy(g, l) /\ LeftBy(h, l)
    BY <1>1, <2>1
  <2>4. PICK j \in DOMAIN l : l[j].slug = g /\ LimitsBefore(l, j)
    BY <2>3 DEF LeftBy
  <2>5. PICK k \in DOMAIN l : l[k].slug = h /\ LimitsBefore(l, k)
    BY <2>3 DEF LeftBy
  <2>6. limits[g] = NoRow /\ limits[h] = NoRow
    BY DEF Holes, MaxCount
  <2>7. ~(j < k) /\ ~(k < j)
    BY <2>4, <2>5, <2>6 DEF LimitsBefore
  <2>8. j \in Nat /\ k \in Nat
    BY <2>2, EntriesArePlans
  <2> QED
    BY <2>4, <2>5, <2>7, <2>8
<1>3. f \in Injection(Holes, ran)
  BY <1>1, <1>2 DEF Injection, IsInjective
<1>4. IsFiniteSet(ran)
  BY FS_Subset, PlanCatalogAssumption DEF HoleInv, PlanTypeOK
<1> HIDE DEF f
<1> QED
  BY <1>3, <1>4, FS_Injection DEF HolesAreBounded

\* However many scripts run, at once or after each other, and wherever they
\* die, no more plans lack their limit than lists were run (sync-plans.ts:45,
\* getMaxCountForPlan).
THEOREM HolesStayBounded == PlanSpec => []HolesAreBounded
<1>1. PlanInit => HoleInv
  <2>1. PlanInit => PlanTypeOK
    BY DEF PlanInit, PlanTypeOK, Running, Idle
  <2> QED
    BY <2>1 DEF PlanInit, HoleInv, RunningInRan, HolesHaveLists, Holes, Running, Idle
<1> QED
  BY <1>1, HoleStep, HolesCount, PTL DEF PlanSpec

---------------------------------------------------------------------------
(* Listings. *)

ShownPlan == [cents : Nat, limit : Limits]
Listing == [shown : UNION {[S -> ShownPlan] : S \in SUBSET Slug}, torn : BOOLEAN]

\* A listing nothing was written under shows what the tables say.
Fresh(r) == \A s \in DOMAIN listing[r].shown :
              /\ plans[s] # NoRow /\ listing[r].shown[s].cents = plans[s].cents
              /\ listing[r].shown[s].limit \in {Unread, ReadLimit(limits[s])}
ListingInv == /\ listing \in [Reader -> Listing]
              /\ \A r \in Reader : ~listing[r].torn => Fresh(r)

\* Reading one limit changes that limit only.
LEMMA OneLimitRead ==
  ASSUME NEW x \in Listing, NEW s \in DOMAIN x.shown, NEW v \in Limits
  PROVE  LET y == [x EXCEPT !.shown[s].limit = v]
         IN  /\ y \in Listing /\ y.torn = x.torn /\ DOMAIN y.shown = DOMAIN x.shown
             /\ \A t \in DOMAIN x.shown :
                  /\ y.shown[t].cents = x.shown[t].cents
                  /\ y.shown[t].limit = IF t = s THEN v ELSE x.shown[t].limit
<1> DEFINE shown == [x.shown EXCEPT ![s] = [x.shown[s] EXCEPT !.limit = v]]
           y == [x EXCEPT !.shown[s].limit = v]
<1>1. PICK S \in SUBSET Slug : x.shown \in [S -> ShownPlan]
  BY DEF Listing
<1>2. x.shown[s] \in ShownPlan
  BY <1>1
<1>3. ASSUME NEW e \in ShownPlan
      PROVE  /\ [e EXCEPT !.limit = v] \in ShownPlan
             /\ [e EXCEPT !.limit = v].cents = e.cents /\ [e EXCEPT !.limit = v].limit = v
  BY DEF ShownPlan
<1>4. shown \in [S -> ShownPlan]
  BY <1>1, <1>2, <1>3
<1>5. \A t \in DOMAIN x.shown : /\ shown[t].cents = x.shown[t].cents
                                /\ shown[t].limit = IF t = s THEN v ELSE x.shown[t].limit
  BY <1>1, <1>2, <1>3
<1>6. y = [x EXCEPT !.shown = shown]
  OBVIOUS
<1> HIDE DEF shown, y
<1>7. y \in Listing /\ y.torn = x.torn /\ y.shown = shown
  BY <1>4, <1>6 DEF Listing
<1>8. DOMAIN y.shown = DOMAIN x.shown
  BY <1>1, <1>4, <1>7
<1> QED
  BY <1>5, <1>7, <1>8 DEF y

\* Writing tears the listings under way.
LEMMA TornListings ==
  ASSUME ListingInv, listing' = Torn
  PROVE  ListingInv'
<1>1. ASSUME NEW x \in Listing PROVE [x EXCEPT !.torn = TRUE] \in Listing /\ [x EXCEPT !.torn = TRUE].torn
  BY DEF Listing
<1>2. NoListing \in Listing /\ DOMAIN NoListing.shown = {}
  <2>1. <<>> \in [{} -> ShownPlan] /\ DOMAIN <<>> = {}
    OBVIOUS
  <2>2. <<>> \in UNION {[S -> ShownPlan] : S \in SUBSET Slug}
    BY <2>1
  <2> QED
    BY <2>1, <2>2 DEF NoListing, Listing
<1>3. \A r \in Reader : /\ listing'[r] \in Listing
                        /\ listing'[r].torn \/ DOMAIN listing'[r].shown = {}
  BY <1>1, <1>2 DEF ListingInv, Torn
<1>4. listing' \in [Reader -> Listing]
  BY <1>3 DEF Torn
<1> QED
  BY <1>3, <1>4 DEF ListingInv, Fresh

LEMMA ListingStep == PlanTypeOK /\ ListingInv /\ [PlanNext]_planVars => ListingInv'
<1> SUFFICES ASSUME PlanTypeOK, ListingInv, [PlanNext]_planVars PROVE ListingInv'
  OBVIOUS
<1>1. CASE UNCHANGED <<plans, limits, listing>>
  BY <1>1 DEF ListingInv, Fresh
<1>2. CASE listing' = Torn
  BY <1>2, TornListings
<1>3. ASSUME NEW r \in Reader, GetActivePlans(r) PROVE ListingInv'
  <2> DEFINE S == {s \in Slug : plans[s] # NoRow /\ plans[s].active}
             shown == [s \in S |-> [cents |-> plans[s].cents, limit |-> Unread]]
  <2>1. \A s \in S : [cents |-> plans[s].cents, limit |-> Unread] \in ShownPlan
    BY DEF PlanTypeOK, PlanRow, ShownPlan, Limits
  <2>2. shown \in [S -> ShownPlan] /\ S \in SUBSET Slug
    BY <2>1
  <2>3. \A s \in S : plans[s] # NoRow /\ shown[s].cents = plans[s].cents /\ shown[s].limit = Unread
    OBVIOUS
  <2>4. listing' = [listing EXCEPT ![r] = [shown |-> shown, torn |-> FALSE]]
    BY <1>3 DEF GetActivePlans
  <2>5. PICK T \in SUBSET Slug : T = S
    OBVIOUS
  <2>6. PICK g : g = shown
    OBVIOUS
  <2>7. g \in [T -> ShownPlan] /\ \A s \in T : plans[s] # NoRow /\ g[s].cents = plans[s].cents /\ g[s].limit = Unread
    BY <2>2, <2>3, <2>5, <2>6
  <2>8. listing' = [listing EXCEPT ![r] = [shown |-> g, torn |-> FALSE]]
    BY <2>4, <2>6
  <2> HIDE DEF S, shown
  <2>9. [shown |-> g, torn |-> FALSE] \in Listing
    BY <2>7 DEF Listing
  <2>10. listing' \in [Reader -> Listing]
    BY <2>8, <2>9 DEF ListingInv
  <2>11. ASSUME NEW q \in Reader, ~listing'[q].torn PROVE Fresh(q)'
    <3>1. UNCHANGED <<plans, limits>>
      BY <1>3 DEF GetActivePlans
    <3>2. CASE q = r
      BY <2>7, <2>8, <3>1, <3>2 DEF Fresh, ListingInv
    <3>3. CASE q # r
      <4>1. listing'[q] = listing[q]
        BY <2>8, <3>3 DEF ListingInv
      <4> QED
        BY <2>11, <3>1, <4>1 DEF Fresh, ListingInv
    <3> QED
      BY <3>2, <3>3
  <2> QED
    BY <2>10, <2>11 DEF ListingInv
<1>4. ASSUME NEW r \in Reader, Answer(r) PROVE ListingInv'
  <2>1. listing' = [listing EXCEPT ![r] = NoListing] /\ UNCHANGED <<plans, limits>>
    BY <1>4 DEF Answer
  <2>2. <<>> \in [{} -> ShownPlan] /\ DOMAIN <<>> = {}
    OBVIOUS
  <2>3. <<>> \in UNION {[S -> ShownPlan] : S \in SUBSET Slug}
    BY <2>2
  <2>4. NoListing \in Listing /\ DOMAIN NoListing.shown = {}
    BY <2>2, <2>3 DEF NoListing, Listing
  <2> QED
    BY <2>1, <2>4 DEF ListingInv, Fresh
<1>5. ASSUME NEW r \in Reader, NEW s \in Slug, GetLimitsForPlan(r, s) PROVE ListingInv'
  <2> DEFINE v == ReadLimit(limits[s])
             y == [listing[r] EXCEPT !.shown[s].limit = v]
  <2>1. s \in DOMAIN listing[r].shown /\ UNCHANGED <<plans, limits>>
    BY <1>5 DEF GetLimitsForPlan
  <2>2. v \in Limits
    BY DEF PlanTypeOK, Limits
  <2>3. listing[r] \in Listing
    BY DEF ListingInv
  <2>4. /\ y \in Listing /\ y.torn = listing[r].torn /\ DOMAIN y.shown = DOMAIN listing[r].shown
        /\ \A t \in DOMAIN listing[r].shown :
             /\ y.shown[t].cents = listing[r].shown[t].cents
             /\ y.shown[t].limit = IF t = s THEN v ELSE listing[r].shown[t].limit
    BY <2>1, <2>2, <2>3, OneLimitRead
  <2>5. listing' = [listing EXCEPT ![r] = y]
    BY <1>5 DEF GetLimitsForPlan, MaxCount
  <2>6. PICK z : z = y
    OBVIOUS
  <2>7. /\ z \in Listing /\ z.torn = listing[r].torn /\ DOMAIN z.shown = DOMAIN listing[r].shown
        /\ \A t \in DOMAIN listing[r].shown :
             /\ z.shown[t].cents = listing[r].shown[t].cents
             /\ z.shown[t].limit \in {ReadLimit(limits[t]), listing[r].shown[t].limit}
    BY <2>4, <2>6
  <2>8. listing' = [listing EXCEPT ![r] = z]
    BY <2>5, <2>6
  <2> HIDE DEF v, y
  <2>9. listing' \in [Reader -> Listing]
    BY <2>7, <2>8 DEF ListingInv
  <2>10. ASSUME NEW q \in Reader, ~listing'[q].torn PROVE Fresh(q)'
    <3>1. CASE q = r
      <4>1. listing'[q] = z
        BY <2>8, <3>1 DEF ListingInv
      <4>2. Fresh(r)
        BY <2>7, <2>10, <4>1 DEF ListingInv
      <4> QED
        BY <2>1, <2>7, <3>1, <4>1, <4>2 DEF Fresh
    <3>2. CASE q # r
      <4>1. listing'[q] = listing[q]
        BY <2>8, <3>2 DEF ListingInv
      <4> QED
        BY <2>1, <2>10, <4>1 DEF Fresh, ListingInv
    <3> QED
      BY <3>1, <3>2
  <2> QED
    BY <2>9, <2>10 DEF ListingInv
<1>6. UNCHANGED planVars => UNCHANGED <<plans, limits, listing>>
  BY DEF planVars
<1>7. \A c \in Script : UpsertBySlug(c) \/ UpsertForPlan(c) => listing' = Torn
  BY DEF UpsertBySlug, UpsertForPlan
<1>8. \A c \in Script : Die(c) => UNCHANGED <<plans, limits, listing>>
  BY DEF Die
<1>9. \A c \in Script, l \in List : StartSync(c, l) => UNCHANGED <<plans, limits, listing>>
  BY DEF StartSync
<1>10. \A s \in Slug : Retire(s) => listing' = Torn
  BY DEF Retire
<1> QED
  BY <1>1, <1>2, <1>3, <1>4, <1>5, <1>6, <1>7, <1>8, <1>9, <1>10, PlanSteps

---------------------------------------------------------------------------
(* Exactness. *)

RowExact(p) == plans[p.slug] # NoRow /\ plans[p.slug].price = p.price /\ plans[p.slug].cents = p.cents
EntryExact(p) == RowExact(p) /\ limits[p.slug] = p.limit

\* How far a script that is alone has got.
Progress(c) == /\ \A d \in Script : Running(d) => d = c
               /\ \A i \in DOMAIN script[c].list : i < script[c].at => EntryExact(script[c].list[i])
               /\ script[c].next = "limit" => RowExact(Entry(c))

AloneIsExact == \A c \in Script : Running(c) /\ script[c].alone => Progress(c)
SyncedIsExact == synced # NoRow => /\ \A d \in Script : ~Running(d)
                                   /\ \A i \in DOMAIN synced : EntryExact(synced[i])
ExactInv == PlanTypeOK /\ AloneIsExact /\ SyncedIsExact

\* A step that moves no script and leaves price, cents and limit of every row
\* keeps the invariant; so does the death of scripts.
LEMMA ExactKept ==
  ASSUME ExactInv, PlanTypeOK', limits' = limits, synced' = synced,
         \A s \in Slug : plans[s] # NoRow =>
           plans'[s] # NoRow /\ plans'[s].price = plans[s].price /\ plans'[s].cents = plans[s].cents,
         \A d \in Script : Running(d)' => script'[d] = script[d]
  PROVE  ExactInv'
<1>1. \A p \in Plan : /\ RowExact(p) => RowExact(p)'
                      /\ EntryExact(p) => EntryExact(p)'
  BY DEF Plan, RowExact, EntryExact
<1>2. ASSUME NEW c \in Script, Running(c)', script'[c].alone PROVE Progress(c)'
  <2>1. Running(c) /\ script'[c] = script[c]
    BY <1>2 DEF Running
  <2>2. Progress(c)
    BY <1>2, <2>1 DEF ExactInv, AloneIsExact
  <2>3. script[c].list \in List /\ Entry(c) \in Plan
    BY <2>1, RunningScripts DEF ExactInv
  <2>4. \A i \in DOMAIN script[c].list : script[c].list[i] \in Plan
    BY <2>3, EntriesArePlans
  <2>5. \A i \in DOMAIN script[c].list : i < script[c].at => EntryExact(script[c].list[i])'
    BY <1>1, <2>1, <2>2, <2>4 DEF Progress, EntryExact, RowExact
  <2>6. script[c].next = "limit" => RowExact(Entry(c))'
    BY <1>1, <2>1, <2>2, <2>3 DEF Progress, RowExact, Entry
  <2>7. \A d \in Script : Running(d)' => d = c
    BY <2>2 DEF Progress, Running
  <2> QED
    BY <2>1, <2>5, <2>6, <2>7 DEF Progress, EntryExact, RowExact, Entry
<1>3. SyncedIsExact'
  <2> SUFFICES ASSUME synced # NoRow
               PROVE  /\ \A d \in Script : ~Running(d)'
                      /\ \A i \in DOMAIN synced : EntryExact(synced[i])'
    BY DEF SyncedIsExact, EntryExact, RowExact
  <2>1. \A d \in Script : ~Running(d)'
    BY DEF ExactInv, SyncedIsExact, Running
  <2>2. synced \in List
    BY DEF ExactInv, PlanTypeOK
  <2>3. ASSUME NEW i \in DOMAIN synced PROVE EntryExact(synced[i])'
    <3>1. EntryExact(synced[i]) /\ synced[i] \in Plan
      BY <2>2, EntriesArePlans DEF ExactInv, SyncedIsExact
    <3> QED
      BY <1>1, <3>1 DEF EntryExact, RowExact
  <2> QED
    BY <2>1, <2>3
<1> QED
  BY <1>2, <1>3 DEF ExactInv, AloneIsExact

\* A step of a script that is alone: it is the only one, and nobody has synced.
LEMMA AloneSteps ==
  ASSUME ExactInv, NEW c \in Script, Running(c)
  PROVE  /\ synced = NoRow
         /\ \A d \in Script : Running(d) /\ script[d].alone => d = c
BY DEF ExactInv, SyncedIsExact, AloneIsExact, Progress

LEMMA ExactStep == ExactInv /\ [PlanNext]_planVars => ExactInv'
<1> SUFFICES ASSUME ExactInv, [PlanNext]_planVars PROVE ExactInv'
  OBVIOUS
<1>0. PlanTypeOK /\ PlanTypeOK'
  BY PlanTypeStep DEF ExactInv
<1>1. CASE UNCHANGED planVars
  BY <1>0, <1>1, ExactKept DEF planVars
<1>2. ASSUME NEW c \in Script, UpsertBySlug(c) PROVE ExactInv'
  <2>1. Running(c) /\ UNCHANGED <<limits, synced>>
    BY <1>2 DEF UpsertBySlug
  <2>2. PICK l \in List, k \in Nat : l = script[c].list /\ k = script[c].at
    BY <1>0, <2>1, RunningScripts
  <2>3. k \in DOMAIN l /\ l[k] = Entry(c) /\ l[k] \in Plan /\ l[k].slug \in Slug
    BY <1>0, <2>1, <2>2, RunningScripts, EntriesArePlans DEF Entry
  <2>4. script' = [script EXCEPT ![c].next = "limit"] /\ script[c] \in Working
    BY <1>0, <1>2, <2>1, RunningScripts DEF UpsertBySlug
  <2>5. /\ script'[c].list = l /\ script'[c].at = k /\ script'[c].alone = script[c].alone
        /\ \A d \in Script : Running(d)' <=> Running(d)
        /\ \A d \in Script \ {c} : script'[d] = script[d]
    BY <1>0, <2>2, <2>4 DEF PlanTypeOK, Working, Running
  <2>6. RowExact(l[k])'
    <3> DEFINE row == [price |-> l[k].price, cents |-> l[k].cents,
                       active |-> IF plans[l[k].slug] = NoRow THEN TRUE ELSE plans[l[k].slug].active]
    <3>1. plans' = [plans EXCEPT ![l[k].slug] = row]
      BY <1>2, <2>3 DEF UpsertBySlug
    <3>2. row \in PlanRow /\ row.price = l[k].price /\ row.cents = l[k].cents
      BY <1>0, <2>3 DEF PlanTypeOK, Plan, PlanRow
    <3> HIDE DEF row
    <3>3. row # NoRow
      BY <3>2, PlanCatalogAssumption
    <3>4. plans'[l[k].slug] = row
      BY <1>0, <2>3, <3>1 DEF PlanTypeOK
    <3> QED
      BY <3>2, <3>3, <3>4 DEF RowExact
  <2>7. \A s \in Slug : s # l[k].slug => plans'[s] = plans[s]
    BY <1>0, <1>2, <2>3 DEF UpsertBySlug, PlanTypeOK
  <2>8. synced' = NoRow
    BY <2>1, AloneSteps
  <2>9. ASSUME NEW d \in Script, Running(d)', script'[d].alone PROVE Progress(d)'
    <3>1. Running(d)
      BY <2>5, <2>9
    <3>2. d = c
      BY <2>1, <2>5, <2>9, <3>1, AloneSteps
    <3>3. Progress(c)
      BY <2>5, <2>9, <3>1, <3>2 DEF ExactInv, AloneIsExact
    <3>4. ASSUME NEW i \in DOMAIN l, i < k PROVE EntryExact(l[i])'
      <4>1. EntryExact(l[i]) /\ l[i].slug \in Slug
        BY <2>2, <3>3, <3>4, EntriesArePlans DEF Progress
      <4>2. l[i].slug # l[k].slug
        BY <2>2, <2>3, <3>4, SlugsDiffer
      <4> QED
        BY <2>1, <2>7, <4>1, <4>2 DEF EntryExact, RowExact
    <3>5. \A e \in Script : Running(e)' => e = c
      BY <2>5, <3>3 DEF Progress
    <3>6. Entry(c)' = l[k]
      BY <2>5 DEF Entry
    <3> QED
      BY <2>5, <2>6, <3>2, <3>4, <3>5, <3>6 DEF Progress, EntryExact, RowExact
  <2> QED
    BY <1>0, <2>8, <2>9 DEF ExactInv, AloneIsExact, SyncedIsExact
<1>3. ASSUME NEW c \in Script, UpsertForPlan(c) PROVE ExactInv'
  <2>1. Running(c) /\ UNCHANGED plans
    BY <1>3 DEF UpsertForPlan
  <2>2. PICK l \in List, k \in Nat : l = script[c].list /\ k = script[c].at
    BY <1>0, <2>1, RunningScripts
  <2>3. k \in DOMAIN l /\ l[k] = Entry(c) /\ l[k] \in Plan /\ l[k].slug \in Slug /\ Len(l) \in Nat
    BY <1>0, <2>1, <2>2, RunningScripts, EntriesArePlans DEF Entry
  <2>4. limits' = [limits EXCEPT ![l[k].slug] = l[k].limit]
    BY <1>3, <2>3 DEF UpsertForPlan
  <2>5. script[c].alone => \A i \in DOMAIN l : i < k + 1 => EntryExact(l[i])'
    <3> SUFFICES ASSUME script[c].alone, NEW i \in DOMAIN l, i < k + 1 PROVE EntryExact(l[i])'
      OBVIOUS
    <3>1. Progress(c) /\ script[c].next = "limit"
      BY <1>3, <2>1 DEF UpsertForPlan, ExactInv, AloneIsExact
    <3>2. l[i].slug \in Slug /\ i \in Nat
      BY EntriesArePlans
    <3>3. CASE i = k
      <4>1. RowExact(l[k])
        BY <2>3, <3>1 DEF Progress
      <4> QED
        BY <1>0, <2>1, <2>3, <2>4, <3>3, <4>1 DEF EntryExact, RowExact, PlanTypeOK
    <3>4. CASE i < k
      <4>1. EntryExact(l[i])
        BY <2>2, <3>1, <3>4 DEF Progress
      <4>2. l[i].slug # l[k].slug
        BY <2>2, <2>3, <3>4, SlugsDiffer
      <4> QED
        BY <1>0, <2>1, <2>4, <3>2, <4>1, <4>2 DEF EntryExact, RowExact, PlanTypeOK
    <3> QED
      BY <2>2, <3>2, <3>3, <3>4
  <2>6. synced = NoRow
    BY <2>1, AloneSteps
  <2>7. CASE k = Len(l)
    <3>1. /\ script' = [script EXCEPT ![c] = Idle]
          /\ synced' = IF script[c].alone THEN l ELSE NoRow
      BY <1>3, <2>2, <2>7 DEF UpsertForPlan
    <3>2. \A d \in Script : Running(d)' => Running(d) /\ d # c /\ script'[d] = script[d]
      BY <1>0, <3>1 DEF PlanTypeOK, Running, Idle
    <3>3. AloneIsExact'
      BY <2>1, <3>2, AloneSteps DEF AloneIsExact
    <3>4. SyncedIsExact'
      <4> SUFFICES ASSUME synced' # NoRow
                   PROVE  /\ \A d \in Script : ~Running(d)'
                          /\ \A i \in DOMAIN l : EntryExact(l[i])'
        BY <3>1 DEF SyncedIsExact, EntryExact, RowExact
      <4>1. script[c].alone
        BY <3>1
      <4>2. \A d \in Script : ~Running(d)'
        BY <2>1, <3>2, <4>1 DEF ExactInv, AloneIsExact, Progress
      <4>3. \A i \in DOMAIN l : i < k + 1
        BY <2>2, <2>7, EntriesArePlans
      <4> QED
        BY <2>5, <4>1, <4>2, <4>3
    <3> QED
      BY <1>0, <3>3, <3>4 DEF ExactInv
  <2>8. CASE k # Len(l)
    <3> DEFINE moved == [script[c] EXCEPT !.at = script[c].at + 1, !.next = "plan"]
    <3>1. script' = [script EXCEPT ![c] = moved] /\ synced' = synced
      BY <1>3, <2>2, <2>8 DEF UpsertForPlan
    <3>2. /\ moved.list = l /\ moved.at = k + 1 /\ moved.next = "plan" /\ moved.alone = script[c].alone
      BY <1>0, <2>1, <2>2, RunningScripts DEF Working
    <3> HIDE DEF moved
    <3>3. \A d \in Script : script'[d] = IF d = c THEN moved ELSE script[d]
      BY <1>0, <3>1 DEF PlanTypeOK
    <3>4. \A d \in Script : Running(d)' <=> Running(d)
      BY <2>2, <3>2, <3>3 DEF Running
    <3>5. ASSUME NEW d \in Script, Running(d)', script'[d].alone PROVE Progress(d)'
      <4>1. Running(d) /\ script[d].alone
        BY <3>2, <3>3, <3>4, <3>5
      <4>2. d = c
        BY <2>1, <4>1, AloneSteps
      <4>3. \A e \in Script : Running(e)' => e = c
        BY <2>1, <3>4, <4>1, <4>2 DEF ExactInv, AloneIsExact, Progress
      <4>4. script'[c].list = l /\ script'[c].at = k + 1 /\ script'[c].next = "plan"
        BY <3>2, <3>3
      <4>5. \A i \in DOMAIN l : i < k + 1 => EntryExact(l[i])'
        BY <2>5, <4>1, <4>2
      <4> QED
        BY <4>2, <4>3, <4>4, <4>5 DEF Progress, EntryExact, RowExact
    <3> QED
      BY <1>0, <2>6, <3>1, <3>5 DEF ExactInv, AloneIsExact, SyncedIsExact
  <2> QED
    BY <2>7, <2>8
<1>4. ASSUME NEW c \in Script, Die(c) PROVE ExactInv'
  <2>1. \A d \in Script : Running(d)' => script'[d] = script[d]
    BY <1>0, <1>4 DEF Die, Running, Idle, PlanTypeOK
  <2> QED
    BY <1>0, <1>4, <2>1, ExactKept DEF Die
<1>5. ASSUME NEW c \in Script, NEW l \in List, StartSync(c, l) PROVE ExactInv'
  <2>1. synced' = NoRow
    BY <1>5 DEF StartSync
  <2>2. ASSUME NEW d \in Script, Running(d)', script'[d].alone PROVE Progress(d)'
    <3>1. d = c
      BY <1>0, <1>5, <2>2, StartedScripts
    <3>2. script'[c].list = l /\ script'[c].at = 1 /\ script'[c].next = "plan"
          /\ \A e \in Script : ~Running(e)
      BY <1>0, <1>5, <2>2, <3>1, StartedScripts
    <3>3. \A e \in Script : Running(e)' => e = c
      BY <1>0, <1>5, <3>2, StartedScripts DEF Running
    <3>4. \A i \in DOMAIN l : ~(i < 1)
      BY EntriesArePlans
    <3> QED
      BY <3>1, <3>2, <3>3, <3>4 DEF Progress
  <2> QED
    BY <1>0, <2>1, <2>2 DEF ExactInv, AloneIsExact, SyncedIsExact
<1>6. ASSUME NEW s \in Slug, Retire(s) PROVE ExactInv'
  <2>1. ASSUME NEW t \in Slug, plans[t] # NoRow
        PROVE  plans'[t] # NoRow /\ plans'[t].price = plans[t].price /\ plans'[t].cents = plans[t].cents
    <3>1. plans[t] \in PlanRow /\ plans[s] \in PlanRow
      BY <1>0, <1>6, <2>1 DEF Retire, PlanTypeOK
    <3>2. plans'[t] = IF t = s THEN [plans[s] EXCEPT !.active = FALSE] ELSE plans[t]
      BY <1>0, <1>6 DEF Retire, PlanTypeOK
    <3>3. plans'[t] \in PlanRow /\ plans'[t].price = plans[t].price /\ plans'[t].cents = plans[t].cents
      BY <3>1, <3>2 DEF PlanRow
    <3> QED
      BY <3>3, PlanCatalogAssumption
  <2> QED
    BY <1>0, <1>6, <2>1, ExactKept DEF Retire
<1>7. ASSUME NEW r \in Reader, GetActivePlans(r) PROVE ExactInv'
  BY <1>0, <1>7, ExactKept DEF GetActivePlans
<1>8. ASSUME NEW r \in Reader, Answer(r) PROVE ExactInv'
  BY <1>0, <1>8, ExactKept DEF Answer
<1>9. ASSUME NEW r \in Reader, NEW s \in Slug, GetLimitsForPlan(r, s) PROVE ExactInv'
  BY <1>0, <1>9, ExactKept DEF GetLimitsForPlan
<1> QED
  BY <1>1, <1>2, <1>3, <1>4, <1>5, <1>6, <1>7, <1>8, <1>9, PlanSteps

\* A fresh and complete listing shows the exact rows.
LEMMA ExactIsShown == ExactInv /\ ListingInv => CompletedSyncIsExact
<1> SUFFICES ASSUME ExactInv, ListingInv, synced # NoRow, NEW i \in DOMAIN synced
             PROVE  /\ EntryExact(synced[i])
                    /\ \A r \in Reader :
                         Listed(r) /\ ~listing[r].torn /\ synced[i].slug \in DOMAIN listing[r].shown =>
                           listing[r].shown[synced[i].slug]
                             = [cents |-> synced[i].cents, limit |-> ReadLimit(synced[i].limit)]
  BY DEF CompletedSyncIsExact, EntryExact, RowExact
<1>1. EntryExact(synced[i])
  BY DEF ExactInv, SyncedIsExact
<1>2. ASSUME NEW r \in Reader, Listed(r), ~listing[r].torn, synced[i].slug \in DOMAIN listing[r].shown
      PROVE  listing[r].shown[synced[i].slug]
               = [cents |-> synced[i].cents, limit |-> ReadLimit(synced[i].limit)]
  <2>1. PICK e : e = listing[r].shown[synced[i].slug]
    OBVIOUS
  <2>2. e \in ShownPlan
    BY <1>2, <2>1 DEF ListingInv, Listing
  <2>3. e.cents = synced[i].cents /\ e.limit = ReadLimit(synced[i].limit)
    BY <1>1, <1>2, <2>1 DEF ListingInv, Fresh, Listed, EntryExact, RowExact
  <2> QED
    BY <2>1, <2>2, <2>3 DEF ShownPlan
<1> QED
  BY <1>1, <1>2

\* After a script that ran alone and to its end the plans of its list have its
\* prices and limits, and a listing that nothing was written under shows them
\* (sync-plans.ts:36-60, GetPlansService).
THEOREM CompletedSyncStaysExact == PlanSpec => []CompletedSyncIsExact
<1>1. PlanInit => ExactInv /\ ListingInv
  <2> SUFFICES ASSUME PlanInit PROVE ExactInv /\ ListingInv
    OBVIOUS
  <2>1. PlanTypeOK
    BY DEF PlanInit, PlanTypeOK, Running, Idle
  <2>2. ExactInv
    BY <2>1 DEF PlanInit, ExactInv, AloneIsExact, SyncedIsExact, Running, Idle
  <2>3. <<>> \in [{} -> ShownPlan] /\ DOMAIN <<>> = {}
    OBVIOUS
  <2>4. <<>> \in UNION {[S -> ShownPlan] : S \in SUBSET Slug}
    BY <2>3
  <2>5. NoListing \in Listing /\ DOMAIN NoListing.shown = {}
    BY <2>3, <2>4 DEF NoListing, Listing
  <2> QED
    BY <2>2, <2>5 DEF PlanInit, ListingInv, Fresh
<1>2. ExactInv /\ ListingInv /\ [PlanNext]_planVars => (ExactInv /\ ListingInv)'
  BY ExactStep, ListingStep DEF ExactInv
<1> QED
  BY <1>1, <1>2, ExactIsShown, PTL DEF PlanSpec

-----------------------------------------------------------------------------
(* The fingerprints: what is detected, from what was loaded. *)

\* A version for each file that is read, which has the file.
Files ==
  {contents \in [File -> Version \cup {None}] :
     \A f \in File : contents[f] # None => f \in DOMAIN Vendored[contents[f]]}

LEMMA VersionsHaveFiles ==
  ASSUME NEW v \in Version
  PROVE  DOMAIN Vendored[v] \subseteq File
BY DEF File

LEMMA RawTechs ==
  ASSUME NEW contents \in Files, NEW t \in Raw(contents)
  PROVE  \E f \in File : contents[f] \in Version /\ f \in DOMAIN Vendored[contents[f]] /\ t \in Vendored[contents[f]][f]
BY FingerprintsAssumption DEF Raw, Files

LEMMA OverridesKeepNames ==
  ASSUME NEW v \in Version, NEW f \in DOMAIN Vendored[v], NEW t \in Vendored[v][f]
  PROVE  Overridden(t).name = t.name /\ Overridden(t).cats = t.cats
<1>1. CASE t.name \notin DOMAIN Overrides
  BY <1>1 DEF Overridden
<1>2. CASE t.name \in DOMAIN Overrides
  <2>1. "name" \in DOMAIN t /\ "cats" \in DOMAIN t
    BY FingerprintsAssumption
  <2>2. "name" \notin DOMAIN Overrides[t.name] /\ "cats" \notin DOMAIN Overrides[t.name]
    BY <1>2, FingerprintsAssumption
  <2> QED
    BY <1>2, <2>1, <2>2 DEF Overridden
<1> QED
  BY <1>1, <1>2

\* The two halves of the property, of one result.
NoRevertedPattern(result, page) ==
  \A d \in result : d.name \in DOMAIN Overrides =>
    \E v \in Version, f \in File : f \in DOMAIN Vendored[v] /\ \E t \in Vendored[v][f] :
      t.name = d.name /\ IsMatch(Overridden(t), page)

Whole(result, page) ==
  \E v \in Version :
    /\ Reference(v, page) \subseteq result
    /\ \A d \in result \ Reference(v, page) :
         \A f \in DOMAIN Vendored[v] : \A t \in Vendored[v][f] : t.name # d.name

LEMMA DetectedFrom ==
  ASSUME NEW contents \in Files, NEW version \in Version, NEW page,
         NEW d \in Detected(ApplyPatternOverrides(Raw(contents)), version, page)
  PROVE  \E f \in File : \E t :
           /\ contents[f] \in Version /\ f \in DOMAIN Vendored[contents[f]] /\ t \in Vendored[contents[f]][f]
           /\ IsMatch(Overridden(t), page)
           /\ d = [name |-> t.name, category |-> CategoryOf(t, version)]
<1>1. PICK u \in ApplyPatternOverrides(Raw(contents)) :
        IsMatch(u, page) /\ d = [name |-> u.name, category |-> CategoryOf(u, version)]
  BY DEF Detected
<1>2. PICK t \in Raw(contents) : u = Overridden(t)
  BY DEF ApplyPatternOverrides
<1>3. PICK f \in File : contents[f] \in Version /\ f \in DOMAIN Vendored[contents[f]] /\ t \in Vendored[contents[f]][f]
  BY RawTechs
<1>4. u.name = t.name /\ u.cats = t.cats
  BY <1>2, <1>3, OverridesKeepNames
<1>5. CategoryOf(u, version) = CategoryOf(t, version)
  BY <1>4 DEF CategoryOf
<1> QED
  BY <1>1, <1>2, <1>3, <1>4, <1>5

LEMMA DetectedUsesOverrides ==
  ASSUME NEW contents \in Files, NEW version \in Version, NEW page
  PROVE  NoRevertedPattern(Detected(ApplyPatternOverrides(Raw(contents)), version, page), page)
<1> SUFFICES ASSUME NEW d \in Detected(ApplyPatternOverrides(Raw(contents)), version, page)
             PROVE  \E v \in Version, f \in File : f \in DOMAIN Vendored[v] /\ \E t \in Vendored[v][f] :
                      t.name = d.name /\ IsMatch(Overridden(t), page)
  BY DEF NoRevertedPattern
<1>1. PICK f \in File : \E t :
        /\ contents[f] \in Version /\ f \in DOMAIN Vendored[contents[f]] /\ t \in Vendored[contents[f]][f]
        /\ IsMatch(Overridden(t), page)
        /\ d = [name |-> t.name, category |-> CategoryOf(t, version)]
  BY DetectedFrom
<1>2. PICK t :
        /\ contents[f] \in Version /\ f \in DOMAIN Vendored[contents[f]] /\ t \in Vendored[contents[f]][f]
        /\ IsMatch(Overridden(t), page)
        /\ d = [name |-> t.name, category |-> CategoryOf(t, version)]
  BY <1>1
<1>3. d.name = t.name
  BY <1>2
<1> QED
  BY <1>2, <1>3

LEMMA DetectedIsWhole ==
  ASSUME files \in Files, categoriesFile \in Version, DiskIsWhole, NEW page
  PROVE  Whole(Detected(ApplyPatternOverrides(Raw(files)), categoriesFile, page), page)
<1> DEFINE v == categoriesFile
           result == Detected(ApplyPatternOverrides(Raw(files)), v, page)
<1>1. ASSUME NEW f \in DOMAIN Vendored[v], NEW t \in Vendored[v][f], IsMatch(Overridden(t), page)
      PROVE  [name |-> t.name, category |-> CategoryOf(t, v)] \in result
  <2>1. f \in File /\ files[f] = v /\ v # None
    BY VersionsHaveFiles, FingerprintsAssumption DEF DiskIsWhole
  <2>2. t \in Raw(files)
    BY <2>1 DEF Raw
  <2>3. Overridden(t) \in ApplyPatternOverrides(Raw(files))
    BY <2>2 DEF ApplyPatternOverrides
  <2>4. Overridden(t).name = t.name /\ Overridden(t).cats = t.cats
    BY OverridesKeepNames
  <2>5. CategoryOf(Overridden(t), v) = CategoryOf(t, v)
    BY <2>4 DEF CategoryOf
  <2> QED
    BY <1>1, <2>3, <2>4, <2>5 DEF Detected
<1>2. Reference(v, page) \subseteq result
  <2> SUFFICES ASSUME NEW d \in Reference(v, page) PROVE d \in result
    OBVIOUS
  <2>1. PICK t \in UNION {Vendored[v][f] : f \in DOMAIN Vendored[v]} :
          IsMatch(Overridden(t), page) /\ d = [name |-> t.name, category |-> CategoryOf(t, v)]
    BY DEF Reference
  <2> HIDE DEF result
  <2> QED
    BY <1>1, <2>1
<1>3. ASSUME NEW d \in result \ Reference(v, page),
             NEW g \in DOMAIN Vendored[v], NEW u \in Vendored[v][g]
      PROVE  u.name # d.name
  <2>1. PICK f \in File : \E t :
          /\ files[f] \in Version /\ f \in DOMAIN Vendored[files[f]] /\ t \in Vendored[files[f]][f]
          /\ IsMatch(Overridden(t), page)
          /\ d = [name |-> t.name, category |-> CategoryOf(t, v)]
    BY DetectedFrom
  <2>2. PICK t :
          /\ files[f] \in Version /\ f \in DOMAIN Vendored[files[f]] /\ t \in Vendored[files[f]][f]
          /\ IsMatch(Overridden(t), page)
          /\ d = [name |-> t.name, category |-> CategoryOf(t, v)]
    BY <2>1
  <2>3. files[f] # v
    <3> SUFFICES ASSUME files[f] = v PROVE FALSE
      OBVIOUS
    <3>1. t \in UNION {Vendored[v][h] : h \in DOMAIN Vendored[v]}
      BY <2>2
    <3>2. d \in Reference(v, page)
      BY <2>2, <3>1 DEF Reference
    <3> QED
      BY <1>3, <3>2
  <2>4. f # g
    BY <2>3 DEF DiskIsWhole
  <2>5. t.name = u.name => f = g
    BY <2>2, FingerprintsAssumption
  <2>6. d.name = t.name
    BY <2>2
  <2> QED
    BY <2>4, <2>5, <2>6
<1>4. Whole(result, page)
  <2> v \in Version
    OBVIOUS
  <2> HIDE DEF result, v
  <2> SUFFICES /\ Reference(v, page) \subseteq result
               /\ \A d \in result \ Reference(v, page) :
                    \A f \in DOMAIN Vendored[v] : \A t \in Vendored[v][f] : t.name # d.name
    BY DEF Whole
  <2> QED
    BY <1>2, <1>3
<1> QED
  BY <1>4


-----------------------------------------------------------------------------
(* The fingerprints: what is read and cached. *)

FingerprintTypeOK ==
  /\ categoriesFile \in Version
  /\ files \in Files
  /\ download \in [version : Version \cup {None}, todo : SUBSET File]
  /\ \A f \in download.todo : download.version \in Version /\ f \in DOMAIN Vendored[download.version]
  /\ categories \in [Process -> Version \cup {None}]
  /\ DOMAIN technologies = Process /\ DOMAIN task = Task
  /\ calm \in [Process -> BOOLEAN]

\* Nobody has touched the disk since a calm process started, and it is whole.
CalmDisks == \A p \in Process : calm[p] => download = NoDownload /\ DiskIsWhole

\* The cache of a process is of some files, and of those on an untouched disk.
CacheIsOf(p) ==
  /\ categories[p] \in Version /\ (calm[p] => categories[p] = categoriesFile)
  /\ \E contents \in Files : technologies[p] = ApplyPatternOverrides(Raw(contents)) /\ (calm[p] => contents = files)

CachesAreLoaded == \A p \in Process : technologies[p] # None => CacheIsOf(p)

\* What a task has read: the categories first, then file after file.
HasRead(x, p) ==
  /\ x.at \in {"listing", "reading"} =>
       categories[p] \in Version /\ (calm[p] => categories[p] = categoriesFile)
  /\ x.at = "reading" =>
       /\ x.read \in Files /\ x.todo \subseteq File
       /\ calm[p] => \A f \in File \ x.todo : x.read[f] = files[f]
  /\ x.result # None =>
       /\ x.at = "done"
       /\ NoRevertedPattern(x.result, x.page) /\ (calm[p] => Whole(x.result, x.page))

TasksHaveRead == \A k \in Task : HasRead(task[k], ProcessOf[k])

FingerprintInv == FingerprintTypeOK /\ CalmDisks /\ CachesAreLoaded /\ TasksHaveRead

\* A task changes some of its fields.
LEMMA Going ==
  ASSUME FingerprintTypeOK, NEW k \in Task, NEW changes, Goes(k, changes)
  PROVE  /\ DOMAIN task' = Task
         /\ \A j \in Task \ {k} : task'[j] = task[j]
         /\ task'[k].at = IF "at" \in DOMAIN changes THEN changes.at ELSE task[k].at
         /\ task'[k].read = IF "read" \in DOMAIN changes THEN changes.read ELSE task[k].read
         /\ task'[k].todo = IF "todo" \in DOMAIN changes THEN changes.todo ELSE task[k].todo
         /\ task'[k].result = IF "result" \in DOMAIN changes THEN changes.result ELSE task[k].result
         /\ task'[k].page = IF "page" \in DOMAIN changes THEN changes.page ELSE task[k].page
<1> DEFINE new == [f \in DOMAIN Waiting |-> IF f \in DOMAIN changes THEN changes[f] ELSE task[k][f]]
<1>1. task' = [task EXCEPT ![k] = new]
  BY DEF Goes
<1>2. DOMAIN Waiting = {"at", "read", "todo", "result", "page"}
  BY DEF Waiting
<1>3. /\ new.at = IF "at" \in DOMAIN changes THEN changes.at ELSE task[k].at
      /\ new.read = IF "read" \in DOMAIN changes THEN changes.read ELSE task[k].read
      /\ new.todo = IF "todo" \in DOMAIN changes THEN changes.todo ELSE task[k].todo
      /\ new.result = IF "result" \in DOMAIN changes THEN changes.result ELSE task[k].result
      /\ new.page = IF "page" \in DOMAIN changes THEN changes.page ELSE task[k].page
  BY <1>2
<1> HIDE DEF new
<1>4. DOMAIN task' = Task /\ task'[k] = new /\ \A j \in Task \ {k} : task'[j] = task[j]
  BY <1>1 DEF FingerprintTypeOK
<1> QED
  BY <1>3, <1>4

\* The state outside one task stays, and the task has read what it should.
LEMMA TaskFrame ==
  ASSUME FingerprintInv, NEW k \in Task, DOMAIN task' = Task,
         \A j \in Task \ {k} : task'[j] = task[j],
         UNCHANGED <<categoriesFile, files, download, categories, technologies, calm>>,
         HasRead(task'[k], ProcessOf[k])
  PROVE  FingerprintInv'
<1>1. FingerprintTypeOK'
  BY DEF FingerprintInv, FingerprintTypeOK
<1>2. CalmDisks'
  BY DEF FingerprintInv, CalmDisks, DiskIsWhole
<1>3. CachesAreLoaded'
  BY DEF FingerprintInv, CachesAreLoaded, CacheIsOf
<1>4. \A j \in Task : HasRead(task'[j], ProcessOf[j])
  BY DEF FingerprintInv, TasksHaveRead
<1>5. TasksHaveRead'
  BY <1>4 DEF TasksHaveRead, HasRead
<1> QED
  BY <1>1, <1>2, <1>3, <1>5 DEF FingerprintInv

\* A match with what its process has cached keeps both promises.
LEMMA Finishing ==
  ASSUME FingerprintInv, NEW k \in Task, NEW page, NEW contents \in Files,
         categories[ProcessOf[k]] \in Version,
         calm[ProcessOf[k]] => categories[ProcessOf[k]] = categoriesFile /\ contents = files,
         Finish(k, ApplyPatternOverrides(Raw(contents)), page)
  PROVE  /\ DOMAIN task' = Task /\ \A j \in Task \ {k} : task'[j] = task[j]
         /\ HasRead(task'[k], ProcessOf[k])
<1> DEFINE techs == ApplyPatternOverrides(Raw(contents))
           p == ProcessOf[k]
           result == Detected(techs, categories[p], page)
<1>1. FingerprintTypeOK
  BY DEF FingerprintInv
<1>2. CASE p \in CatalogScript
  <2>1. Goes(k, [at |-> "done"])
    BY <1>2 DEF Finish
  <2>2. /\ DOMAIN task' = Task /\ \A j \in Task \ {k} : task'[j] = task[j]
        /\ task'[k].at = "done" /\ task'[k].result = task[k].result /\ task'[k].page = task[k].page
    BY <1>1, <2>1, Going
  <2>3. HasRead(task'[k], p)
    BY <2>2 DEF FingerprintInv, TasksHaveRead, HasRead
  <2> QED
    BY <2>2, <2>3
<1>3. CASE p \notin CatalogScript
  <2>1. Goes(k, [at |-> "done", page |-> page, result |-> result])
    BY <1>3 DEF Finish
  <2>2. NoRevertedPattern(result, page)
    BY DetectedUsesOverrides
  <2>3. calm[p] => Whole(result, page)
    <3> SUFFICES ASSUME calm[p] PROVE Whole(result, page)
      OBVIOUS
    <3>1. p \in Process
      BY FingerprintsAssumption
    <3>2. DiskIsWhole
      BY <3>1 DEF FingerprintInv, CalmDisks
    <3>3. result = Detected(ApplyPatternOverrides(Raw(files)), categoriesFile, page)
      OBVIOUS
    <3> QED
      BY <3>2, <3>3, DetectedIsWhole DEF FingerprintInv, FingerprintTypeOK
  <2> HIDE DEF result
  <2>4. /\ DOMAIN task' = Task /\ \A j \in Task \ {k} : task'[j] = task[j]
        /\ task'[k].at = "done" /\ task'[k].result = result /\ task'[k].page = page
    BY <1>1, <2>1, Going
  <2>5. HasRead(task'[k], p)
    BY <2>2, <2>3, <2>4 DEF HasRead
  <2> QED
    BY <2>4, <2>5
<1> QED
  BY <1>2, <1>3

LEMMA GetTechnologiesStep ==
  ASSUME FingerprintInv, NEW k \in Task, NEW page, GetTechnologies(k, page)
  PROVE  FingerprintInv'
<1> DEFINE p == ProcessOf[k]
<1>1. UNCHANGED <<categoriesFile, files, download, categories, technologies, calm>>
  BY DEF GetTechnologies
<1>2. p \in Process
  BY FingerprintsAssumption
<1>3. CASE technologies[p] # None
  <2>1. CacheIsOf(p)
    BY <1>2, <1>3 DEF FingerprintInv, CachesAreLoaded
  <2>2. PICK contents \in Files : technologies[p] = ApplyPatternOverrides(Raw(contents)) /\ (calm[p] => contents = files)
    BY <2>1 DEF CacheIsOf
  <2>3. categories[p] \in Version /\ (calm[p] => categories[p] = categoriesFile)
    BY <2>1 DEF CacheIsOf
  <2>4. Finish(k, ApplyPatternOverrides(Raw(contents)), page)
    BY <1>3, <2>2 DEF GetTechnologies
  <2>5. /\ DOMAIN task' = Task /\ \A j \in Task \ {k} : task'[j] = task[j]
        /\ HasRead(task'[k], ProcessOf[k])
    BY <2>2, <2>3, <2>4, Finishing
  <2> QED
    BY <1>1, <2>5, TaskFrame
<1>4. CASE technologies[p] = None
  <2>1. Goes(k, [at |-> "loading", page |-> page]) /\ task[k].at = "start"
    BY <1>4 DEF GetTechnologies
  <2>2. /\ DOMAIN task' = Task /\ \A j \in Task \ {k} : task'[j] = task[j]
        /\ task'[k].at = "loading" /\ task'[k].result = task[k].result
    BY <2>1, Going DEF FingerprintInv
  <2>3. task[k].result = None
    BY <2>1 DEF FingerprintInv, TasksHaveRead, HasRead
  <2>4. HasRead(task'[k], p)
    BY <2>2, <2>3 DEF HasRead
  <2> QED
    BY <1>1, <2>2, <2>4, TaskFrame
<1> QED
  BY <1>3, <1>4

\* Every load sets the categories of its process, to the same ones while the
\* disk is untouched.
LEMMA ReadCategoriesStep ==
  ASSUME FingerprintInv, NEW k \in Task, ReadCategories(k)
  PROVE  FingerprintInv'
<1> DEFINE p == ProcessOf[k]
<1>1. /\ UNCHANGED <<categoriesFile, files, download, technologies, calm>>
      /\ categories' = [categories EXCEPT ![p] = categoriesFile]
      /\ Goes(k, [at |-> "listing"]) /\ task[k].at = "loading"
  BY DEF ReadCategories
<1>2. /\ DOMAIN task' = Task /\ \A j \in Task \ {k} : task'[j] = task[j]
      /\ task'[k].at = "listing" /\ task'[k].result = task[k].result
  BY <1>1, Going DEF FingerprintInv
<1>3. /\ p \in Process /\ categories' \in [Process -> Version \cup {None}]
      /\ categories'[p] = categoriesFile /\ categoriesFile \in Version
      /\ \A q \in Process \ {p} : categories'[q] = categories[q]
  BY <1>1, FingerprintsAssumption DEF FingerprintInv, FingerprintTypeOK
<1>4. FingerprintTypeOK'
  BY <1>1, <1>2, <1>3 DEF FingerprintInv, FingerprintTypeOK
<1>5. CalmDisks'
  BY <1>1 DEF FingerprintInv, CalmDisks, DiskIsWhole
<1>6. CachesAreLoaded'
  <2> SUFFICES ASSUME NEW q \in Process, technologies[q] # None PROVE CacheIsOf(q)'
    BY <1>1 DEF CachesAreLoaded
  <2>1. CacheIsOf(q)
    BY DEF FingerprintInv, CachesAreLoaded
  <2> QED
    BY <1>1, <1>3, <2>1 DEF CacheIsOf
<1>7. ASSUME NEW j \in Task PROVE HasRead(task[j], ProcessOf[j])'
  <2>1. HasRead(task[j], ProcessOf[j]) /\ ProcessOf[j] \in Process
    BY FingerprintsAssumption DEF FingerprintInv, TasksHaveRead
  <2>2. CASE j = k
    <3>1. task[k].result = None
      BY <1>1, <2>1, <2>2 DEF HasRead
    <3> QED
      BY <1>1, <1>2, <1>3, <2>2, <3>1 DEF HasRead
  <2>3. CASE j # k
    <3>1. task'[j] = task[j]
      BY <1>2, <2>3
    <3> QED
      BY <1>1, <1>3, <2>1, <3>1 DEF HasRead
  <2> QED
    BY <2>2, <2>3
<1>8. TasksHaveRead'
  BY <1>7 DEF TasksHaveRead
<1> QED
  BY <1>4, <1>5, <1>6, <1>8 DEF FingerprintInv

LEMMA ReadDirectoryStep ==
  ASSUME FingerprintInv, NEW k \in Task, ReadDirectory(k)
  PROVE  FingerprintInv'
<1> DEFINE none == [f \in File |-> None]
           there == {f \in File : files[f] # None}
<1>1. /\ UNCHANGED <<categoriesFile, files, download, categories, technologies, calm>>
      /\ Goes(k, [at |-> "reading", read |-> none, todo |-> there]) /\ task[k].at = "listing"
  BY DEF ReadDirectory
<1>2. none \in Files /\ there \subseteq File /\ \A f \in File \ there : none[f] = files[f]
  BY DEF Files
<1> HIDE DEF none, there
<1>3. /\ DOMAIN task' = Task /\ \A j \in Task \ {k} : task'[j] = task[j]
      /\ task'[k].at = "reading" /\ task'[k].read = none /\ task'[k].todo = there
      /\ task'[k].result = task[k].result
  BY <1>1, Going DEF FingerprintInv
<1>4. HasRead(task[k], ProcessOf[k])
  BY DEF FingerprintInv, TasksHaveRead
<1>5. HasRead(task'[k], ProcessOf[k])
  BY <1>1, <1>2, <1>3, <1>4 DEF HasRead
<1> QED
  BY <1>1, <1>3, <1>5, TaskFrame

LEMMA ReadFileStep ==
  ASSUME FingerprintInv, NEW k \in Task, NEW f \in File, ReadFile(k, f)
  PROVE  FingerprintInv'
<1> DEFINE contents == [task[k].read EXCEPT ![f] = files[f]]
           rest == task[k].todo \ {f}
<1>1. /\ UNCHANGED <<categoriesFile, files, download, categories, technologies, calm>>
      /\ Goes(k, [read |-> contents, todo |-> rest]) /\ task[k].at = "reading"
  BY DEF ReadFile
<1>2. HasRead(task[k], ProcessOf[k]) /\ files \in Files
  BY DEF FingerprintInv, TasksHaveRead, FingerprintTypeOK
<1>3. task[k].read \in Files /\ task[k].todo \subseteq File
  BY <1>1, <1>2 DEF HasRead
<1>4. /\ rest \subseteq File
      /\ contents[f] = files[f] /\ \A g \in File \ {f} : contents[g] = task[k].read[g]
  BY <1>3 DEF Files
<1>5. contents \in Files
  BY <1>2, <1>3 DEF Files
<1>6. \A g \in File \ rest : g = f \/ g \in File \ task[k].todo
  OBVIOUS
<1> HIDE DEF contents, rest
<1>7. /\ DOMAIN task' = Task /\ \A j \in Task \ {k} : task'[j] = task[j]
      /\ task'[k].at = "reading" /\ task'[k].read = contents /\ task'[k].todo = rest
      /\ task'[k].result = task[k].result
  BY <1>1, Going DEF FingerprintInv
<1>8. HasRead(task'[k], ProcessOf[k])
  BY <1>1, <1>2, <1>4, <1>5, <1>6, <1>7 DEF HasRead
<1> QED
  BY <1>1, <1>7, <1>8, TaskFrame

\* The cache is set to what was read, and the page matched with it.
LEMMA EndLoadStep ==
  ASSUME FingerprintInv, NEW k \in Task, EndLoad(k)
  PROVE  FingerprintInv'
<1> DEFINE p == ProcessOf[k]
           contents == task[k].read
<1>1. /\ UNCHANGED <<categoriesFile, files, download, categories, calm>>
      /\ task[k].at = "reading" /\ task[k].todo = {}
  BY DEF EndLoad
<1>2. HasRead(task[k], p) /\ files \in Files /\ p \in Process
  BY FingerprintsAssumption DEF FingerprintInv, TasksHaveRead, FingerprintTypeOK
<1>3. /\ contents \in Files /\ categories[p] \in Version
      /\ calm[p] => categories[p] = categoriesFile /\ contents = files
  <2>1. contents \in Files /\ categories[p] \in Version
        /\ (calm[p] => categories[p] = categoriesFile /\ \A f \in File : contents[f] = files[f])
    BY <1>1, <1>2 DEF HasRead
  <2> HIDE DEF contents
  <2>2. (\A f \in File : contents[f] = files[f]) => contents = files
    BY <1>2, <2>1 DEF Files
  <2> QED
    BY <2>1, <2>2
<1> HIDE DEF contents
<1>4. CASE Overridable(Raw(contents))
  <2> DEFINE loaded == ApplyPatternOverrides(Raw(contents))
  <2>1. technologies' = [technologies EXCEPT ![p] = loaded] /\ Finish(k, loaded, task[k].page)
    BY <1>4 DEF EndLoad, contents
  <2>2. /\ DOMAIN task' = Task /\ \A j \in Task \ {k} : task'[j] = task[j]
        /\ HasRead(task'[k], p)
    BY <1>3, <2>1, Finishing
  <2> HIDE DEF loaded
  <2>3. /\ DOMAIN technologies' = Process /\ technologies'[p] = loaded
        /\ \A q \in Process \ {p} : technologies'[q] = technologies[q]
    BY <1>2, <2>1 DEF FingerprintInv, FingerprintTypeOK
  <2>4. FingerprintTypeOK'
    BY <1>1, <2>2, <2>3 DEF FingerprintInv, FingerprintTypeOK
  <2>5. CalmDisks'
    BY <1>1 DEF FingerprintInv, CalmDisks, DiskIsWhole
  <2>6. CachesAreLoaded'
    <3> SUFFICES ASSUME NEW q \in Process, technologies'[q] # None PROVE CacheIsOf(q)'
      BY DEF CachesAreLoaded
    <3>1. CASE q = p
      BY <1>1, <1>3, <2>3, <3>1 DEF CacheIsOf, loaded
    <3>2. CASE q # p
      <4>1. technologies'[q] = technologies[q]
        BY <2>3, <3>2
      <4>2. CacheIsOf(q)
        BY <4>1 DEF FingerprintInv, CachesAreLoaded
      <4> QED
        BY <1>1, <4>1, <4>2 DEF CacheIsOf
    <3> QED
      BY <3>1, <3>2
  <2>7. \A j \in Task : HasRead(task'[j], ProcessOf[j])
    BY <2>2 DEF FingerprintInv, TasksHaveRead
  <2>8. TasksHaveRead'
    BY <1>1, <2>7 DEF TasksHaveRead, HasRead
  <2> QED
    BY <2>4, <2>5, <2>6, <2>8 DEF FingerprintInv
<1>5. CASE ~Overridable(Raw(contents))
  <2>1. task' = [task EXCEPT ![k] = Waiting] /\ UNCHANGED technologies
    BY <1>5 DEF EndLoad, contents
  <2>2. /\ DOMAIN task' = Task /\ \A j \in Task \ {k} : task'[j] = task[j]
        /\ task'[k].at = "start" /\ task'[k].result = None
    BY <2>1 DEF FingerprintInv, FingerprintTypeOK, Waiting
  <2>3. HasRead(task'[k], p)
    BY <2>2 DEF HasRead
  <2> QED
    BY <1>1, <2>1, <2>2, <2>3, TaskFrame
<1> QED
  BY <1>4, <1>5

LEMMA LoadFailsStep ==
  ASSUME FingerprintInv, NEW k \in Task, LoadFails(k)
  PROVE  FingerprintInv'
<1>1. /\ UNCHANGED <<categoriesFile, files, download, categories, technologies, calm>>
      /\ task' = [task EXCEPT ![k] = Waiting]
  BY DEF LoadFails
<1>2. /\ DOMAIN task' = Task /\ \A j \in Task \ {k} : task'[j] = task[j]
      /\ task'[k].at = "start" /\ task'[k].result = None
  BY <1>1 DEF FingerprintInv, FingerprintTypeOK, Waiting
<1> QED
  BY <1>1, <1>2, TaskFrame DEF HasRead

\* The disk changes, and with it nobody is calm.
LEMMA DownloadSteps ==
  ASSUME FingerprintInv,
         \/ \E v \in Version : StartDownload(v)
         \/ \E f \in File : FetchFile(f)
         \/ AbortDownload
  PROVE  FingerprintInv'
<1>1. UNCHANGED <<categories, technologies, task>>
  BY DEF StartDownload, FetchFile, AbortDownload
<1>2. FingerprintTypeOK /\ CalmDisks /\ CachesAreLoaded /\ TasksHaveRead
  BY DEF FingerprintInv
<1>3. calm' \in [Process -> BOOLEAN] /\ \A p \in Process : ~calm'[p]
  <2>1. ASSUME NEW v \in Version, StartDownload(v) PROVE calm' \in [Process -> BOOLEAN] /\ \A p \in Process : ~calm'[p]
    BY <2>1 DEF StartDownload
  <2>2. ASSUME NEW f \in File, FetchFile(f) PROVE calm' = calm /\ download # NoDownload
    BY <2>2 DEF FetchFile, NoDownload
  <2>3. CASE AbortDownload
    BY <1>2, <2>3 DEF AbortDownload, CalmDisks, FingerprintTypeOK
  <2> QED
    BY <1>2, <2>1, <2>2, <2>3 DEF CalmDisks, FingerprintTypeOK
<1>4. /\ categoriesFile' \in Version /\ files' \in Files
      /\ download' \in [version : Version \cup {None}, todo : SUBSET File]
      /\ \A f \in download'.todo : download'.version \in Version /\ f \in DOMAIN Vendored[download'.version]
  <2>1. ASSUME NEW v \in Version, StartDownload(v) PROVE <1>4!:
    BY <1>2, <2>1, VersionsHaveFiles DEF StartDownload, FingerprintTypeOK
  <2>2. ASSUME NEW f \in File, FetchFile(f) PROVE <1>4!:
    <3>1. f \in download.todo /\ download.version \in Version /\ f \in DOMAIN Vendored[download.version]
      BY <1>2, <2>2 DEF FetchFile, FingerprintTypeOK
    <3>2. files' = [files EXCEPT ![f] = download.version] /\ UNCHANGED categoriesFile
      BY <2>2 DEF FetchFile
    <3>3. files' \in Files
      BY <1>2, <3>1, <3>2 DEF Files, FingerprintTypeOK
    <3>4. CASE download' = NoDownload
      BY <1>2, <3>2, <3>3, <3>4 DEF NoDownload, FingerprintTypeOK
    <3>5. CASE download' = [download EXCEPT !.todo = @ \ {f}]
      BY <1>2, <3>2, <3>3, <3>5 DEF FingerprintTypeOK
    <3> QED
      BY <2>2, <3>4, <3>5 DEF FetchFile
  <2>3. CASE AbortDownload
    BY <1>2, <2>3 DEF AbortDownload, NoDownload, FingerprintTypeOK
  <2> QED
    BY <2>1, <2>2, <2>3
<1>5. FingerprintTypeOK'
  BY <1>1, <1>2, <1>3, <1>4 DEF FingerprintTypeOK
<1>6. CalmDisks'
  BY <1>3 DEF CalmDisks
<1>7. CachesAreLoaded'
  BY <1>1, <1>2, <1>3 DEF CachesAreLoaded, CacheIsOf
<1>8. TasksHaveRead'
  <2>1. \A k \in Task : ProcessOf[k] \in Process
    BY FingerprintsAssumption
  <2> QED
    BY <1>1, <1>2, <1>3, <2>1 DEF TasksHaveRead, HasRead
<1> QED
  BY <1>5, <1>6, <1>7, <1>8 DEF FingerprintInv

LEMMA RestartStep ==
  ASSUME FingerprintInv, NEW p \in Process, Restart(p)
  PROVE  FingerprintInv'
<1>1. /\ categories' = [categories EXCEPT ![p] = None]
      /\ technologies' = [technologies EXCEPT ![p] = None]
      /\ task' = [k \in Task |-> IF ProcessOf[k] = p THEN Waiting ELSE task[k]]
      /\ UNCHANGED <<categoriesFile, files, download>>
  BY DEF Restart
<1>2. /\ calm' \in [Process -> BOOLEAN] /\ \A q \in Process \ {p} : calm'[q] = calm[q]
      /\ calm'[p] => download = NoDownload /\ DiskIsWhole
  <2>1. PICK b \in BOOLEAN : b = (download = NoDownload /\ DiskIsWhole)
    <3>1. (download = NoDownload /\ DiskIsWhole) \in BOOLEAN
      BY DEF DiskIsWhole
    <3> QED
      BY <3>1, Zenon
  <2>2. calm' = [calm EXCEPT ![p] = b]
    BY <2>1 DEF Restart
  <2> QED
    BY <2>1, <2>2 DEF FingerprintInv, FingerprintTypeOK
<1>3. /\ categories' \in [Process -> Version \cup {None}] /\ DOMAIN technologies' = Process
      /\ technologies'[p] = None
      /\ \A q \in Process \ {p} : categories'[q] = categories[q] /\ technologies'[q] = technologies[q]
  BY <1>1 DEF FingerprintInv, FingerprintTypeOK
<1>4. FingerprintTypeOK'
  BY <1>1, <1>2, <1>3 DEF FingerprintInv, FingerprintTypeOK
<1>5. CalmDisks'
  BY <1>1, <1>2 DEF FingerprintInv, CalmDisks, DiskIsWhole
<1>6. CachesAreLoaded'
  BY <1>1, <1>2, <1>3 DEF FingerprintInv, CachesAreLoaded, CacheIsOf
<1>7. ASSUME NEW k \in Task PROVE HasRead(task[k], ProcessOf[k])'
  <2>1. ProcessOf[k] \in Process
    BY FingerprintsAssumption
  <2>2. CASE ProcessOf[k] = p
    <3>1. task'[k].at = "start" /\ task'[k].result = None
      BY <1>1, <2>2 DEF Waiting
    <3> QED
      BY <3>1 DEF HasRead
  <2>3. CASE ProcessOf[k] # p
    <3>1. task'[k] = task[k] /\ HasRead(task[k], ProcessOf[k])
      BY <1>1, <2>3 DEF FingerprintInv, TasksHaveRead
    <3> QED
      BY <1>1, <1>2, <1>3, <2>1, <2>3, <3>1 DEF HasRead
  <2> QED
    BY <2>2, <2>3
<1>8. TasksHaveRead'
  BY <1>7 DEF TasksHaveRead
<1> QED
  BY <1>4, <1>5, <1>6, <1>8 DEF FingerprintInv

LEMMA FingerprintStep == FingerprintInv /\ [FingerprintNext]_fingerprintVars => FingerprintInv'
<1> SUFFICES ASSUME FingerprintInv, [FingerprintNext]_fingerprintVars PROVE FingerprintInv'
  OBVIOUS
<1>1. CASE UNCHANGED fingerprintVars
  <2>1. UNCHANGED <<categoriesFile, files, download, categories, technologies, task, calm>>
    BY <1>1 DEF fingerprintVars
  <2>2. FingerprintTypeOK'
    BY <2>1 DEF FingerprintInv, FingerprintTypeOK
  <2>3. CalmDisks' /\ CachesAreLoaded' /\ TasksHaveRead'
    BY <2>1 DEF FingerprintInv, CalmDisks, DiskIsWhole, CachesAreLoaded, CacheIsOf, TasksHaveRead, HasRead
  <2> QED
    BY <2>2, <2>3 DEF FingerprintInv
<1>2. ASSUME NEW k \in Task,
             \/ \E page \in Html : GetTechnologies(k, page)
             \/ ReadCategories(k) \/ ReadDirectory(k) \/ EndLoad(k) \/ LoadFails(k)
             \/ \E f \in File : ReadFile(k, f)
      PROVE  FingerprintInv'
  BY <1>2, GetTechnologiesStep, ReadCategoriesStep, ReadDirectoryStep, EndLoadStep, LoadFailsStep, ReadFileStep
<1>3. ASSUME NEW p \in Process, Restart(p) PROVE FingerprintInv'
  BY <1>3, RestartStep
<1> QED
  BY <1>1, <1>2, <1>3, DownloadSteps DEF FingerprintNext

LEMMA FingerprintStart == FingerprintInit => FingerprintInv
<1> SUFFICES ASSUME FingerprintInit PROVE FingerprintInv
  OBVIOUS
<1>1. PICK v \in Version :
        /\ categoriesFile = v
        /\ files = [f \in File |-> IF f \in DOMAIN Vendored[v] THEN v ELSE None]
  BY DEF FingerprintInit
<1>2. /\ download = NoDownload /\ calm = [p \in Process |-> TRUE]
      /\ categories = [p \in Process |-> None] /\ technologies = [p \in Process |-> None]
      /\ task = [k \in Task |-> Waiting]
  BY DEF FingerprintInit
<1>3. files \in Files
  BY <1>1, FingerprintsAssumption DEF Files
<1>4. FingerprintTypeOK
  BY <1>1, <1>2, <1>3 DEF FingerprintTypeOK, NoDownload
<1>5. CalmDisks
  BY <1>1, <1>2, VersionsHaveFiles DEF CalmDisks, DiskIsWhole
<1>6. CachesAreLoaded
  BY <1>2 DEF CachesAreLoaded
<1>7. TasksHaveRead
  <2>1. \A k \in Task : task[k].at = "start" /\ task[k].result = None
    BY <1>2 DEF Waiting
  <2> QED
    BY <2>1 DEF TasksHaveRead, HasRead
<1> QED
  BY <1>4, <1>5, <1>6, <1>7 DEF FingerprintInv

\* However the matches of a process overlap while its cache is filled, and
\* whatever is downloaded, fails or restarts meanwhile: a page is matched over
\* the whole of an untouched disk, and never with a pattern that was overridden
\* (technology-fingerprints.ts:48-107, technology-matcher.ts).
THEOREM MatchesStayWhole == FingerprintSpec => []MatchesAreWhole
<1>1. FingerprintInv => MatchesAreWhole
  BY DEF FingerprintInv, TasksHaveRead, HasRead, NoRevertedPattern, Whole, MatchesAreWhole
<1> QED
  BY <1>1, FingerprintStart, FingerprintStep, PTL DEF FingerprintSpec

-----------------------------------------------------------------------------
(* The schema. *)

\* Induction, as the least number that were an exception.
LEMMA LeastNatural ==
  ASSUME NEW T \in SUBSET Nat, T # {}
  PROVE  \E m \in T : \A n \in T : m <= n
<1>1. PICK m \in T : \A n \in T : ~(<<n, m>> \in OpToRel(<, Nat))
  BY NatLessThanWellFounded, WFMin
<1>2. \A n \in T : ~(n < m)
  BY <1>1 DEF OpToRel
<1> QED
  BY <1>2

\* g is the function by which Upped is defined.
Runs(g, s, from, to) == g = [k \in from..to |-> IF k = from THEN s ELSE Up(k, g[k - 1])]

\* The recursion has a solution: take the least "to" that has none.
LEMMA RunsExist ==
  ASSUME NEW s, NEW from \in Nat, NEW to \in Nat, from <= to
  PROVE  \E g : Runs(g, s, from, to)
<1> DEFINE Without == {n \in Nat : from <= n /\ ~\E g : Runs(g, s, from, n)}
<1> SUFFICES ASSUME Without # {} PROVE FALSE
  OBVIOUS
<1>1. PICK n \in Without : \A m \in Without : n <= m
  <2> HIDE DEF Without
  <2>1. Without \in SUBSET Nat
    BY DEF Without
  <2> QED
    BY <2>1, LeastNatural
<1>2. CASE n = from
  <2> DEFINE g == [k \in from..from |-> s]
  <2>1. Runs(g, s, from, n)
    BY <1>2 DEF Runs
  <2> QED
    BY <2>1
<1>3. CASE n # from
  <2>1. n - 1 \in Nat /\ from <= n - 1 /\ n - 1 \notin Without
    BY <1>1, <1>3
  <2>2. PICK g : Runs(g, s, from, n - 1)
    BY <2>1
  <2> DEFINE h == [k \in from..n |-> IF k = n THEN Up(n, g[n - 1]) ELSE g[k]]
  <2>3. ASSUME NEW k \in from..n
        PROVE  h[k] = IF k = from THEN s ELSE Up(k, h[k - 1])
    <3>1. CASE k = n
      <4>1. h[k - 1] = g[n - 1]
        BY <2>1, <3>1
      <4> QED
        BY <3>1, <4>1, <1>3
    <3>2. CASE k # n
      <4>1. k \in from..(n - 1) /\ h[k] = g[k] /\ (k # from => h[k - 1] = g[k - 1])
        BY <3>2
      <4>2. g[k] = IF k = from THEN s ELSE Up(k, g[k - 1])
        BY <2>2, <4>1 DEF Runs
      <4> QED
        BY <4>1, <4>2
    <3> QED
      BY <3>1, <3>2
  <2>4. Runs(h, s, from, n)
    BY <2>3 DEF Runs
  <2> QED
    BY <2>4
<1> QED
  BY <1>2, <1>3

\* ... and two solutions agree as far as both reach.
LEMMA RunsAgree ==
  ASSUME NEW s, NEW from \in Nat, NEW to \in Nat, NEW end \in Nat, from <= to, to <= end,
         NEW g, Runs(g, s, from, to), NEW h, Runs(h, s, from, end)
  PROVE  g[to] = h[to]
<1> DEFINE Apart == {k \in from..to : g[k] # h[k]}
<1> SUFFICES ASSUME Apart # {} PROVE FALSE
  OBVIOUS
<1>1. PICK k \in Apart : \A j \in Apart : k <= j
  <2> HIDE DEF Apart
  <2>1. Apart \in SUBSET Nat
    BY DEF Apart
  <2> QED
    BY <2>1, LeastNatural
<1>2. /\ g[k] = IF k = from THEN s ELSE Up(k, g[k - 1])
      /\ h[k] = IF k = from THEN s ELSE Up(k, h[k - 1])
  BY DEF Runs
<1>3. k # from => g[k - 1] = h[k - 1]
  <2>1. ASSUME k # from PROVE g[k - 1] = h[k - 1]
    <3>1. k - 1 \in from..to /\ ~(k <= k - 1)
      BY <2>1
    <3> QED
      BY <1>1, <3>1
  <2> QED
    BY <2>1
<1> QED
  BY <1>2, <1>3

LEMMA UppedRuns ==
  ASSUME NEW s, NEW from \in Nat, NEW to \in Nat, from <= to
  PROVE  \E g : Runs(g, s, from, to) /\ Upped(s, from, to) = g[to]
<1>1. \E g : g = [k \in from..to |-> IF k = from THEN s ELSE Up(k, g[k - 1])]
  <2>1. PICK g : Runs(g, s, from, to)
    BY RunsExist
  <2> QED
    BY <2>1 DEF Runs
<1> DEFINE after[k \in from..to] == IF k = from THEN s ELSE Up(k, after[k - 1])
<1>2. after = [k \in from..to |-> IF k = from THEN s ELSE Up(k, after[k - 1])]
  BY <1>1
<1>3. Upped(s, from, to) = after[to]
  BY DEF Upped
<1> HIDE DEF after
<1> QED
  BY <1>2, <1>3 DEF Runs

\* No migration changes nothing, and the migrations of a deploy are those of a
\* shorter one and the next.
LEMMA UppedNowhere ==
  ASSUME NEW s, NEW from \in Nat
  PROVE  Upped(s, from, from) = s
<1>1. PICK g : Runs(g, s, from, from) /\ Upped(s, from, from) = g[from]
  BY UppedRuns
<1> QED
  BY <1>1 DEF Runs

LEMMA UppedFurther ==
  ASSUME NEW s, NEW from \in Nat, NEW to \in Nat, from <= to
  PROVE  Upped(s, from, to + 1) = Up(to + 1, Upped(s, from, to))
<1>1. PICK g : Runs(g, s, from, to) /\ Upped(s, from, to) = g[to]
  BY UppedRuns
<1>2. PICK h : Runs(h, s, from, to + 1) /\ Upped(s, from, to + 1) = h[to + 1]
  BY UppedRuns
<1>3. h[to + 1] = Up(to + 1, h[to])
  BY <1>2 DEF Runs
<1>4. g[to] = h[to]
  BY <1>1, <1>2, RunsAgree
<1> QED
  BY <1>1, <1>2, <1>3, <1>4

\* Two deploys one after the other build what one deploy over both builds.
LEMMA UppedTwice ==
  ASSUME NEW s, NEW from \in Nat, NEW mid \in Nat, NEW to \in Nat, from <= mid, mid <= to
  PROVE  Upped(Upped(s, from, mid), mid, to) = Upped(s, from, to)
<1> DEFINE Both(n) == Upped(Upped(s, from, mid), mid, n)
           Apart == {n \in Nat : mid <= n /\ Both(n) # Upped(s, from, n)}
<1> SUFFICES ASSUME Apart # {} PROVE FALSE
  OBVIOUS
<1>1. PICK n \in Apart : \A m \in Apart : n <= m
  <2> HIDE DEF Apart
  <2>1. Apart \in SUBSET Nat
    BY DEF Apart
  <2> QED
    BY <2>1, LeastNatural
<1>2. n # mid
  BY UppedNowhere
<1>3. PICK m \in Nat : n = m + 1 /\ mid <= m /\ from <= m /\ ~(n <= m)
  <2>1. n - 1 \in Nat /\ mid <= n - 1
    BY <1>2
  <2> QED
    BY <2>1
<1>4. Both(m) = Upped(s, from, m)
  BY <1>1, <1>3
<1>5. Both(n) = Up(n, Both(m))
  BY <1>3, UppedFurther
<1>6. Upped(s, from, n) = Up(n, Upped(s, from, m))
  BY <1>3, UppedFurther
<1> QED
  BY <1>4, <1>5, <1>6

IndexNames(s) == {i[2] : i \in s.indexes}

\* A schema no statement has gone wrong on: indexes and keys point at its tables.
WellFormed(s) ==
  /\ s = [tables |-> s.tables, indexes |-> s.indexes, sound |-> TRUE]
  /\ \A t \in s.tables : /\ t = Table(t.name, t.columns, t.unique, t.references)
                         /\ t.references \subseteq Names(s)
  /\ \A i \in s.indexes : i = <<i[1], i[2]>> /\ i[1] \in Names(s)

\* A new table, whose keys point at tables that are there, can be dropped again.
LEMMA NewTable ==
  ASSUME NEW s, NEW n, NEW c, NEW u, NEW r, NEW z,
         WellFormed(s), n \notin Names(s), r \subseteq Names(s),
         z = CreateTable(s, Table(n, c, u, r))
  PROVE  /\ WellFormed(z) /\ Names(z) = Names(s) \cup {n} /\ IndexNames(z) = IndexNames(s)
         /\ z.tables = s.tables \cup {Table(n, c, u, r)}
         /\ DropTable(z, n) = s
<1> DEFINE t == Table(n, c, u, r)
<1>1. t.name = n /\ t.columns = c /\ t.unique = u /\ t.references = r
  BY DEF Table
<1>2. s = [tables |-> s.tables, indexes |-> s.indexes, sound |-> TRUE]
  BY DEF WellFormed
<1>3. z = [tables |-> s.tables \cup {t}, indexes |-> s.indexes, sound |-> TRUE]
  <2>1. s.sound = TRUE /\ t.name \notin Names(s) /\ t.references \subseteq Names(s)
    BY <1>1, <1>2
  <2>2. (s.sound /\ t.name \notin Names(s) /\ t.references \subseteq Names(s)) = TRUE
    BY <2>1
  <2> HIDE DEF t
  <2> QED
    BY <2>2 DEF CreateTable, t
<1>4. z.tables = s.tables \cup {t} /\ z.indexes = s.indexes /\ z.sound = TRUE
  BY <1>3
<1> HIDE DEF t
<1>5. Names(z) = Names(s) \cup {n}
  BY <1>1, <1>4 DEF Names
<1>6. \A x \in z.tables : x = Table(x.name, x.columns, x.unique, x.references) /\ x.references \subseteq Names(z)
  <2>1. t = Table(t.name, t.columns, t.unique, t.references) /\ t.references \subseteq Names(s)
    BY <1>1 DEF t
  <2> QED
    BY <1>4, <1>5, <2>1 DEF WellFormed
<1>7. WellFormed(z)
  BY <1>3, <1>4, <1>5, <1>6 DEF WellFormed
<1>8. DropTable(z, n) = s
  <2>1. {x \in z.tables : x.name # n} = s.tables
    BY <1>1, <1>4 DEF Names
  <2>2. {i \in z.indexes : i[1] # n} = s.indexes
    BY <1>4 DEF WellFormed
  <2>3. n \in Names(z) /\ \A x \in z.tables : n \notin x.references
    BY <1>1, <1>4, <1>5 DEF WellFormed
  <2> QED
    BY <2>1, <2>2, <2>3, <1>2, <1>4 DEF DropTable
<1> QED
  BY <1>4, <1>5, <1>7, <1>8 DEF IndexNames, t

\* An index goes when it is dropped, or its table is.
LEMMA NewIndex ==
  ASSUME NEW s, NEW n, NEW x, NEW z,
         WellFormed(s), n \in Names(s), x \notin IndexNames(s),
         z = CreateIndex(s, <<n, x>>)
  PROVE  /\ WellFormed(z) /\ Names(z) = Names(s) /\ IndexNames(z) = IndexNames(s) \cup {x}
         /\ z.tables = s.tables
         /\ DropIndex(z, x) = s /\ DropTable(z, n) = DropTable(s, n)
<1>1. s = [tables |-> s.tables, indexes |-> s.indexes, sound |-> TRUE]
  BY DEF WellFormed
<1>2. z = [tables |-> s.tables, indexes |-> s.indexes \cup {<<n, x>>}, sound |-> TRUE]
  <2> DEFINE index == <<n, x>>
             fine == s.sound /\ index[1] \in Names(s) /\ \A i \in s.indexes : i[2] # index[2]
  <2>1. fine = TRUE
    BY <1>1 DEF IndexNames
  <2>2. z = [tables |-> s.tables, indexes |-> s.indexes \cup {index}, sound |-> fine]
    BY DEF CreateIndex
  <2> QED
    BY <2>1, <2>2
<1>3. z.tables = s.tables /\ z.indexes = s.indexes \cup {<<n, x>>} /\ z.sound = TRUE
  BY <1>2
<1>4. Names(z) = Names(s)
  BY <1>3 DEF Names
<1>5. IndexNames(z) = IndexNames(s) \cup {x}
  BY <1>3 DEF IndexNames
<1>6. WellFormed(z)
  <2>1. \A i \in z.indexes : i = <<i[1], i[2]>> /\ i[1] \in Names(z)
    BY <1>3, <1>4 DEF WellFormed
  <2>2. \A t \in z.tables : t = Table(t.name, t.columns, t.unique, t.references) /\ t.references \subseteq Names(z)
    BY <1>3, <1>4 DEF WellFormed
  <2> QED
    BY <1>2, <1>3, <2>1, <2>2 DEF WellFormed
<1>7. DropIndex(z, x) = s
  <2>1. {i \in z.indexes : i[2] # x} = s.indexes
    BY <1>3 DEF IndexNames
  <2>2. \E i \in z.indexes : i[2] = x
    BY <1>3
  <2> QED
    BY <2>1, <2>2, <1>1, <1>3 DEF DropIndex
<1>8. DropTable(z, n) = DropTable(s, n)
  <2>1. {i \in z.indexes : i[1] # n} = {i \in s.indexes : i[1] # n}
    BY <1>3
  <2>2. s.sound = TRUE
    BY <1>1
  <2> QED
    BY <2>1, <2>2, <1>3, <1>4 DEF DropTable
<1> QED
  BY <1>3, <1>4, <1>5, <1>6, <1>7, <1>8

LEMMA NewTableWithIndex ==
  ASSUME NEW s, NEW n, NEW c, NEW u, NEW r, NEW x, NEW z,
         WellFormed(s), n \notin Names(s), r \subseteq Names(s), x \notin IndexNames(s),
         z = CreateIndex(CreateTable(s, Table(n, c, u, r)), <<n, x>>)
  PROVE  /\ WellFormed(z) /\ Names(z) = Names(s) \cup {n} /\ IndexNames(z) = IndexNames(s) \cup {x}
         /\ z.tables = s.tables \cup {Table(n, c, u, r)}
         /\ DropTable(z, n) = s
<1>1. PICK y : y = CreateTable(s, Table(n, c, u, r))
  OBVIOUS
<1>2. /\ WellFormed(y) /\ Names(y) = Names(s) \cup {n} /\ IndexNames(y) = IndexNames(s)
      /\ y.tables = s.tables \cup {Table(n, c, u, r)}
      /\ DropTable(y, n) = s
  BY <1>1, NewTable
<1>3. z = CreateIndex(y, <<n, x>>)
  BY <1>1
<1>4. n \in Names(y) /\ x \notin IndexNames(y)
  BY <1>2
<1>5. WellFormed(z)
  BY <1>2, <1>3, <1>4, NewIndex
<1>6. Names(z) = Names(y)
  BY <1>2, <1>3, <1>4, NewIndex
<1>7. IndexNames(z) = IndexNames(y) \cup {x}
  BY <1>2, <1>3, <1>4, NewIndex
<1>8. z.tables = y.tables /\ DropTable(z, n) = DropTable(y, n)
  BY <1>2, <1>3, <1>4, NewIndex
<1> QED
  BY <1>2, <1>5, <1>6, <1>7, <1>8

LEMMA SchemaAfterSteps ==
  /\ SchemaAfter[0] = EmptySchema
  /\ \A k \in 0..(Last - 1) : SchemaAfter[k + 1] = Up(k + 1, SchemaAfter[k])
<1>1. \A k \in 0..Last : SchemaAfter[k] = Upped(EmptySchema, 0, k)
  BY DEF SchemaAfter
<1>2. SchemaAfter[0] = EmptySchema
  BY <1>1, UppedNowhere DEF Last
<1>3. ASSUME NEW k \in 0..(Last - 1)
      PROVE  SchemaAfter[k + 1] = Up(k + 1, SchemaAfter[k])
  <2>1. k \in Nat /\ k \in 0..Last /\ k + 1 \in 0..Last
    BY DEF Last
  <2>2. Upped(EmptySchema, 0, k + 1) = Up(k + 1, Upped(EmptySchema, 0, k))
    BY <2>1, UppedFurther
  <2> QED
    BY <1>1, <2>1, <2>2
<1> QED
  BY <1>2, <1>3

\* A change of columns leaves everything else, and is undone by the old ones.
LEMMA NewColumns ==
  ASSUME NEW s, NEW n, NEW c, NEW z, WellFormed(s), z = AlterColumns(s, n, c)
  PROVE  /\ WellFormed(z) /\ Names(z) = Names(s) /\ IndexNames(z) = IndexNames(s)
         /\ z.tables = {IF t.name = n THEN Table(n, c, t.unique, t.references) ELSE t : t \in s.tables}
         /\ \A old : (\A t \in s.tables : t.name = n => t.columns = old) => AlterColumns(z, n, old) = s
<1> DEFINE Altered(t, cols) == IF t.name = n THEN [t EXCEPT !.columns = cols] ELSE t
<1>1. s = [tables |-> s.tables, indexes |-> s.indexes, sound |-> TRUE]
  BY DEF WellFormed
<1>2. z = [tables |-> {Altered(t, c) : t \in s.tables}, indexes |-> s.indexes, sound |-> TRUE]
  <2>1. s.sound = TRUE
    BY <1>1
  <2> QED
    BY <2>1 DEF AlterColumns
<1>3. ASSUME NEW t \in s.tables, NEW cols
      PROVE  /\ Altered(t, cols) = IF t.name = n THEN Table(n, cols, t.unique, t.references) ELSE t
             /\ Altered(t, cols) = Table(t.name, Altered(t, cols).columns, t.unique, t.references)
             /\ Altered(t, cols).name = t.name /\ Altered(t, cols).unique = t.unique
             /\ Altered(t, cols).references = t.references
  <2>1. t = [name |-> t.name, columns |-> t.columns, unique |-> t.unique, references |-> t.references]
    BY DEF WellFormed, Table
  <2> QED
    BY <2>1 DEF Table
<1>4. ASSUME NEW t \in s.tables, NEW old, t.name = n => t.columns = old
      PROVE  Altered(Altered(t, c), old) = t
  <2>1. t = [name |-> t.name, columns |-> t.columns, unique |-> t.unique, references |-> t.references]
    BY DEF WellFormed, Table
  <2>2. CASE t.name = n
    <3>1. Altered(t, c) = [name |-> t.name, columns |-> c, unique |-> t.unique, references |-> t.references]
      BY <2>1, <2>2
    <3>2. PICK a : a = Altered(t, c)
      OBVIOUS
    <3>3. Altered(a, old) = [name |-> t.name, columns |-> old, unique |-> t.unique, references |-> t.references]
      BY <3>1, <3>2, <2>2
    <3> QED
      BY <3>2, <3>3, <2>1, <2>2, <1>4
  <2>3. CASE t.name # n
    BY <2>3
  <2> QED
    BY <2>2, <2>3
<1>5. z.tables = {Altered(t, c) : t \in s.tables} /\ z.indexes = s.indexes /\ z.sound = TRUE
  BY <1>2
<1>6. \A old : AlterColumns(z, n, old) =
        [tables |-> {Altered(t, old) : t \in z.tables}, indexes |-> s.indexes, sound |-> TRUE]
  BY <1>5 DEF AlterColumns
<1> HIDE DEF Altered
<1>7. Names(z) = Names(s)
  BY <1>3, <1>5 DEF Names
<1>8. WellFormed(z)
  <2>1. ASSUME NEW a \in z.tables
        PROVE  a = Table(a.name, a.columns, a.unique, a.references) /\ a.references \subseteq Names(z)
    <3>1. PICK t \in s.tables : a = Altered(t, c)
      BY <1>5
    <3> QED
      BY <3>1, <1>3, <1>7 DEF WellFormed
  <2> QED
    BY <1>2, <1>5, <1>7, <2>1 DEF WellFormed
<1>9. ASSUME NEW old, \A t \in s.tables : t.name = n => t.columns = old
      PROVE  AlterColumns(z, n, old) = s
  <2>1. {Altered(a, old) : a \in z.tables} = s.tables
    BY <1>4, <1>5, <1>9
  <2> QED
    BY <2>1, <1>1, <1>6
<1>10. z.tables = {IF t.name = n THEN Table(n, c, t.unique, t.references) ELSE t : t \in s.tables}
  BY <1>3, <1>5
<1> QED
  BY <1>5, <1>7, <1>8, <1>9, <1>10 DEF IndexNames

\* Migration k adds "new" tables and indexes to a schema that is well formed
\* again, and its way down takes them away.
Adds(k, new, index) ==
  /\ WellFormed(SchemaAfter[k])
  /\ Names(SchemaAfter[k]) = Names(SchemaAfter[k - 1]) \cup {t.name : t \in new}
  /\ IndexNames(SchemaAfter[k]) = IndexNames(SchemaAfter[k - 1]) \cup index
  /\ SchemaAfter[k].tables = SchemaAfter[k - 1].tables \cup new
  /\ Down(k, SchemaAfter[k]) = SchemaAfter[k - 1]

LEMMA AddsTable ==
  ASSUME NEW k \in 1..Last, NEW n, NEW c, NEW u, NEW r,
         WellFormed(SchemaAfter[k - 1]), n \notin Names(SchemaAfter[k - 1]), r \subseteq Names(SchemaAfter[k - 1]),
         \A s : Up(k, s) = CreateTable(s, Table(n, c, u, r)) /\ Down(k, s) = DropTable(s, n)
  PROVE  Adds(k, {Table(n, c, u, r)}, {})
<1>1. PICK s, z : s = SchemaAfter[k - 1] /\ z = SchemaAfter[k]
  OBVIOUS
<1>2. z = CreateTable(s, Table(n, c, u, r))
  <2>1. k - 1 \in 0..(Last - 1) /\ (k - 1) + 1 = k
    BY DEF Last
  <2> QED
    BY <1>1, <2>1, SchemaAfterSteps
<1>3. WellFormed(s) /\ n \notin Names(s) /\ r \subseteq Names(s)
  BY <1>1
<1>4. /\ WellFormed(z) /\ Names(z) = Names(s) \cup {n} /\ IndexNames(z) = IndexNames(s)
      /\ z.tables = s.tables \cup {Table(n, c, u, r)}
      /\ DropTable(z, n) = s
  BY <1>2, <1>3, NewTable
<1>5. {t.name : t \in {Table(n, c, u, r)}} = {n}
  BY DEF Table
<1> QED
  BY <1>1, <1>4, <1>5 DEF Adds

LEMMA AddsTableWithIndex ==
  ASSUME NEW k \in 1..Last, NEW n, NEW c, NEW u, NEW r, NEW x,
         WellFormed(SchemaAfter[k - 1]), n \notin Names(SchemaAfter[k - 1]), r \subseteq Names(SchemaAfter[k - 1]),
         x \notin IndexNames(SchemaAfter[k - 1]),
         \A s : /\ Up(k, s) = CreateIndex(CreateTable(s, Table(n, c, u, r)), <<n, x>>)
                /\ Down(k, s) = DropTable(s, n)
  PROVE  Adds(k, {Table(n, c, u, r)}, {x})
<1>1. PICK s, z : s = SchemaAfter[k - 1] /\ z = SchemaAfter[k]
  OBVIOUS
<1>2. z = CreateIndex(CreateTable(s, Table(n, c, u, r)), <<n, x>>)
  <2>1. k - 1 \in 0..(Last - 1) /\ (k - 1) + 1 = k
    BY DEF Last
  <2> QED
    BY <1>1, <2>1, SchemaAfterSteps
<1>3. WellFormed(s) /\ n \notin Names(s) /\ r \subseteq Names(s) /\ x \notin IndexNames(s)
  BY <1>1
<1>4. WellFormed(z) /\ Names(z) = Names(s) \cup {n}
  BY <1>2, <1>3, NewTableWithIndex
<1>5. IndexNames(z) = IndexNames(s) \cup {x}
  BY <1>2, <1>3, NewTableWithIndex
<1>6. z.tables = s.tables \cup {Table(n, c, u, r)} /\ DropTable(z, n) = s
  BY <1>2, <1>3, NewTableWithIndex
<1>7. {t.name : t \in {Table(n, c, u, r)}} = {n}
  BY DEF Table
<1> QED
  BY <1>1, <1>4, <1>5, <1>6, <1>7 DEF Adds

LEMMA AddsIndex ==
  ASSUME NEW k \in 1..Last, NEW n, NEW x,
         WellFormed(SchemaAfter[k - 1]), n \in Names(SchemaAfter[k - 1]), x \notin IndexNames(SchemaAfter[k - 1]),
         \A s : Up(k, s) = CreateIndex(s, <<n, x>>) /\ Down(k, s) = DropIndex(s, x)
  PROVE  Adds(k, {}, {x})
<1>1. PICK s, z : s = SchemaAfter[k - 1] /\ z = SchemaAfter[k]
  OBVIOUS
<1>2. z = CreateIndex(s, <<n, x>>)
  <2>1. k - 1 \in 0..(Last - 1) /\ (k - 1) + 1 = k
    BY DEF Last
  <2> QED
    BY <1>1, <2>1, SchemaAfterSteps
<1>3. WellFormed(s) /\ n \in Names(s) /\ x \notin IndexNames(s)
  BY <1>1
<1>4. WellFormed(z) /\ Names(z) = Names(s)
  BY <1>2, <1>3, NewIndex
<1>5. IndexNames(z) = IndexNames(s) \cup {x}
  BY <1>2, <1>3, NewIndex
<1>6. z.tables = s.tables /\ DropIndex(z, x) = s
  BY <1>2, <1>3, NewIndex
<1> QED
  BY <1>1, <1>4, <1>5, <1>6 DEF Adds

LEMMA EmptySchemaIsWellFormed ==
  /\ WellFormed(EmptySchema) /\ Names(EmptySchema) = {} /\ IndexNames(EmptySchema) = {}
  /\ EmptySchema.tables = {}
BY DEF WellFormed, EmptySchema, Names, IndexNames

LEMMA AddsUsers ==
  ASSUME WellFormed(SchemaAfter[1]), Names(SchemaAfter[1]) = {"stores"}, IndexNames(SchemaAfter[1]) = {}
  PROVE  Adds(2, {Users, UserSessions}, {"user_sessions_user_id_idx", "user_sessions_refresh_token_idx"})
<1>1. PICK s, z : s = SchemaAfter[1] /\ z = SchemaAfter[2]
  OBVIOUS
<1>2. PICK x : x = CreateTable(CreateTable(s, Users), UserSessions)
  OBVIOUS
<1>3. PICK y : y = CreateIndex(x, <<"user_sessions", "user_sessions_user_id_idx">>)
  OBVIOUS
<1>4. z = CreateIndex(y, <<"user_sessions", "user_sessions_refresh_token_idx">>)
  <2>1. 1 \in 0..(Last - 1) /\ 1 + 1 = 2
    BY DEF Last
  <2>2. z = Up(2, s)
    BY <1>1, <2>1, SchemaAfterSteps
  <2> QED
    BY <1>2, <1>3, <2>2 DEF Up, M0002Up
<1>5. /\ WellFormed(x) /\ Names(x) = Names(s) \cup {"users", "user_sessions"} /\ IndexNames(x) = IndexNames(s)
      /\ x.tables = s.tables \cup {Users, UserSessions}
      /\ DropTable(DropTable(x, "user_sessions"), "users") = s
  <2>1. PICK w : w = CreateTable(s, Users)
    OBVIOUS
  <2>2. PICK c, u : Users = Table("users", c, u, {})
    BY DEF Users
  <2>3. PICK d, v : UserSessions = Table("user_sessions", d, v, {"users"})
    BY DEF UserSessions
  <2>4. WellFormed(s) /\ "users" \notin Names(s) /\ {} \subseteq Names(s) /\ w = CreateTable(s, Table("users", c, u, {}))
    BY <1>1, <2>1, <2>2
  <2>5. /\ WellFormed(w) /\ Names(w) = Names(s) \cup {"users"} /\ IndexNames(w) = IndexNames(s)
        /\ w.tables = s.tables \cup {Table("users", c, u, {})}
        /\ DropTable(w, "users") = s
    BY <2>4, NewTable
  <2>6. /\ "user_sessions" \notin Names(w) /\ {"users"} \subseteq Names(w)
        /\ x = CreateTable(w, Table("user_sessions", d, v, {"users"}))
    BY <1>1, <1>2, <2>1, <2>3, <2>5
  <2>7. /\ WellFormed(x) /\ Names(x) = Names(w) \cup {"user_sessions"} /\ IndexNames(x) = IndexNames(w)
        /\ x.tables = w.tables \cup {Table("user_sessions", d, v, {"users"})}
        /\ DropTable(x, "user_sessions") = w
    BY <2>5, <2>6, NewTable
  <2> QED
    BY <2>2, <2>3, <2>5, <2>7
<1>6. /\ "user_sessions" \in Names(x) /\ "user_sessions_user_id_idx" \notin IndexNames(x)
  BY <1>1, <1>5
<1>7. WellFormed(y)
  BY <1>3, <1>5, <1>6, NewIndex
<1>8. Names(y) = Names(x)
  BY <1>3, <1>5, <1>6, NewIndex
<1>9. IndexNames(y) = IndexNames(x) \cup {"user_sessions_user_id_idx"}
  BY <1>3, <1>5, <1>6, NewIndex
<1>10. y.tables = x.tables /\ DropTable(y, "user_sessions") = DropTable(x, "user_sessions")
  BY <1>3, <1>5, <1>6, NewIndex
<1>11. "user_sessions" \in Names(y) /\ "user_sessions_refresh_token_idx" \notin IndexNames(y)
  BY <1>1, <1>5, <1>8, <1>9
<1>12. WellFormed(z)
  BY <1>4, <1>7, <1>11, NewIndex
<1>13. Names(z) = Names(y)
  BY <1>4, <1>7, <1>11, NewIndex
<1>14. IndexNames(z) = IndexNames(y) \cup {"user_sessions_refresh_token_idx"}
  BY <1>4, <1>7, <1>11, NewIndex
<1>15. z.tables = y.tables /\ DropTable(z, "user_sessions") = DropTable(y, "user_sessions")
  BY <1>4, <1>7, <1>11, NewIndex
<1>16. Down(2, z) = s
  BY <1>5, <1>10, <1>15 DEF Down, M0002Down
<1>17. {t.name : t \in {Users, UserSessions}} = {"users", "user_sessions"}
  BY DEF Users, UserSessions, Table
<1>18. Names(z) = Names(s) \cup {t.name : t \in {Users, UserSessions}}
  BY <1>5, <1>8, <1>13, <1>17
<1>19. IndexNames(z) = IndexNames(s) \cup {"user_sessions_user_id_idx", "user_sessions_refresh_token_idx"}
  BY <1>5, <1>9, <1>14
<1>20. z.tables = s.tables \cup {Users, UserSessions}
  BY <1>5, <1>10, <1>15
<1>21. 2 - 1 = 1
  OBVIOUS
<1> QED
  BY <1>1, <1>12, <1>16, <1>18, <1>19, <1>20, <1>21 DEF Adds

LEMMA AddsPlans ==
  ASSUME WellFormed(SchemaAfter[10]),
         "plans" \notin Names(SchemaAfter[10]), "plan_limits" \notin Names(SchemaAfter[10])
  PROVE  Adds(11, {Plans, PlanLimits}, {})
<1>1. PICK s, z : s = SchemaAfter[10] /\ z = SchemaAfter[11]
  OBVIOUS
<1>2. z = CreateTable(CreateTable(s, Plans), PlanLimits)
  <2>1. 10 \in 0..(Last - 1) /\ 10 + 1 = 11
    BY DEF Last
  <2>2. z = Up(11, s)
    BY <1>1, <2>1, SchemaAfterSteps
  <2> QED
    BY <2>2 DEF Up, M0013Up
<1>3. /\ WellFormed(z) /\ Names(z) = Names(s) \cup {"plans", "plan_limits"} /\ IndexNames(z) = IndexNames(s)
      /\ z.tables = s.tables \cup {Plans, PlanLimits}
      /\ DropTable(DropTable(z, "plan_limits"), "plans") = s
  <2>1. PICK y : y = CreateTable(s, Plans)
    OBVIOUS
  <2>2. PICK c, u : Plans = Table("plans", c, u, {})
    BY DEF Plans
  <2>3. PICK d, v : PlanLimits = Table("plan_limits", d, v, {"plans"})
    BY DEF PlanLimits
  <2>4. WellFormed(s) /\ "plans" \notin Names(s) /\ {} \subseteq Names(s) /\ y = CreateTable(s, Table("plans", c, u, {}))
    BY <1>1, <2>1, <2>2
  <2>5. /\ WellFormed(y) /\ Names(y) = Names(s) \cup {"plans"} /\ IndexNames(y) = IndexNames(s)
        /\ y.tables = s.tables \cup {Table("plans", c, u, {})}
        /\ DropTable(y, "plans") = s
    BY <2>4, NewTable
  <2>6. /\ "plan_limits" \notin Names(y) /\ {"plans"} \subseteq Names(y)
        /\ z = CreateTable(y, Table("plan_limits", d, v, {"plans"}))
    BY <1>1, <1>2, <2>1, <2>3, <2>5
  <2>7. /\ WellFormed(z) /\ Names(z) = Names(y) \cup {"plan_limits"} /\ IndexNames(z) = IndexNames(y)
        /\ z.tables = y.tables \cup {Table("plan_limits", d, v, {"plans"})}
        /\ DropTable(z, "plan_limits") = y
    BY <2>5, <2>6, NewTable
  <2> QED
    BY <2>2, <2>3, <2>5, <2>7
<1>4. Down(11, z) = s
  BY <1>3 DEF Down, M0013Down
<1>5. {t.name : t \in {Plans, PlanLimits}} = {"plans", "plan_limits"}
  BY DEF Plans, PlanLimits, Table
<1>6. 11 - 1 = 10
  OBVIOUS
<1> QED
  BY <1>1, <1>3, <1>4, <1>5, <1>6 DEF Adds

\* The tables that the other migrations create.
Stores == Table("stores", StoresTable, {{"id"}, {"domain"}}, {})
StoreCrawls == Table("store_crawls", StoreCrawlsTable, {{"id"}}, {"stores"})
StoreMetadata == Table("store_metadata", StoreMetadataTable, {{"id"}}, {"stores"})
RowTechnologies == Table("store_technologies", RowColumns, {{"id"}}, {"stores"})
StoreSubscriptions ==
  Table("store_subscriptions", StoreSubscriptionsTable, {{"id"}, {"user_id", "store_id"}}, {"users", "stores"})
TechnologiesCatalog == Table("technologies", TechnologiesTable, {{"id"}, {"name"}}, {})
BillingCustomers ==
  Table("billing_customers", BillingCustomersTable, {{"id"}, {"user_id"}, {"stripe_customer_id"}}, {"users"})
BillingSubscriptions ==
  Table("billing_subscriptions", BillingSubscriptionsTable, {{"id"}, {"stripe_subscription_id"}},
        {"users", "plans"})
BillingWebhookEvents == Table("billing_webhook_events", BillingWebhookEventsTable, {{"id"}}, {})

\* What each migration up to 0009 adds ...
LEMMA FirstMigrations ==
  /\ Adds(1, {Stores}, {})
  /\ Adds(2, {Users, UserSessions}, {"user_sessions_user_id_idx", "user_sessions_refresh_token_idx"})
  /\ Adds(3, {StoreCrawls}, {"store_crawls_store_id_idx"})
  /\ Adds(4, {StoreMetadata}, {"store_metadata_store_id_idx"})
  /\ Adds(5, {RowTechnologies}, {"store_technologies_store_id_name_created_at_idx"})
  /\ Adds(6, {}, {"store_crawls_store_id_created_at_idx"})
  /\ Adds(7, {StoreSubscriptions}, {"store_subscriptions_user_id_idx"})
<1> USE DEF Last
<1>0. /\ WellFormed(SchemaAfter[0]) /\ Names(SchemaAfter[0]) = {} /\ IndexNames(SchemaAfter[0]) = {}
      /\ SchemaAfter[0].tables = {}
  BY EmptySchemaIsWellFormed, SchemaAfterSteps
<1>1. /\ WellFormed(SchemaAfter[1]) /\ Names(SchemaAfter[1]) = {"stores"} /\ IndexNames(SchemaAfter[1]) = {}
      /\ Adds(1, {Stores}, {})
  <2>1. \A s : Up(1, s) = CreateTable(s, Stores) /\ Down(1, s) = DropTable(s, "stores")
    BY DEF Up, Down, M0001Up, M0001Down, Stores, StoresTable
  <2>2. Adds(1, {Stores}, {})
    BY <1>0, <2>1, AddsTable DEF Stores
  <2>3. {t.name : t \in {Stores}} = {"stores"}
    BY DEF Stores, Table
  <2> QED
    BY <1>0, <2>2, <2>3 DEF Adds
<1>2. /\ WellFormed(SchemaAfter[2])
      /\ Names(SchemaAfter[2]) = {"stores", "users", "user_sessions"}
      /\ IndexNames(SchemaAfter[2]) = {"user_sessions_user_id_idx", "user_sessions_refresh_token_idx"}
      /\ Adds(2, {Users, UserSessions}, {"user_sessions_user_id_idx", "user_sessions_refresh_token_idx"})
  <2>1. Adds(2, {Users, UserSessions}, {"user_sessions_user_id_idx", "user_sessions_refresh_token_idx"})
    BY <1>1, AddsUsers
  <2>2. {t.name : t \in {Users, UserSessions}} = {"users", "user_sessions"}
    BY DEF Users, UserSessions, Table
  <2> QED
    BY <1>1, <2>1, <2>2 DEF Adds
<1>3. /\ WellFormed(SchemaAfter[3])
      /\ Names(SchemaAfter[3]) = Names(SchemaAfter[2]) \cup {"store_crawls"}
      /\ IndexNames(SchemaAfter[3]) = IndexNames(SchemaAfter[2]) \cup {"store_crawls_store_id_idx"}
      /\ Adds(3, {StoreCrawls}, {"store_crawls_store_id_idx"})
  <2>1. \A s : /\ Up(3, s) = CreateIndex(CreateTable(s, StoreCrawls),
                                         <<"store_crawls", "store_crawls_store_id_idx">>)
               /\ Down(3, s) = DropTable(s, "store_crawls")
    BY DEF Up, Down, M0003Up, M0003Down, StoreCrawls, StoreCrawlsTable
  <2>2. Adds(3, {StoreCrawls}, {"store_crawls_store_id_idx"})
    BY <1>2, <2>1, AddsTableWithIndex DEF StoreCrawls
  <2>3. {t.name : t \in {StoreCrawls}} = {"store_crawls"}
    BY DEF StoreCrawls, Table
  <2> QED
    BY <2>2, <2>3 DEF Adds
<1>4. /\ WellFormed(SchemaAfter[4])
      /\ Names(SchemaAfter[4]) = Names(SchemaAfter[3]) \cup {"store_metadata"}
      /\ IndexNames(SchemaAfter[4]) = IndexNames(SchemaAfter[3]) \cup {"store_metadata_store_id_idx"}
      /\ Adds(4, {StoreMetadata}, {"store_metadata_store_id_idx"})
  <2>1. \A s : /\ Up(4, s) = CreateIndex(CreateTable(s, StoreMetadata),
                                         <<"store_metadata", "store_metadata_store_id_idx">>)
               /\ Down(4, s) = DropTable(s, "store_metadata")
    BY DEF Up, Down, M0004Up, M0004Down, StoreMetadata, StoreMetadataTable
  <2>2. Adds(4, {StoreMetadata}, {"store_metadata_store_id_idx"})
    BY <1>2, <1>3, <2>1, AddsTableWithIndex DEF StoreMetadata
  <2>3. {t.name : t \in {StoreMetadata}} = {"store_metadata"}
    BY DEF StoreMetadata, Table
  <2> QED
    BY <2>2, <2>3 DEF Adds
<1>5. /\ WellFormed(SchemaAfter[5])
      /\ Names(SchemaAfter[5]) = Names(SchemaAfter[4]) \cup {"store_technologies"}
      /\ IndexNames(SchemaAfter[5]) = IndexNames(SchemaAfter[4]) \cup {"store_technologies_store_id_name_created_at_idx"}
      /\ Adds(5, {RowTechnologies}, {"store_technologies_store_id_name_created_at_idx"})
  <2>1. \A s : /\ Up(5, s) = CreateIndex(CreateTable(s, RowTechnologies),
                                         <<"store_technologies", "store_technologies_store_id_name_created_at_idx">>)
               /\ Down(5, s) = DropTable(s, "store_technologies")
    BY DEF Up, Down, M0007Up, M0007Down, RowTechnologies
  <2>2. Adds(5, {RowTechnologies}, {"store_technologies_store_id_name_created_at_idx"})
    BY <1>2, <1>3, <1>4, <2>1, AddsTableWithIndex DEF RowTechnologies
  <2>3. {t.name : t \in {RowTechnologies}} = {"store_technologies"}
    BY DEF RowTechnologies, Table
  <2> QED
    BY <2>2, <2>3 DEF Adds
<1>6. /\ WellFormed(SchemaAfter[6])
      /\ Names(SchemaAfter[6]) = Names(SchemaAfter[5])
      /\ IndexNames(SchemaAfter[6]) = IndexNames(SchemaAfter[5]) \cup {"store_crawls_store_id_created_at_idx"}
      /\ Adds(6, {}, {"store_crawls_store_id_created_at_idx"})
  <2>1. \A s : /\ Up(6, s) = CreateIndex(s, <<"store_crawls", "store_crawls_store_id_created_at_idx">>)
               /\ Down(6, s) = DropIndex(s, "store_crawls_store_id_created_at_idx")
    BY DEF Up, Down, M0008Up, M0008Down
  <2>2. Adds(6, {}, {"store_crawls_store_id_created_at_idx"})
    BY <1>2, <1>3, <1>4, <1>5, <2>1, AddsIndex
  <2> QED
    BY <2>2 DEF Adds
<1>7. /\ WellFormed(SchemaAfter[7])
      /\ Names(SchemaAfter[7]) = Names(SchemaAfter[6]) \cup {"store_subscriptions"}
      /\ IndexNames(SchemaAfter[7]) = IndexNames(SchemaAfter[6]) \cup {"store_subscriptions_user_id_idx"}
      /\ Adds(7, {StoreSubscriptions}, {"store_subscriptions_user_id_idx"})
  <2>1. \A s : /\ Up(7, s) = CreateIndex(CreateTable(s, StoreSubscriptions),
                                         <<"store_subscriptions", "store_subscriptions_user_id_idx">>)
               /\ Down(7, s) = DropTable(s, "store_subscriptions")
    BY DEF Up, Down, M0009Up, M0009Down, StoreSubscriptions, StoreSubscriptionsTable
  <2>2. Adds(7, {StoreSubscriptions}, {"store_subscriptions_user_id_idx"})
    BY <1>2, <1>3, <1>4, <1>5, <1>6, <2>1, AddsTableWithIndex DEF StoreSubscriptions
  <2>3. {t.name : t \in {StoreSubscriptions}} = {"store_subscriptions"}
    BY DEF StoreSubscriptions, Table
  <2> QED
    BY <2>2, <2>3 DEF Adds
<1> QED
  BY <1>1, <1>2, <1>3, <1>4, <1>5, <1>6, <1>7

BeforeEventLog ==
  {Stores, Users, UserSessions, StoreCrawls, StoreMetadata, RowTechnologies, StoreSubscriptions}

\* The names as the event log finds them: 0010 takes no new table for old.
LEMMA SchemaBeforeEventLog ==
  /\ WellFormed(SchemaAfter[7]) /\ SchemaAfter[7].tables = BeforeEventLog
  /\ Names(SchemaAfter[7]) = {"stores", "users", "user_sessions", "store_crawls", "store_metadata",
                              "store_technologies", "store_subscriptions"}
  /\ IndexNames(SchemaAfter[7]) =
       {"user_sessions_user_id_idx", "user_sessions_refresh_token_idx", "store_crawls_store_id_idx",
        "store_metadata_store_id_idx", "store_technologies_store_id_name_created_at_idx",
        "store_crawls_store_id_created_at_idx", "store_subscriptions_user_id_idx"}
<1>0. SchemaAfter[0].tables = {} /\ IndexNames(SchemaAfter[0]) = {}
  BY EmptySchemaIsWellFormed, SchemaAfterSteps
<1>1. SchemaAfter[2].tables = {Stores, Users, UserSessions}
  BY <1>0, FirstMigrations DEF Adds
<1>2. SchemaAfter[4].tables = {Stores, Users, UserSessions, StoreCrawls, StoreMetadata}
  BY <1>1, FirstMigrations DEF Adds
<1>3. SchemaAfter[7].tables = BeforeEventLog
  BY <1>2, FirstMigrations DEF Adds, BeforeEventLog
<1>4. {t.name : t \in BeforeEventLog} =
        {"stores", "users", "user_sessions", "store_crawls", "store_metadata",
         "store_technologies", "store_subscriptions"}
  BY DEF BeforeEventLog, Table, Stores, Users, UserSessions, StoreCrawls, StoreMetadata, RowTechnologies,
         StoreSubscriptions
<1>5. Names(SchemaAfter[7]) = {t.name : t \in BeforeEventLog}
  BY <1>3 DEF Names
<1>6. IndexNames(SchemaAfter[4]) =
        {"user_sessions_user_id_idx", "user_sessions_refresh_token_idx", "store_crawls_store_id_idx",
         "store_metadata_store_id_idx"}
  BY <1>0, FirstMigrations DEF Adds
<1>7. IndexNames(SchemaAfter[7]) = IndexNames(SchemaAfter[4]) \cup
        {"store_technologies_store_id_name_created_at_idx", "store_crawls_store_id_created_at_idx",
         "store_subscriptions_user_id_idx"}
  BY FirstMigrations DEF Adds
<1>8. WellFormed(SchemaAfter[7])
  BY FirstMigrations DEF Adds
<1> QED
  BY <1>3, <1>4, <1>5, <1>6, <1>7, <1>8

EventLogTechnologies == Table("store_technologies", StoreTechnologiesTable, {{"id"}}, {"stores"})

AfterEventLog ==
  {Stores, Users, UserSessions, StoreCrawls, StoreMetadata, EventLogTechnologies, StoreSubscriptions}

\* 0010 changes the columns of one table and its way down changes them back.
LEMMA EventLogMigration ==
  /\ WellFormed(SchemaAfter[8]) /\ SchemaAfter[8].tables = AfterEventLog
  /\ Names(SchemaAfter[8]) = Names(SchemaAfter[7])
  /\ IndexNames(SchemaAfter[8]) = IndexNames(SchemaAfter[7]) \cup {EventLogIndex}
  /\ Down(8, SchemaAfter[8]) = SchemaAfter[7]
<1>1. PICK s, z : s = SchemaAfter[7] /\ z = SchemaAfter[8]
  OBVIOUS
<1>2. PICK y : y = AlterColumns(s, "store_technologies", StoreTechnologiesTable)
  OBVIOUS
<1>3. z = CreateIndex(y, <<"store_technologies", EventLogIndex>>)
  <2>1. 7 \in 0..(Last - 1) /\ 7 + 1 = 8
    BY DEF Last
  <2>2. z = Up(8, s)
    BY <1>1, <2>1, SchemaAfterSteps
  <2> QED
    BY <1>2, <2>2 DEF Up, M0010Up, EventLogColumns, StoreTechnologiesTable
<1>4. WellFormed(s) /\ s.tables = BeforeEventLog
  BY <1>1, SchemaBeforeEventLog
<1>5. /\ WellFormed(y) /\ Names(y) = Names(s) /\ IndexNames(y) = IndexNames(s)
      /\ y.tables = {IF t.name = "store_technologies"
                     THEN Table("store_technologies", StoreTechnologiesTable, t.unique, t.references) ELSE t :
                       t \in s.tables}
      /\ \A old : (\A t \in s.tables : t.name = "store_technologies" => t.columns = old)
                    => AlterColumns(y, "store_technologies", old) = s
  BY <1>2, <1>4, NewColumns
<1>6. /\ Stores.name # "store_technologies" /\ Users.name # "store_technologies"
      /\ UserSessions.name # "store_technologies" /\ StoreCrawls.name # "store_technologies"
      /\ StoreMetadata.name # "store_technologies" /\ StoreSubscriptions.name # "store_technologies"
      /\ RowTechnologies.name = "store_technologies" /\ RowTechnologies.columns = RowColumns
      /\ RowTechnologies.unique = {{"id"}} /\ RowTechnologies.references = {"stores"}
  BY DEF Table, Stores, Users, UserSessions, StoreCrawls, StoreMetadata, RowTechnologies, StoreSubscriptions
<1>7. y.tables = AfterEventLog
  BY <1>4, <1>5, <1>6 DEF BeforeEventLog, AfterEventLog, EventLogTechnologies
<1>8. AlterColumns(y, "store_technologies", RowColumns) = s
  BY <1>4, <1>5, <1>6 DEF BeforeEventLog
<1>9. "store_technologies" \in Names(y) /\ EventLogIndex \notin IndexNames(y)
  BY <1>1, <1>5, SchemaBeforeEventLog DEF EventLogIndex
<1>10. WellFormed(z)
  BY <1>3, <1>5, <1>9, NewIndex
<1>11. Names(z) = Names(y)
  BY <1>3, <1>5, <1>9, NewIndex
<1>12. IndexNames(z) = IndexNames(y) \cup {EventLogIndex}
  BY <1>3, <1>5, <1>9, NewIndex
<1>13. z.tables = y.tables /\ DropIndex(z, EventLogIndex) = y
  BY <1>3, <1>5, <1>9, NewIndex
<1>14. Down(8, z) = s
  BY <1>8, <1>13 DEF Down, M0010Down
<1> QED
  BY <1>1, <1>5, <1>7, <1>10, <1>11, <1>12, <1>13, <1>14

\* ... and what each migration after 0010 adds.
LEMMA LaterMigrations ==
  /\ Adds(9, {}, {"store_technologies_name_idx"})
  /\ Adds(10, {TechnologiesCatalog}, {})
  /\ Adds(11, {Plans, PlanLimits}, {})
  /\ Adds(12, {BillingCustomers}, {})
  /\ Adds(13, {BillingSubscriptions}, {"billing_subscriptions_user_id_idx"})
  /\ Adds(14, {BillingWebhookEvents}, {})
<1> USE DEF Last
<1>8. /\ WellFormed(SchemaAfter[8])
      /\ Names(SchemaAfter[8]) = {"stores", "users", "user_sessions", "store_crawls", "store_metadata",
                                  "store_technologies", "store_subscriptions"}
      /\ "store_technologies_name_idx" \notin IndexNames(SchemaAfter[8])
      /\ "billing_subscriptions_user_id_idx" \notin IndexNames(SchemaAfter[8])
  BY SchemaBeforeEventLog, EventLogMigration DEF EventLogIndex
<1>9. /\ WellFormed(SchemaAfter[9])
      /\ Names(SchemaAfter[9]) = Names(SchemaAfter[8])
      /\ IndexNames(SchemaAfter[9]) = IndexNames(SchemaAfter[8]) \cup {"store_technologies_name_idx"}
      /\ Adds(9, {}, {"store_technologies_name_idx"})
  <2>1. \A s : /\ Up(9, s) = CreateIndex(s, <<"store_technologies", "store_technologies_name_idx">>)
               /\ Down(9, s) = DropIndex(s, "store_technologies_name_idx")
    BY DEF Up, Down, M0011Up, M0011Down
  <2>2. Adds(9, {}, {"store_technologies_name_idx"})
    BY <1>8, <2>1, AddsIndex
  <2> QED
    BY <2>2 DEF Adds
<1>10. /\ WellFormed(SchemaAfter[10])
      /\ Names(SchemaAfter[10]) = Names(SchemaAfter[9]) \cup {"technologies"}
      /\ IndexNames(SchemaAfter[10]) = IndexNames(SchemaAfter[9])
      /\ Adds(10, {TechnologiesCatalog}, {})
  <2>1. \A s : /\ Up(10, s) = CreateTable(s, TechnologiesCatalog)
               /\ Down(10, s) = DropTable(s, "technologies")
    BY DEF Up, Down, M0012Up, M0012Down, TechnologiesCatalog, TechnologiesTable
  <2>2. Adds(10, {TechnologiesCatalog}, {})
    BY <1>8, <1>9, <2>1, AddsTable DEF TechnologiesCatalog
  <2>3. {t.name : t \in {TechnologiesCatalog}} = {"technologies"}
    BY DEF TechnologiesCatalog, Table
  <2> QED
    BY <2>2, <2>3 DEF Adds
<1>11. /\ WellFormed(SchemaAfter[11])
       /\ Names(SchemaAfter[11]) = Names(SchemaAfter[10]) \cup {"plans", "plan_limits"}
       /\ IndexNames(SchemaAfter[11]) = IndexNames(SchemaAfter[10])
       /\ Adds(11, {Plans, PlanLimits}, {})
  <2>1. "plans" \notin Names(SchemaAfter[10]) /\ "plan_limits" \notin Names(SchemaAfter[10])
    BY <1>8, <1>9, <1>10
  <2>2. Adds(11, {Plans, PlanLimits}, {})
    BY <1>10, <2>1, AddsPlans
  <2>3. {t.name : t \in {Plans, PlanLimits}} = {"plans", "plan_limits"}
    BY DEF Plans, PlanLimits, Table
  <2> QED
    BY <2>2, <2>3 DEF Adds
<1>12. /\ WellFormed(SchemaAfter[12])
      /\ Names(SchemaAfter[12]) = Names(SchemaAfter[11]) \cup {"billing_customers"}
      /\ IndexNames(SchemaAfter[12]) = IndexNames(SchemaAfter[11])
      /\ Adds(12, {BillingCustomers}, {})
  <2>1. \A s : /\ Up(12, s) = CreateTable(s, BillingCustomers)
               /\ Down(12, s) = DropTable(s, "billing_customers")
    BY DEF Up, Down, M0014Up, M0014Down, BillingCustomers, BillingCustomersTable
  <2>2. Adds(12, {BillingCustomers}, {})
    BY <1>8, <1>9, <1>10, <1>11, <2>1, AddsTable DEF BillingCustomers
  <2>3. {t.name : t \in {BillingCustomers}} = {"billing_customers"}
    BY DEF BillingCustomers, Table
  <2> QED
    BY <2>2, <2>3 DEF Adds
<1>13. /\ WellFormed(SchemaAfter[13])
      /\ Names(SchemaAfter[13]) = Names(SchemaAfter[12]) \cup {"billing_subscriptions"}
      /\ IndexNames(SchemaAfter[13]) = IndexNames(SchemaAfter[12]) \cup {"billing_subscriptions_user_id_idx"}
      /\ Adds(13, {BillingSubscriptions}, {"billing_subscriptions_user_id_idx"})
  <2>1. \A s : /\ Up(13, s) = CreateIndex(CreateTable(s, BillingSubscriptions),
                                         <<"billing_subscriptions", "billing_subscriptions_user_id_idx">>)
               /\ Down(13, s) = DropTable(s, "billing_subscriptions")
    BY DEF Up, Down, M0015Up, M0015Down, BillingSubscriptions, BillingSubscriptionsTable
  <2>2. Adds(13, {BillingSubscriptions}, {"billing_subscriptions_user_id_idx"})
    BY <1>8, <1>9, <1>10, <1>11, <1>12, <2>1, AddsTableWithIndex DEF BillingSubscriptions
  <2>3. {t.name : t \in {BillingSubscriptions}} = {"billing_subscriptions"}
    BY DEF BillingSubscriptions, Table
  <2> QED
    BY <2>2, <2>3 DEF Adds
<1>14. /\ WellFormed(SchemaAfter[14])
      /\ Names(SchemaAfter[14]) = Names(SchemaAfter[13]) \cup {"billing_webhook_events"}
      /\ IndexNames(SchemaAfter[14]) = IndexNames(SchemaAfter[13])
      /\ Adds(14, {BillingWebhookEvents}, {})
  <2>1. \A s : /\ Up(14, s) = CreateTable(s, BillingWebhookEvents)
               /\ Down(14, s) = DropTable(s, "billing_webhook_events")
    BY DEF Up, Down, M0016Up, M0016Down, BillingWebhookEvents, BillingWebhookEventsTable
  <2>2. Adds(14, {BillingWebhookEvents}, {})
    BY <1>8, <1>9, <1>10, <1>11, <1>12, <1>13, <2>1, AddsTable DEF BillingWebhookEvents
  <2>3. {t.name : t \in {BillingWebhookEvents}} = {"billing_webhook_events"}
    BY DEF BillingWebhookEvents, Table
  <2> QED
    BY <2>2, <2>3 DEF Adds
<1> QED
  BY <1>9, <1>10, <1>11, <1>12, <1>13, <1>14

\* Every schema of the folder is well formed, and every way down undoes its way up.
LEMMA EverySchema ==
  /\ \A k \in 0..Last : WellFormed(SchemaAfter[k])
  /\ \A k \in 1..Last : Down(k, SchemaAfter[k]) = SchemaAfter[k - 1]
<1>1. ASSUME NEW k \in 0..Last PROVE WellFormed(SchemaAfter[k])
  <2>1. CASE k = 0
    BY <2>1, EmptySchemaIsWellFormed, SchemaAfterSteps
  <2>2. CASE k \in 1..7
    BY <2>2, FirstMigrations DEF Adds
  <2>3. CASE k = 8
    BY <2>3, EventLogMigration
  <2>4. CASE k \in 9..14
    BY <2>4, LaterMigrations DEF Adds
  <2> QED
    BY <2>1, <2>2, <2>3, <2>4 DEF Last
<1>2. ASSUME NEW k \in 1..Last PROVE Down(k, SchemaAfter[k]) = SchemaAfter[k - 1]
  <2>1. CASE k \in 1..7
    BY <2>1, FirstMigrations DEF Adds
  <2>2. CASE k = 8
    BY <2>2, EventLogMigration
  <2>3. CASE k \in 9..14
    BY <2>3, LaterMigrations DEF Adds
  <2> QED
    BY <2>1, <2>2, <2>3 DEF Last
<1> QED
  BY <1>1, <1>2

LastTables ==
  AfterEventLog \cup
  {TechnologiesCatalog, Plans, PlanLimits, BillingCustomers, BillingSubscriptions, BillingWebhookEvents}

LEMMA LastSchema == SchemaAfter[Last].tables = LastTables
<1>1. SchemaAfter[11].tables = AfterEventLog \cup {TechnologiesCatalog, Plans, PlanLimits}
  BY EventLogMigration, LaterMigrations DEF Adds
<1>2. SchemaAfter[14].tables = SchemaAfter[11].tables \cup
        {BillingCustomers, BillingSubscriptions, BillingWebhookEvents}
  BY LaterMigrations DEF Adds
<1> QED
  BY <1>1, <1>2 DEF LastTables, Last

\* The last release finds the tables of types.ts and its conflict targets.
LEMMA LastSchemaMatchesTypes ==
  /\ TablesOf(SchemaAfter[Last]) = Database
  /\ \A c \in ConflictTargets : \E t \in SchemaAfter[Last].tables : t.name = c[1] /\ c[2] \in t.unique
<1> DEFINE Typed(t) == <<t.name, t.columns>>
<1>1. /\ Typed(Stores) = <<"stores", StoresTable>>
      /\ Typed(Users) = <<"users", UsersTable>>
      /\ Typed(UserSessions) = <<"user_sessions", UserSessionsTable>>
      /\ Typed(StoreCrawls) = <<"store_crawls", StoreCrawlsTable>>
      /\ Typed(StoreMetadata) = <<"store_metadata", StoreMetadataTable>>
      /\ Typed(EventLogTechnologies) = <<"store_technologies", StoreTechnologiesTable>>
      /\ Typed(StoreSubscriptions) = <<"store_subscriptions", StoreSubscriptionsTable>>
  BY DEF Table, Stores, Users, UserSessions, StoreCrawls, StoreMetadata, EventLogTechnologies,
         StoreSubscriptions, UsersTable, UserSessionsTable
<1>2. /\ Typed(TechnologiesCatalog) = <<"technologies", TechnologiesTable>>
      /\ Typed(Plans) = <<"plans", PlansTable>>
      /\ Typed(PlanLimits) = <<"plan_limits", PlanLimitsTable>>
      /\ Typed(BillingCustomers) = <<"billing_customers", BillingCustomersTable>>
      /\ Typed(BillingSubscriptions) = <<"billing_subscriptions", BillingSubscriptionsTable>>
      /\ Typed(BillingWebhookEvents) = <<"billing_webhook_events", BillingWebhookEventsTable>>
  BY DEF Table, TechnologiesCatalog, Plans, PlanLimits, BillingCustomers, BillingSubscriptions,
         BillingWebhookEvents, PlansTable, PlanLimitsTable
<1>3. TablesOf(SchemaAfter[Last]) = {Typed(t) : t \in LastTables}
  BY LastSchema DEF TablesOf
<1>4. {Typed(t) : t \in LastTables} = Database
  <2> HIDE DEF Typed
  <2>1. {Typed(t) : t \in LastTables} =
          {Typed(Stores), Typed(Users), Typed(UserSessions), Typed(StoreCrawls), Typed(StoreMetadata),
           Typed(EventLogTechnologies), Typed(StoreSubscriptions), Typed(TechnologiesCatalog), Typed(Plans),
           Typed(PlanLimits), Typed(BillingCustomers), Typed(BillingSubscriptions), Typed(BillingWebhookEvents)}
    BY DEF LastTables, AfterEventLog
  <2> QED
    BY <2>1, <1>1, <1>2 DEF Database
<1>5. ASSUME NEW c \in ConflictTargets
      PROVE  \E t \in SchemaAfter[Last].tables : t.name = c[1] /\ c[2] \in t.unique
  <2> DEFINE Has(n, u) == \E t \in LastTables : t.name = n /\ u \in t.unique
  <2>1. /\ Has("stores", {"domain"}) /\ Has("store_subscriptions", {"user_id", "store_id"})
        /\ Has("technologies", {"name"})
    BY DEF LastTables, AfterEventLog, Table, Stores, StoreSubscriptions, TechnologiesCatalog
  <2>2. Has("plans", {"slug"})
    <3>1. Plans.name = "plans" /\ {"slug"} \in Plans.unique
      BY DEF Table, Plans
    <3> QED
      BY <3>1 DEF LastTables
  <2>3. Has("plan_limits", {"plan_id", "resource_key"})
    <3>1. PlanLimits.name = "plan_limits" /\ {"plan_id", "resource_key"} \in PlanLimits.unique
      BY DEF Table, PlanLimits
    <3> QED
      BY <3>1 DEF LastTables
  <2>4. Has("billing_subscriptions", {"stripe_subscription_id"})
    <3>1. /\ BillingSubscriptions.name = "billing_subscriptions"
          /\ {"stripe_subscription_id"} \in BillingSubscriptions.unique
      BY DEF Table, BillingSubscriptions
    <3> QED
      BY <3>1 DEF LastTables
  <2>5. Has("billing_webhook_events", {"id"})
    <3>1. BillingWebhookEvents.name = "billing_webhook_events" /\ {"id"} \in BillingWebhookEvents.unique
      BY DEF Table, BillingWebhookEvents
    <3> QED
      BY <3>1 DEF LastTables
  <2> HIDE DEF Has
  <2>6. Has(c[1], c[2])
    BY <2>1, <2>2, <2>3, <2>4, <2>5 DEF ConflictTargets
  <2> QED
    BY <2>6, LastSchema DEF Has
<1> QED
  BY <1>3, <1>4, <1>5

\* Between two releases on the same side of 0010 tables are only added.
LEMMA TablesGrow ==
  ASSUME NEW a \in 0..Last, NEW b \in 0..Last, a <= b, a >= EventLog \/ b < EventLog
  PROVE  SchemaAfter[a].tables \subseteq SchemaAfter[b].tables
<1> DEFINE Shrunk == {n \in Nat : a <= n /\ n <= b /\ ~(SchemaAfter[a].tables \subseteq SchemaAfter[n].tables)}
<1> SUFFICES ASSUME Shrunk # {} PROVE FALSE
  BY DEF Last
<1>1. PICK n \in Shrunk : \A m \in Shrunk : n <= m
  <2> HIDE DEF Shrunk
  <2>1. Shrunk \in SUBSET Nat
    BY DEF Shrunk
  <2> QED
    BY <2>1, LeastNatural
<1>2. n # a /\ n - 1 \in Nat /\ a <= n - 1 /\ n - 1 <= b /\ n - 1 \notin Shrunk
  BY <1>1 DEF Last
<1>3. SchemaAfter[n - 1].tables \subseteq SchemaAfter[n].tables
  <2>1. n \in 1..7 \/ n \in 9..14
    BY <1>2 DEF Last, EventLog
  <2> QED
    BY <2>1, FirstMigrations, LaterMigrations DEF Adds
<1> QED
  BY <1>2, <1>3

Releases == Release \cup {0}

\* The rows are of the kind that the schema keeps: rows before 0010, events after it.
RowKinds(version) == IF version >= EventLog THEN {"added", "removed"} ELSE {"live", "deleted"}

MigrationTypeOK ==
  /\ applied \in 0..Last
  /\ rows \in Seq(RowKinds(applied))
  /\ latest \in Releases /\ image \in Releases /\ app \in Releases
  /\ deploy \in [Deploy -> {"idle", "pulled", "migrated"}]
  /\ mishaps \in Nat
  /\ strayed \in BOOLEAN

\* While no deploy strays there is one at a time; the code that runs is that of
\* the schema until the deploy has migrated, and never newer.
DeploysInOrder ==
  ~strayed =>
    /\ \A d, e \in Deploy : deploy[d] # "idle" /\ deploy[e] # "idle" => d = e
    /\ app <= applied
    /\ (\A d \in Deploy : deploy[d] # "migrated") => app = applied
    /\ (\E d \in Deploy : deploy[d] = "migrated") => applied = image

MigrationInv ==
  /\ MigrationTypeOK
  /\ schema = SchemaAfter[applied]
  /\ DeploysInOrder

LEMMA ReleasesAreNumbers == Releases \subseteq 0..Last
BY MigrationsAssumption DEF Releases, Last

LEMMA MigrationStart == MigrationInit => MigrationInv
<1> SUFFICES ASSUME MigrationInit PROVE MigrationInv
  OBVIOUS
<1> USE DEF MigrationInit
<1>1. MigrationTypeOK
  <2>1. rows \in Seq(RowKinds(applied))
    OBVIOUS
  <2>2. applied \in 0..Last
    BY DEF Last
  <2> QED
    BY <2>1, <2>2 DEF MigrationTypeOK, Releases
<1>2. schema = SchemaAfter[applied]
  BY SchemaAfterSteps
<1> QED
  BY <1>1, <1>2 DEF MigrationInv, DeploysInOrder

\* Rows of either kind turned into the other.
LEMMA RowsTurned ==
  /\ \A r \in Seq(RowKinds(0)) : ToEvents(r) \in Seq(RowKinds(EventLog)) /\ Len(ToEvents(r)) = Len(r)
  /\ \A r \in Seq(RowKinds(EventLog)) : FromEvents(r) \in Seq(RowKinds(0)) /\ Len(FromEvents(r)) = Len(r)
<1>1. ASSUME NEW r \in Seq(RowKinds(0))
      PROVE  ToEvents(r) \in Seq(RowKinds(EventLog)) /\ Len(ToEvents(r)) = Len(r)
  <2>1. ToEvents(r) \in [1..Len(r) -> RowKinds(EventLog)]
    BY DEF ToEvents, RowKinds, EventLog
  <2> QED
    BY <2>1
<1>2. ASSUME NEW r \in Seq(RowKinds(EventLog))
      PROVE  FromEvents(r) \in Seq(RowKinds(0)) /\ Len(FromEvents(r)) = Len(r)
  <2>1. FromEvents(r) \in [1..Len(r) -> RowKinds(0)]
    BY DEF FromEvents, RowKinds, EventLog
  <2> QED
    BY <2>1
<1> QED
  BY <1>1, <1>2

LEMMA MigrateStep ==
  ASSUME MigrationInv, NEW d \in Deploy, Migrate(d)
  PROVE  MigrationInv'
<1> USE DEF MigrationInv, Migrate
<1>1. applied <= image /\ applied \in 0..Last /\ image \in 0..Last
  BY ReleasesAreNumbers DEF MigrationTypeOK
<1>2. schema' = SchemaAfter[applied']
  <2>1. schema' = Upped(Upped(EmptySchema, 0, applied), applied, image)
    BY <1>1 DEF SchemaAfter
  <2>2. schema' = Upped(EmptySchema, 0, image)
    BY <1>1, <2>1, UppedTwice
  <2> QED
    BY <1>1, <2>2 DEF SchemaAfter
<1>3. rows' \in Seq(RowKinds(applied'))
  <2>1. CASE applied < EventLog /\ EventLog <= image
    <3>1. RowKinds(applied) = RowKinds(0) /\ RowKinds(image) = RowKinds(EventLog)
      BY <1>1, <2>1 DEF RowKinds, EventLog
    <3> QED
      BY <2>1, <3>1, RowsTurned DEF MigrationTypeOK
  <2>2. CASE ~(applied < EventLog /\ EventLog <= image)
    <3>1. RowKinds(applied) = RowKinds(image)
      BY <1>1, <2>2 DEF RowKinds, EventLog
    <3> QED
      BY <2>2, <3>1 DEF MigrationTypeOK
  <2> QED
    BY <2>1, <2>2
<1>4. MigrationTypeOK'
  BY <1>1, <1>3 DEF MigrationTypeOK
<1>5. DeploysInOrder'
  <2>1. app \in 0..Last
    BY ReleasesAreNumbers DEF MigrationTypeOK
  <2> QED
    BY <1>1, <2>1 DEF DeploysInOrder, MigrationTypeOK, Last
<1> QED
  BY <1>2, <1>4, <1>5

LEMMA RollbackStep ==
  ASSUME MigrationInv, Rollback
  PROVE  MigrationInv'
<1> USE DEF MigrationInv, Rollback
<1>1. applied \in 1..Last /\ applied' = applied - 1 /\ applied' \in 0..Last
  BY DEF MigrationTypeOK, Last
<1>2. schema' = SchemaAfter[applied']
  BY <1>1, EverySchema
<1>3. rows' \in Seq(RowKinds(applied'))
  <2>1. CASE applied = EventLog
    <3>1. RowKinds(applied) = RowKinds(EventLog) /\ RowKinds(applied') = RowKinds(0)
      BY <1>1, <2>1 DEF RowKinds, EventLog
    <3>2. rows' = FromEvents(rows)
      BY <2>1 DEF EventLog, StoreTechnologies
    <3> QED
      BY <3>1, <3>2, RowsTurned DEF MigrationTypeOK
  <2>2. CASE applied # EventLog
    <3>1. RowKinds(applied) = RowKinds(applied')
      BY <1>1, <2>2 DEF RowKinds, EventLog
    <3>2. rows \in Seq(RowKinds(applied'))
      BY <3>1 DEF MigrationTypeOK
    <3>3. <<>> \in Seq(RowKinds(applied'))
      OBVIOUS
    <3>4. rows' = <<>> \/ rows' = rows
      BY <2>2
    <3> QED
      BY <3>2, <3>3, <3>4
  <2> QED
    BY <2>1, <2>2
<1>4. MigrationTypeOK'
  BY <1>1, <1>3 DEF MigrationTypeOK
<1>5. DeploysInOrder'
  BY DEF DeploysInOrder
<1> QED
  BY <1>2, <1>4, <1>5

LEMMA RecordStep ==
  ASSUME MigrationInv, RecordEvent \/ RecordRow
  PROVE  MigrationInv'
<1>1. rows' \in Seq(RowKinds(applied))
  <2>1. CASE RecordEvent
    <3>1. RowKinds(applied) = {"added", "removed"}
      BY <2>1 DEF RecordEvent, RowKinds
    <3> QED
      BY <2>1, <3>1 DEF RecordEvent, MigrationInv, MigrationTypeOK
  <2>2. CASE RecordRow
    <3>1. RowKinds(applied) = {"live", "deleted"}
      BY <2>2 DEF RecordRow, RowKinds, EventLog, StoreTechnologies
    <3>2. CASE rows # <<>> /\ rows[Len(rows)] = "live"
      <4>1. rows' = [rows EXCEPT ![Len(rows)] = "deleted"]
        BY <2>2, <3>2 DEF RecordRow
      <4>2. rows \in [1..Len(rows) -> {"live", "deleted"}] /\ Len(rows) \in Nat
        BY <3>1 DEF MigrationInv, MigrationTypeOK
      <4>3. rows' \in [1..Len(rows) -> RowKinds(applied)]
        BY <3>1, <4>1, <4>2
      <4> QED
        BY <4>2, <4>3
    <3>3. CASE ~(rows # <<>> /\ rows[Len(rows)] = "live")
      BY <2>2, <3>1, <3>3 DEF RecordRow, MigrationInv, MigrationTypeOK
    <3> QED
      BY <3>2, <3>3
  <2> QED
    BY <2>1, <2>2
<1>2. UNCHANGED <<schema, applied, latest, image, app, deploy, mishaps, strayed>>
  BY DEF RecordEvent, RecordRow
<1>3. MigrationTypeOK'
  BY <1>1, <1>2 DEF MigrationInv, MigrationTypeOK
<1> QED
  BY <1>2, <1>3 DEF MigrationInv, DeploysInOrder

LEMMA MigrationStep == MigrationInv /\ [MigrationNext]_migrationVars => MigrationInv'
<1> SUFFICES ASSUME MigrationInv, [MigrationNext]_migrationVars PROVE MigrationInv'
  OBVIOUS
<1>1. CASE UNCHANGED migrationVars
  BY <1>1 DEF migrationVars, MigrationInv, MigrationTypeOK, DeploysInOrder
<1>2. ASSUME NEW r \in Release, Push(r) PROVE MigrationInv'
  <2>1. latest' \in Releases /\ UNCHANGED <<schema, applied, rows, image, app, deploy, mishaps, strayed>>
    BY <1>2 DEF Push, Releases
  <2> QED
    BY <2>1 DEF MigrationInv, MigrationTypeOK, DeploysInOrder
<1>3. ASSUME NEW d \in Deploy, Pull(d) PROVE MigrationInv'
  <2>1. MigrationTypeOK'
    BY <1>3 DEF Pull, MigrationInv, MigrationTypeOK
  <2>2. DeploysInOrder'
    BY <1>3 DEF Pull, MigrationInv, MigrationTypeOK, DeploysInOrder
  <2> QED
    BY <1>3, <2>1, <2>2 DEF Pull, MigrationInv
<1>4. ASSUME NEW d \in Deploy, MigrateFails(d) \/ MigrateRefused(d) PROVE MigrationInv'
  <2>1. deploy' = [deploy EXCEPT ![d] = "migrated"] /\ mishaps' \in Nat /\ strayed' = TRUE
    BY <1>4 DEF MigrateFails, MigrateRefused, MigrationInv, MigrationTypeOK
  <2>2. UNCHANGED <<schema, applied, rows, latest, image, app>>
    BY <1>4 DEF MigrateFails, MigrateRefused
  <2> QED
    BY <2>1, <2>2 DEF MigrationInv, MigrationTypeOK, DeploysInOrder
<1>5. ASSUME NEW d \in Deploy, ComposeUp(d) PROVE MigrationInv'
  <2>1. image \in 0..Last /\ latest \in 0..Last /\ app \in 0..Last /\ applied \in 0..Last
    BY ReleasesAreNumbers DEF MigrationInv, MigrationTypeOK
  <2>2. MigrationTypeOK'
    BY <1>5 DEF ComposeUp, MigrationInv, MigrationTypeOK
  <2>3. ASSUME ~strayed'
        PROVE  applied = image /\ \A e \in Deploy : deploy'[e] = "idle"
    BY <1>5, <2>3 DEF ComposeUp, MigrationInv, MigrationTypeOK, DeploysInOrder
  <2>4. DeploysInOrder'
    BY <1>5, <2>1, <2>3 DEF ComposeUp, DeploysInOrder, Last
  <2> QED
    BY <1>5, <2>2, <2>4 DEF ComposeUp, MigrationInv
<1> QED
  BY <1>1, <1>2, <1>3, <1>4, <1>5, MigrateStep, RollbackStep, RecordStep DEF MigrationNext

LEMMA MigrationsInvariant == MigrationSpec => []MigrationInv
BY MigrationStart, MigrationStep, PTL DEF MigrationSpec

\* The database: whatever is deployed, fails and is taken back, the schema is
\* the one its migrations build, no statement lacked what it needs, and the
\* last release has the tables of types.ts and its conflict targets.
THEOREM SchemasMatchTypes == MigrationSpec => []SchemaMatchesTypes
<1>1. MigrationInv => SchemaMatchesTypes
  <2> SUFFICES ASSUME MigrationInv PROVE SchemaMatchesTypes
    OBVIOUS
  <2>1. schema = SchemaAfter[applied] /\ applied \in 0..Last
    BY DEF MigrationInv, MigrationTypeOK
  <2>2. schema.sound
    <3>1. WellFormed(schema)
      BY <2>1, EverySchema
    <3>2. schema = [tables |-> schema.tables, indexes |-> schema.indexes, sound |-> TRUE]
      BY <3>1 DEF WellFormed
    <3> QED
      BY <3>2
  <2> QED
    BY <2>1, <2>2, LastSchemaMatchesTypes DEF SchemaMatchesTypes
<1> QED
  BY <1>1, MigrationsInvariant, PTL

\* Code that runs beside any deploys fits the schema, but for the two windows
\* that the property names.
THEOREM RunningCodeFits == MigrationSpec => []RunningCodeFitsSchema
<1>1. MigrationInv => RunningCodeFitsSchema
  <2> SUFFICES ASSUME MigrationInv PROVE RunningCodeFitsSchema
    OBVIOUS
  <2>1. schema = SchemaAfter[applied] /\ applied \in 0..Last /\ app \in 0..Last
    BY ReleasesAreNumbers DEF MigrationInv, MigrationTypeOK
  <2>2. CASE app > applied
    BY <2>1, <2>2 DEF MigrationInv, DeploysInOrder, RunningCodeFitsSchema, Last
  <2>3. CASE app <= applied /\ (app >= EventLog \/ applied < EventLog)
    <3>1. Believed(app) \subseteq schema.tables
      BY <2>1, <2>3, TablesGrow DEF Believed
    <3>2. Fits(app, schema)
      BY <3>1 DEF Fits
    <3> QED
      BY <3>2 DEF RunningCodeFitsSchema
  <2>4. CASE app < EventLog /\ EventLog <= applied
    BY <2>1, <2>4 DEF MigrationInv, DeploysInOrder, RunningCodeFitsSchema, Last, EventLog
  <2> QED
    BY <2>1, <2>2, <2>3, <2>4 DEF Last, EventLog
<1> QED
  BY <1>1, MigrationsInvariant, PTL

\* No migration of 0010, up or down, loses a technology or brings one back, as
\* long as no row but the last is live.
THEOREM EventLogsKeepPresence == MigrationSpec => EventLogKeepsPresence
<1> DEFINE Settled == \A i \in DOMAIN rows : i < Len(rows) => rows[i] \in {"deleted", "removed"}
           Crosses == (applied >= EventLog) # (applied' >= EventLog) /\ Len(rows') = Len(rows) /\ Settled
<1>1. MigrationInv /\ [MigrationNext]_migrationVars => (Crosses => (Present' <=> Present))
  <2> SUFFICES ASSUME MigrationInv, [MigrationNext]_migrationVars, Crosses PROVE Present' <=> Present
    OBVIOUS
  <2>0. applied \in 0..Last /\ image \in 0..Last
    BY ReleasesAreNumbers DEF MigrationInv, MigrationTypeOK
  <2>1. CASE \E d \in Deploy : Migrate(d)
    <3>1. applied < EventLog /\ applied' = image /\ image >= EventLog /\ rows' = ToEvents(rows)
      BY <2>0, <2>1 DEF Migrate, EventLog, Last
    <3>2. rows \in Seq({"live", "deleted"})
      BY <2>0, <3>1 DEF MigrationInv, MigrationTypeOK, RowKinds, EventLog, Last
    <3>3. Present <=> rows # <<>> /\ rows[Len(rows)] = "live"
      <4>1. Present <=> \E i \in DOMAIN rows : rows[i] = "live"
        BY <2>0, <3>1 DEF Present, EventLog, Last
      <4>2. \A i \in DOMAIN rows : rows[i] = "live" => i = Len(rows)
        BY <3>2
      <4>3. rows # <<>> => Len(rows) \in DOMAIN rows
        BY <3>2
      <4>4. rows = <<>> => DOMAIN rows = {}
        OBVIOUS
      <4> QED
        BY <4>1, <4>2, <4>3, <4>4
    <3>4. Present' <=> rows' # <<>> /\ rows'[Len(rows')] = "added"
      BY <3>1 DEF Present
    <3>5. rows' # <<>> <=> rows # <<>>
      <4>1. rows' \in Seq({"added", "removed"})
        BY <3>2, <3>1, RowsTurned DEF RowKinds, EventLog
      <4> QED
        BY <3>2, <4>1
    <3>6. rows # <<>> => (rows'[Len(rows')] = "added" <=> rows[Len(rows)] = "live")
      <4>1. rows # <<>> => Len(rows) \in DOMAIN rows /\ rows[Len(rows)] \in {"live", "deleted"}
        BY <3>2
      <4> QED
        BY <3>1, <4>1 DEF ToEvents
    <3> QED
      BY <3>3, <3>4, <3>5, <3>6
  <2>2. CASE Rollback
    <3>1. applied = EventLog /\ applied' = applied - 1 /\ rows' = FromEvents(rows)
      BY <2>0, <2>2 DEF Rollback, EventLog, StoreTechnologies, Last
    <3>2. rows \in Seq({"added", "removed"})
      BY <3>1 DEF MigrationInv, MigrationTypeOK, RowKinds, EventLog
    <3>3. Present <=> rows # <<>> /\ rows[Len(rows)] = "added"
      BY <3>1 DEF Present, EventLog
    <3>4. Present' <=> \E i \in DOMAIN rows' : rows'[i] = "live"
      BY <3>1 DEF Present, EventLog
    <3>5. DOMAIN rows' = DOMAIN rows
      BY <3>1 DEF FromEvents
    <3>6. \A i \in DOMAIN rows : rows'[i] = "live" <=> rows[i] = "added"
      <4>1. \A i \in DOMAIN rows : rows[i] \in {"added", "removed"}
        BY <3>2
      <4> QED
        BY <3>1, <4>1 DEF FromEvents
    <3>7. \A i \in DOMAIN rows : rows[i] = "added" => i = Len(rows)
      BY <3>2
    <3>8. rows # <<>> => Len(rows) \in DOMAIN rows
      BY <3>2
    <3>9. rows = <<>> => DOMAIN rows = {}
      OBVIOUS
    <3> QED
      BY <3>3, <3>4, <3>5, <3>6, <3>7, <3>8, <3>9
  <2>3. CASE applied' = applied
    BY <2>3
  <2> QED
    BY <2>1, <2>2, <2>3
       DEF MigrationNext, migrationVars, Push, Pull, MigrateFails, MigrateRefused, ComposeUp,
           RecordEvent, RecordRow
<1>2. MigrationInv /\ [MigrationNext]_migrationVars => [Crosses => (Present' <=> Present)]_migrationVars
  BY <1>1
<1> QED
  BY <1>2, MigrationsInvariant, PTL DEF MigrationSpec, EventLogKeepsPresence

-----------------------------------------------------------------------------
(* What is read of the stores. *)

LEMMA GreatestNatural ==
  ASSUME NEW b \in Nat, NEW T \in SUBSET (1..b), T # {}
  PROVE  Max(T) \in T /\ \A n \in T : n <= Max(T)
<1> DEFINE gaps == {k \in Nat : \E n \in T : k = b - n}
<1>1. gaps # {}
  <2>1. PICK n \in T : TRUE
    OBVIOUS
  <2>2. b - n \in gaps
    BY <2>1
  <2> QED
    BY <2>2
<1>2. PICK k \in gaps : \A g \in gaps : k <= g
  <2> HIDE DEF gaps
  <2>1. gaps \in SUBSET Nat
    BY DEF gaps
  <2> QED
    BY <1>1, <2>1, LeastNatural
<1>3. PICK m \in T : k = b - m
  OBVIOUS
<1>4. \A n \in T : n <= m
  <2>1. ASSUME NEW n \in T PROVE n <= m
    <3>1. b - n \in gaps
      OBVIOUS
    <3>2. k <= b - n
      BY <1>2, <3>1
    <3> QED
      BY <1>3, <3>2
  <2> QED
    BY <2>1
<1> QED
  BY <1>4 DEF Max

\* The latest event of a technology decides whether it is in use.
LEMMA LatestDecides ==
  ASSUME NEW l \in Seq(Event), NEW n \in Name
  PROVE  /\ Latest(l, n) # Null <=> \E i \in DOMAIN l : l[i].name = n
         /\ Latest(l, n) \in {"added", "removed", Null}
         /\ Latest(l, n) = "added" <=> n \in InUse(l)
<1> DEFINE at == {i \in DOMAIN l : l[i].name = n}
<1>1. DOMAIN l = 1..Len(l) /\ Len(l) \in Nat /\ \A i \in DOMAIN l : l[i] \in Event
  OBVIOUS
<1>2. CASE at = {}
  <2>1. Latest(l, n) = Null
    BY <1>2 DEF Latest
  <2>2. n \notin InUse(l)
    BY <1>2 DEF InUse
  <2> QED
    BY <2>1, <2>2, <1>2, StoreReadsAssumption
<1>3. CASE at # {}
  <2>1. PICK m : m = Max(at)
    OBVIOUS
  <2>2. m \in at /\ \A i \in at : i <= m
    <3>1. at \in SUBSET (1..Len(l))
      BY <1>1
    <3> HIDE DEF at
    <3> QED
      BY <1>1, <1>3, <2>1, <3>1, GreatestNatural
  <2>3. Latest(l, n) = l[m].type
    BY <1>3, <2>1 DEF Latest
  <2>4. l[m].type \in {"added", "removed"} /\ l[m] = [name |-> n, type |-> l[m].type]
    BY <1>1, <2>2 DEF Event
  <2>5. ASSUME l[m].type = "added" PROVE n \in InUse(l)
    <3>1. l[m] = [name |-> n, type |-> "added"]
      BY <2>4, <2>5
    <3>2. \A j \in DOMAIN l : j > m => l[j].name # n
      BY <1>1, <2>2
    <3> QED
      BY <2>2, <3>1, <3>2 DEF InUse
  <2>6. ASSUME n \in InUse(l) PROVE l[m].type = "added"
    <3>1. PICK i \in DOMAIN l : /\ l[i] = [name |-> n, type |-> "added"]
                                /\ \A j \in DOMAIN l : j > i => l[j].name # n
      BY <2>6 DEF InUse
    <3>2. i \in at
      BY <3>1
    <3>3. i = m
      BY <1>1, <2>2, <3>1, <3>2
    <3> QED
      BY <3>1, <3>3
  <2> QED
    BY <2>2, <2>3, <2>4, <2>5, <2>6, StoreReadsAssumption
<1> QED
  BY <1>2, <1>3

LEMMA ActiveIsInUse ==
  ASSUME NEW s, log[s] \in Seq(Event)
  PROVE  getActiveByStore(s) = InUse(log[s])
BY LatestDecides DEF getActiveByStore, InUse

\* A limit that all of a set fits within cuts nothing, in an order or in none.
LEMMA WithinLimit ==
  ASSUME NEW S, IsFiniteSet(S), Cardinality(S) <= Limit, NEW x \in S, NEW T \in SUBSET S, x \notin T
  PROVE  Cardinality(T) < Limit
<1>1. T \in SUBSET (S \ {x})
  OBVIOUS
<1>2. IsFiniteSet(S \ {x}) /\ Cardinality(S \ {x}) = Cardinality(S) - 1
  BY FS_RemoveElement
<1>3. Cardinality(T) <= Cardinality(S) - 1 /\ Cardinality(T) \in Nat
  BY <1>1, <1>2, FS_Subset, FS_CardinalityType
<1> QED
  BY <1>3, FS_CardinalityType, StoreReadsAssumption

LEMMA AnyOfAll ==
  ASSUME NEW S, IsFiniteSet(S), NEW limit \in Nat, Cardinality(S) <= limit
  PROVE  AnyOf(S, limit) = {S}
<1>1. Cardinality(S) \in Nat
  BY FS_CardinalityType
<1>2. Least(limit, Cardinality(S)) = Cardinality(S)
  BY <1>1 DEF Least
<1>3. \A T \in SUBSET S : Cardinality(T) = Cardinality(S) => T = S
  BY FS_Subset
<1> QED
  BY <1>2, <1>3 DEF AnyOf, kSubset

LEMMA AnyOfSome ==
  ASSUME NEW S, IsFiniteSet(S), NEW limit \in Nat, NEW T \in AnyOf(S, limit)
  PROVE  T \subseteq S /\ IsFiniteSet(T) /\ Cardinality(T) <= limit
<1>1. T \in SUBSET S /\ Cardinality(T) = Least(limit, Cardinality(S)) /\ Cardinality(S) \in Nat
  BY FS_CardinalityType DEF AnyOf, kSubset
<1> QED
  BY <1>1, FS_Subset DEF Least

\* The text search finds no more stores than the limit, and all there are within it.
LEMMA TextSearchLimits ==
  ASSUME NEW query \in Query, stores \subseteq Store
  PROVE  /\ searchByText(query) \subseteq query.text \cap stores
         /\ IsFiniteSet(searchByText(query)) /\ Cardinality(searchByText(query)) <= Limit
         /\ Cardinality(query.text \cap stores) <= Limit => searchByText(query) = query.text \cap stores
<1> DEFINE S == query.text \cap stores
           F == searchByText(query)
<1>1. IsFiniteSet(S) /\ S \subseteq Nat
  BY StoreReadsAssumption, FS_Subset
<1>2. F = {x \in S : Cardinality({y \in S : y < x}) < Limit}
  BY DEF searchByText, FirstBy
<1>3. IsFiniteSet(F) /\ F \subseteq S /\ Cardinality(F) \in Nat
  BY <1>1, <1>2, FS_Subset, FS_CardinalityType
<1>4. Cardinality(F) <= Limit
  <2>1. CASE F = {}
    BY <2>1, FS_EmptySet, StoreReadsAssumption
  <2>2. CASE F # {}
    <3> DEFINE Before(x) == {y \in S : y < x}
               Left == {k \in Nat : \E x \in F : k = Limit - Cardinality(Before(x))}
    <3> HIDE DEF S, F
    <3>1. \A x \in F : IsFiniteSet(Before(x)) /\ Cardinality(Before(x)) \in Nat /\ Cardinality(Before(x)) < Limit
      <4>1. ASSUME NEW x \in F PROVE IsFiniteSet(Before(x))
        BY <1>1, FS_Subset
      <4> HIDE DEF Before
      <4>2. \A x \in F : Cardinality(Before(x)) < Limit
        BY <1>2 DEF Before
      <4> QED
        BY <4>1, <4>2, FS_CardinalityType
    <3> HIDE DEF Before
    <3>2. PICK x \in F : TRUE
      BY <2>2
    <3>3. Left # {} /\ Left \in SUBSET Nat
      <4>1. Limit - Cardinality(Before(x)) \in Nat
        BY <3>1, StoreReadsAssumption
      <4> QED
        BY <4>1
    <3>4. PICK k \in Left : \A j \in Left : k <= j
      <4> HIDE DEF Left
      <4> QED
        BY <3>3, LeastNatural
    <3>5. PICK m \in F : k = Limit - Cardinality(Before(m))
      OBVIOUS
    <3>6. ASSUME NEW y \in F PROVE y <= m
      <4> SUFFICES ASSUME m < y PROVE FALSE
        BY <1>1, <1>3
      <4>1. Before(m) \cup {m} \subseteq Before(y) /\ m \notin Before(m)
        <5>1. m \in S /\ m \in Nat /\ y \in Nat /\ y \in S
          BY <1>1, <1>3
        <5>2. \A z \in Before(m) : z \in S /\ z \in Nat /\ z < m
          BY <1>1 DEF Before
        <5>3. \A z \in Before(m) \cup {m} : z \in S /\ z < y
          BY <5>1, <5>2
        <5>4. m \notin Before(m)
          BY <5>1, <5>2
        <5>5. \A z : z \in S /\ z < y => z \in Before(y)
          BY DEF Before
        <5> QED
          BY <5>3, <5>4, <5>5
      <4>2. Cardinality(Before(m) \cup {m}) = Cardinality(Before(m)) + 1
        BY <3>1, <4>1, FS_AddElement
      <4>3. Cardinality(Before(m)) + 1 <= Cardinality(Before(y))
        BY <3>1, <4>1, <4>2, FS_Subset
      <4>4. Limit - Cardinality(Before(y)) \in Left
        BY <3>1, StoreReadsAssumption
      <4>5. k <= Limit - Cardinality(Before(y))
        BY <3>4, <4>4
      <4> QED
        BY <3>1, <3>5, <4>3, <4>5, StoreReadsAssumption
    <3>7. F \subseteq Before(m) \cup {m}
      BY <1>1, <1>3, <3>6 DEF Before
    <3>8. IsFiniteSet(Before(m) \cup {m}) /\ Cardinality(Before(m) \cup {m}) <= Cardinality(Before(m)) + 1
      <4>1. m \notin Before(m)
        BY <1>1, <1>3 DEF Before
      <4>2. Cardinality(Before(m) \cup {m}) = Cardinality(Before(m)) + 1
        BY <3>1, <4>1, FS_AddElement
      <4> QED
        BY <3>1, <4>2, FS_AddElement
    <3>9. Cardinality(F) <= Cardinality(Before(m) \cup {m})
      BY <3>7, <3>8, FS_Subset
    <3>10. Cardinality(Before(m) \cup {m}) \in Nat
      BY <3>8, FS_CardinalityType
    <3> QED
      BY <1>3, <3>1, <3>8, <3>9, <3>10, StoreReadsAssumption
  <2> QED
    BY <2>1, <2>2
<1>5. ASSUME Cardinality(S) <= Limit PROVE F = S
  <2>1. ASSUME NEW x \in S PROVE Cardinality({y \in S : y < x}) < Limit
    BY <1>1, <1>5, WithinLimit
  <2> QED
    BY <1>2, <2>1
<1> QED
  BY <1>3, <1>4, <1>5

Small(S) == IsFiniteSet(S) /\ Cardinality(S) <= Limit

TablesOK ==
  /\ stores \subseteq Store /\ catalogNames \subseteq Name /\ follows \subseteq Store
  /\ log \in [Store -> Seq(Event)]

\* A search: its fields, the limits it keeps whatever is written meanwhile, and
\* what its queries found as long as nothing is.
SearchFields ==
  {"kind", "undisturbed", "next", "query", "text", "names", "matched", "shown", "subscribed"}

Searching(x) ==
  /\ x = [f \in SearchFields |-> x[f]] /\ x.kind = "search"
  /\ x.undisturbed \in BOOLEAN /\ x.query \in Query
  /\ x.next \in {"matches", "stores", "follows", "answer"}

SearchLimits(x) ==
  /\ x.text = Null \/ Small(x.text)
  /\ x.next # "matches" => x.text # Null
  /\ x.next \in {"follows", "answer"} => Small(x.shown)

Hydrated(matched, text) ==
  FirstBy({p[1] : p \in matched} \ text, LAMBDA s, t : IdRank[s] < IdRank[t], Limit) \cap stores

SearchIsCurrent(x) ==
  x.undisturbed =>
    /\ x.text = Null \/ x.text = searchByText(x.query)
    /\ x.names = Null \/ x.names \in searchByName(x.query)
    /\ x.next # "matches" => x.names # Null /\ x.matched = getActiveStoresForNames(x.names)
    /\ x.next \in {"follows", "answer"} =>
         \E chosen \in AnyOf(Hydrated(x.matched, x.text), Limit - Cardinality(x.text)) :
           x.shown = x.text \cup chosen
    /\ x.next = "answer" => x.subscribed = x.shown \cap follows

\* A profile or a list: its fields, the parts it has as long as nothing is
\* written, and the history a profile keeps whatever is.
PartsOf(kind) == IF kind = "profile" THEN ProfileParts ELSE Parts

Composing(x) ==
  /\ x = [kind |-> x.kind, undisturbed |-> x.undisturbed, shown |-> x.shown, todo |-> x.todo, got |-> x.got]
  /\ x.kind \in {"profile", "list"} /\ x.undisturbed \in BOOLEAN /\ x.shown \subseteq Store
  /\ x.todo \subseteq x.shown \X PartsOf(x.kind)
  /\ DOMAIN x.got = (x.shown \X PartsOf(x.kind)) \ x.todo

PartsAreCurrent(x) ==
  x.undisturbed =>
    /\ \A p \in DOMAIN x.got : x.got[p] = PartOf(p[1], p[2])
    /\ x.kind = "list" => x.shown = follows

HistoryIsKept(x) ==
  \A s \in x.shown :
    /\ <<s, "events">> \in DOMAIN x.got =>
         \E i \in 0..Len(log[s]) : x.got[<<s, "events">>] = SubSeq(log[s], 1, i)
    /\ <<s, "technologies">> \in DOMAIN x.got =>
         \E i \in 0..Len(log[s]) : x.got[<<s, "technologies">>] = InUse(SubSeq(log[s], 1, i))

ReadOK(x) ==
  \/ x = NoRead
  \/ Searching(x) /\ SearchLimits(x) /\ SearchIsCurrent(x)
  \/ Composing(x) /\ PartsAreCurrent(x) /\ HistoryIsKept(x)

Requests == {read[r] : r \in Read}

ReadsInv == TablesOK /\ read = [r \in Read |-> read[r]] /\ \A x \in Requests : ReadOK(x)

LEMMA ReadsStart == ReadInit => ReadsInv
<1> SUFFICES ASSUME ReadInit PROVE ReadsInv
  OBVIOUS
<1>1. TablesOK
  BY StoreReadsAssumption DEF ReadInit, TablesOK
<1>2. read = [r \in Read |-> read[r]] /\ \A x \in Requests : ReadOK(x)
  BY DEF ReadInit, ReadOK, Requests
<1> QED
  BY <1>1, <1>2 DEF ReadsInv

LEMMA ReadFrame ==
  ASSUME UNCHANGED tableVars, NEW x
  PROVE  ReadOK(x)' <=> ReadOK(x)
<1> USE DEF tableVars
<1>1. SearchIsCurrent(x)' <=> SearchIsCurrent(x)
  BY DEF SearchIsCurrent, searchByText, searchByName, getActiveStoresForNames, Hydrated, FirstBy
<1>2. PartsAreCurrent(x)' <=> PartsAreCurrent(x)
  BY DEF PartsAreCurrent, PartOf, getActiveByStore
<1>3. HistoryIsKept(x)' <=> HistoryIsKept(x)
  BY DEF HistoryIsKept, InUse
<1>4. /\ Searching(x)' <=> Searching(x)
      /\ SearchLimits(x)' <=> SearchLimits(x)
      /\ Composing(x)' <=> Composing(x)
  BY DEF Searching, SearchLimits, Composing, Small
<1> QED
  BY <1>1, <1>2, <1>3, <1>4 DEF ReadOK

\* A query that leaves its request in order leaves all in order.
LEMMA Asking ==
  ASSUME ReadsInv, NEW r \in Read, NEW v, Go(r, v), ReadOK(v)
  PROVE  ReadsInv'
<1>1. read' = [read EXCEPT ![r] = v] /\ UNCHANGED tableVars
  BY DEF Go
<1>2. TablesOK'
  BY <1>1 DEF ReadsInv, TablesOK, tableVars
<1>3. read' = [q \in Read |-> IF q = r THEN v ELSE read[q]]
  BY <1>1 DEF ReadsInv
<1>4. ASSUME NEW x \in Requests' PROVE ReadOK(x)'
  <2>1. PICK q \in Read : x = read'[q]
    BY DEF Requests
  <2>2. ReadOK(x)
    BY <1>3, <2>1 DEF ReadsInv, Requests
  <2> QED
    BY <1>1, <2>2, ReadFrame
<1>5. read' = [q \in Read |-> read'[q]]
  BY <1>3
<1> QED
  BY <1>2, <1>4, <1>5 DEF ReadsInv

\* A log that may have grown still begins with every history it began with.
LEMMA HistoriesStay ==
  ASSUME NEW s \in Store, log[s] \in Seq(Event), NEW e \in Event,
         log'[s] = log[s] \/ log'[s] = Append(log[s], e), NEW i \in 0..Len(log[s])
  PROVE  i \in 0..Len(log'[s]) /\ SubSeq(log'[s], 1, i) = SubSeq(log[s], 1, i)
<1>1. CASE log'[s] = log[s]
  BY <1>1
<1>2. CASE log'[s] = Append(log[s], e)
  <2> DEFINE l == log[s]
  <2>1. PICK k : k = Append(l, e)
    OBVIOUS
  <2>2. Len(k) = Len(l) + 1 /\ k \in Seq(Event) /\ \A j \in 1..Len(l) : k[j] = l[j]
    BY <2>1
  <2>3. SubSeq(k, 1, i) = SubSeq(l, 1, i)
    BY <2>2
  <2> QED
    BY <1>2, <2>1, <2>2, <2>3
<1> QED
  BY <1>1, <1>2

\* A write disturbs every request: what it said of the present is void, its
\* limits and its history are not.
LEMMA Writing ==
  ASSUME ReadsInv, Write, TablesOK',
         \A s \in Store : log'[s] = log[s] \/ \E e \in Event : log'[s] = Append(log[s], e)
  PROVE  ReadsInv'
<1>1. read' = [r \in Read |-> IF read[r] = NoRead THEN NoRead ELSE [read[r] EXCEPT !.undisturbed = FALSE]]
  BY DEF Write
<1>2. ASSUME NEW y \in Requests' PROVE ReadOK(y)'
  <2>1. PICK x \in Requests : y = IF x = NoRead THEN NoRead ELSE [x EXCEPT !.undisturbed = FALSE]
    BY <1>1 DEF Requests
  <2>2. CASE x = NoRead
    BY <2>1, <2>2 DEF ReadOK, NoRead
  <2>3. CASE x # NoRead /\ Searching(x) /\ SearchLimits(x)
    <3>1. y = [x EXCEPT !.undisturbed = FALSE] /\ x = [f \in SearchFields |-> x[f]]
      BY <2>1, <2>3 DEF Searching
    <3>2. /\ y.undisturbed = FALSE /\ y.next = x.next /\ y.query = x.query /\ y.text = x.text
          /\ y.names = x.names /\ y.matched = x.matched /\ y.shown = x.shown /\ y.subscribed = x.subscribed
          /\ y = [f \in SearchFields |-> y[f]] /\ y.kind = x.kind
      BY <3>1 DEF SearchFields
    <3>3. Searching(y)'
      BY <2>3, <3>2 DEF Searching
    <3>4. SearchLimits(y)'
      BY <2>3, <3>2 DEF SearchLimits, Small
    <3>5. SearchIsCurrent(y)'
      BY <3>2 DEF SearchIsCurrent
    <3> QED
      BY <3>3, <3>4, <3>5 DEF ReadOK
  <2>4. CASE x # NoRead /\ Composing(x) /\ HistoryIsKept(x)
    <3>1. y = [kind |-> x.kind, undisturbed |-> FALSE, shown |-> x.shown, todo |-> x.todo, got |-> x.got]
      BY <2>1, <2>4 DEF Composing
    <3>2. /\ y.kind = x.kind /\ y.undisturbed = FALSE /\ y.shown = x.shown /\ y.todo = x.todo
          /\ y.got = x.got
      BY <3>1
    <3>3. Composing(y)'
      BY <2>4, <3>1, <3>2 DEF Composing, PartsOf, ProfileParts, Parts
    <3>4. PartsAreCurrent(y)'
      BY <3>2 DEF PartsAreCurrent
    <3>5. HistoryIsKept(y)'
      <4>1. ASSUME NEW s \in x.shown, NEW i \in 0..Len(log[s])
            PROVE  i \in 0..Len(log'[s]) /\ SubSeq(log'[s], 1, i) = SubSeq(log[s], 1, i)
        <5>1. s \in Store /\ log[s] \in Seq(Event)
          BY <2>4 DEF Composing, ReadsInv, TablesOK
        <5>2. CASE log'[s] = log[s]
          BY <5>2
        <5>3. CASE \E e \in Event : log'[s] = Append(log[s], e)
          BY <5>1, <5>3, HistoriesStay
        <5> QED
          BY <5>1, <5>2, <5>3
      <4>2. ASSUME NEW s \in x.shown, <<s, "events">> \in DOMAIN x.got
            PROVE  \E i \in 0..Len(log'[s]) : x.got[<<s, "events">>] = SubSeq(log'[s], 1, i)
        BY <2>4, <4>1, <4>2 DEF HistoryIsKept
      <4>3. ASSUME NEW s \in x.shown, <<s, "technologies">> \in DOMAIN x.got
            PROVE  \E i \in 0..Len(log'[s]) : x.got[<<s, "technologies">>] = InUse(SubSeq(log'[s], 1, i))
        <5>1. PICK i \in 0..Len(log[s]) : x.got[<<s, "technologies">>] = InUse(SubSeq(log[s], 1, i))
          BY <2>4, <4>3 DEF HistoryIsKept
        <5> QED
          BY <4>1, <5>1
      <4>4. \A s \in y.shown :
              /\ <<s, "events">> \in DOMAIN y.got =>
                   \E i \in 0..Len(log'[s]) : y.got[<<s, "events">>] = SubSeq(log'[s], 1, i)
              /\ <<s, "technologies">> \in DOMAIN y.got =>
                   \E i \in 0..Len(log'[s]) : y.got[<<s, "technologies">>] = InUse(SubSeq(log'[s], 1, i))
        BY <3>2, <4>2, <4>3
      <4> QED
        BY <4>4 DEF HistoryIsKept, InUse
    <3> QED
      BY <3>3, <3>4, <3>5 DEF ReadOK
  <2> QED
    BY <2>2, <2>3, <2>4 DEF ReadsInv, ReadOK
<1>3. read' = [r \in Read |-> read'[r]]
  BY <1>1
<1> QED
  BY <1>2, <1>3 DEF ReadsInv

LEMMA WriteSteps ==
  ASSUME ReadsInv, NEW s \in Store,
         \/ \E new \in SUBSET Store : AddStores(new)
         \/ ToggleFollow(s)
         \/ \E page \in Page : RecordCrawl(s, page) \/ RecordMetadata(s, page) \/ RecordTechnologies(s, page)
         \/ SyncCatalog
  PROVE  ReadsInv'
<1>1. CASE \E new \in SUBSET Store : AddStores(new)
  BY <1>1, Writing DEF AddStores, ReadsInv, TablesOK
<1>2. CASE ToggleFollow(s)
  BY <1>2, Writing DEF ToggleFollow, ReadsInv, TablesOK
<1>3. CASE SyncCatalog
  BY <1>3, Writing DEF SyncCatalog, ReadsInv, TablesOK
<1>4. ASSUME NEW page \in Page, RecordCrawl(s, page) \/ RecordMetadata(s, page)
      PROVE  ReadsInv'
  BY <1>4, Writing DEF RecordCrawl, RecordMetadata, ReadsInv, TablesOK
<1>5. ASSUME NEW page \in Page, RecordTechnologies(s, page)
      PROVE  ReadsInv'
  <2>1. PICK n \in Name :
          log' = [log EXCEPT ![s] =
            Append(@, [name |-> n, type |-> IF n \in page.technologies THEN "added" ELSE "removed"])]
    BY <1>5 DEF RecordTechnologies
  <2> DEFINE e == [name |-> n, type |-> IF n \in page.technologies THEN "added" ELSE "removed"]
  <2>2. e \in Event /\ log' = [log EXCEPT ![s] = Append(@, e)]
    BY <2>1 DEF Event
  <2> HIDE DEF e
  <2>3. log \in [Store -> Seq(Event)]
    BY DEF ReadsInv, TablesOK
  <2>4. Append(log[s], e) \in Seq(Event)
    BY <2>2, <2>3
  <2>5. log' \in [Store -> Seq(Event)]
    BY <2>2, <2>3, <2>4
  <2>6. TablesOK'
    BY <1>5, <2>5 DEF RecordTechnologies, ReadsInv, TablesOK
  <2>7. \A t \in Store : log'[t] = log[t] \/ \E f \in Event : log'[t] = Append(log[t], f)
    BY <2>2, <2>3
  <2> QED
    BY <1>5, <2>6, <2>7, Writing DEF RecordTechnologies
<1> QED
  BY <1>1, <1>2, <1>3, <1>4, <1>5

LEMMA StartSearchStep ==
  ASSUME ReadsInv, NEW r \in Read, NEW query \in Query, StartSearch(r, query)
  PROVE  ReadsInv'
<1> DEFINE v == [kind |-> "search", undisturbed |-> TRUE, next |-> "matches", query |-> query,
                 text |-> Null, names |-> Null, matched |-> {}, shown |-> {}, subscribed |-> {}]
<1>1. /\ v.kind = "search" /\ v.undisturbed = TRUE /\ v.next = "matches" /\ v.query = query
      /\ v.text = Null /\ v.names = Null
  OBVIOUS
<1>2. v = [f \in SearchFields |-> v[f]]
  <2>1. DOMAIN v = SearchFields
    BY DEF SearchFields
  <2>2. v = [f \in DOMAIN v |-> v[f]]
    OBVIOUS
  <2> QED
    BY <2>1, <2>2
<1>3. Go(r, v)
  BY DEF StartSearch
<1> HIDE DEF v
<1>4. ReadOK(v)
  BY <1>1, <1>2 DEF ReadOK, Searching, SearchLimits, SearchIsCurrent
<1> QED
  BY <1>3, <1>4, Asking

\* The search a query belongs to, with what is known of it.
LEMMA SearchRead ==
  ASSUME ReadsInv, NEW r \in Read, read[r].kind = "search"
  PROVE  Searching(read[r]) /\ SearchLimits(read[r]) /\ SearchIsCurrent(read[r])
BY DEF ReadsInv, Requests, ReadOK, NoRead, Composing

LEMMA SearchTextStep ==
  ASSUME ReadsInv, NEW r \in Read, SearchText(r)
  PROVE  ReadsInv'
<1>1. PICK x : x = read[r] /\ x.next = "matches"
  BY DEF SearchText
<1>2. Searching(x) /\ SearchLimits(x) /\ SearchIsCurrent(x)
  BY <1>1, SearchRead DEF SearchText
<1>3. PICK v : v = [x EXCEPT !.text = searchByText(x.query)]
  OBVIOUS
<1>4. /\ v = [f \in SearchFields |-> v[f]] /\ v.text = searchByText(x.query)
      /\ v.kind = x.kind /\ v.undisturbed = x.undisturbed /\ v.next = x.next /\ v.query = x.query
      /\ v.names = x.names /\ v.matched = x.matched /\ v.shown = x.shown /\ v.subscribed = x.subscribed
  BY <1>2, <1>3 DEF Searching, SearchFields
<1>5. Small(searchByText(x.query))
  BY <1>2, TextSearchLimits DEF Searching, Small, ReadsInv, TablesOK
<1>6. Searching(v) /\ SearchLimits(v) /\ SearchIsCurrent(v)
  BY <1>1, <1>2, <1>4, <1>5 DEF Searching, SearchLimits, SearchIsCurrent
<1>7. Go(r, v)
  BY <1>1, <1>3 DEF SearchText
<1> QED
  BY <1>6, <1>7, Asking DEF ReadOK

LEMMA SearchCatalogStep ==
  ASSUME ReadsInv, NEW r \in Read, SearchCatalog(r)
  PROVE  ReadsInv'
<1>1. PICK x : x = read[r] /\ x.next = "matches"
  BY DEF SearchCatalog
<1>2. Searching(x) /\ SearchLimits(x) /\ SearchIsCurrent(x)
  BY <1>1, SearchRead DEF SearchCatalog
<1>3. PICK names \in searchByName(x.query) : Go(r, [x EXCEPT !.names = names])
  BY <1>1 DEF SearchCatalog
<1>4. PICK v : v = [x EXCEPT !.names = names]
  OBVIOUS
<1>5. /\ v = [f \in SearchFields |-> v[f]] /\ v.names = names
      /\ v.kind = x.kind /\ v.undisturbed = x.undisturbed /\ v.next = x.next /\ v.query = x.query
      /\ v.text = x.text /\ v.matched = x.matched /\ v.shown = x.shown /\ v.subscribed = x.subscribed
  BY <1>2, <1>4 DEF Searching, SearchFields
<1>6. Searching(v) /\ SearchLimits(v) /\ SearchIsCurrent(v)
  BY <1>1, <1>2, <1>3, <1>5 DEF Searching, SearchLimits, SearchIsCurrent
<1> QED
  BY <1>3, <1>4, <1>6, Asking DEF ReadOK

LEMMA FindActiveStoresStep ==
  ASSUME ReadsInv, NEW r \in Read, FindActiveStores(r)
  PROVE  ReadsInv'
<1>1. PICK x : x = read[r] /\ x.next = "matches" /\ x.text # Null /\ x.names # Null
  BY DEF FindActiveStores
<1>2. Searching(x) /\ SearchLimits(x) /\ SearchIsCurrent(x)
  BY <1>1, SearchRead DEF FindActiveStores
<1>3. PICK m : m = getActiveStoresForNames(x.names)
  OBVIOUS
<1>4. PICK v : v = [x EXCEPT !.next = "stores", !.matched = m]
  OBVIOUS
<1>5. /\ v = [f \in SearchFields |-> v[f]] /\ v.next = "stores" /\ v.matched = m
      /\ v.kind = x.kind /\ v.undisturbed = x.undisturbed /\ v.query = x.query
      /\ v.text = x.text /\ v.names = x.names /\ v.shown = x.shown /\ v.subscribed = x.subscribed
  BY <1>2, <1>4 DEF Searching, SearchFields
<1>6. Searching(v) /\ SearchLimits(v) /\ SearchIsCurrent(v)
  BY <1>1, <1>2, <1>3, <1>5 DEF Searching, SearchLimits, SearchIsCurrent
<1>7. Go(r, v)
  BY <1>1, <1>3, <1>4 DEF FindActiveStores
<1> QED
  BY <1>6, <1>7, Asking DEF ReadOK

LEMMA HydrateStoresStep ==
  ASSUME ReadsInv, NEW r \in Read, HydrateStores(r)
  PROVE  ReadsInv'
<1>1. PICK x : x = read[r] /\ x.next = "stores"
  BY DEF HydrateStores
<1>2. Searching(x) /\ SearchLimits(x) /\ SearchIsCurrent(x)
  BY <1>1, SearchRead DEF HydrateStores
<1>3. PICK chosen \in AnyOf(Hydrated(x.matched, x.text), Limit - Cardinality(x.text)) :
        Go(r, [x EXCEPT !.next = "follows", !.shown = x.text \cup chosen])
  BY <1>1 DEF HydrateStores, Hydrated
<1>4. PICK v : v = [x EXCEPT !.next = "follows", !.shown = x.text \cup chosen]
  OBVIOUS
<1>5. /\ v = [f \in SearchFields |-> v[f]] /\ v.next = "follows" /\ v.shown = x.text \cup chosen
      /\ v.kind = x.kind /\ v.undisturbed = x.undisturbed /\ v.query = x.query
      /\ v.text = x.text /\ v.names = x.names /\ v.matched = x.matched /\ v.subscribed = x.subscribed
  BY <1>2, <1>4 DEF Searching, SearchFields
<1>6. Small(x.text) /\ Cardinality(x.text) \in Nat /\ Limit - Cardinality(x.text) \in Nat
  BY <1>1, <1>2, FS_CardinalityType, StoreReadsAssumption DEF SearchLimits, Small
<1>7. Small(x.text \cup chosen)
  <2>1. IsFiniteSet(Hydrated(x.matched, x.text))
    BY StoreReadsAssumption, FS_Subset DEF Hydrated, FirstBy, ReadsInv, TablesOK
  <2>2. IsFiniteSet(chosen) /\ Cardinality(chosen) <= Limit - Cardinality(x.text)
    BY <1>3, <1>6, <2>1, AnyOfSome
  <2>3. /\ IsFiniteSet(x.text \cup chosen)
        /\ Cardinality(x.text \cup chosen) =
             Cardinality(x.text) + Cardinality(chosen) - Cardinality(x.text \cap chosen)
    BY <1>6, <2>2, FS_Union DEF Small
  <2>4. Cardinality(chosen) \in Nat /\ Cardinality(x.text \cap chosen) \in Nat
    BY <2>2, FS_CardinalityType, FS_Subset
  <2> QED
    BY <1>6, <2>2, <2>3, <2>4, StoreReadsAssumption DEF Small
<1>8. Searching(v) /\ SearchLimits(v) /\ SearchIsCurrent(v)
  BY <1>1, <1>2, <1>3, <1>5, <1>7 DEF Searching, SearchLimits, SearchIsCurrent
<1> QED
  BY <1>3, <1>4, <1>8, Asking DEF ReadOK

LEMMA AnnotateFollowsStep ==
  ASSUME ReadsInv, NEW r \in Read, AnnotateFollows(r)
  PROVE  ReadsInv'
<1>1. PICK x : x = read[r] /\ x.next = "follows"
  BY DEF AnnotateFollows
<1>2. Searching(x) /\ SearchLimits(x) /\ SearchIsCurrent(x)
  BY <1>1, SearchRead DEF AnnotateFollows
<1>3. PICK v : v = [x EXCEPT !.next = "answer", !.subscribed = x.shown \cap follows]
  OBVIOUS
<1>4. /\ v = [f \in SearchFields |-> v[f]] /\ v.next = "answer" /\ v.subscribed = x.shown \cap follows
      /\ v.kind = x.kind /\ v.undisturbed = x.undisturbed /\ v.query = x.query
      /\ v.text = x.text /\ v.names = x.names /\ v.matched = x.matched /\ v.shown = x.shown
  BY <1>2, <1>3 DEF Searching, SearchFields
<1>5. Searching(v) /\ SearchLimits(v) /\ SearchIsCurrent(v)
  BY <1>1, <1>2, <1>4 DEF Searching, SearchLimits, SearchIsCurrent
<1>6. Go(r, v)
  BY <1>1, <1>3 DEF AnnotateFollows
<1> QED
  BY <1>5, <1>6, Asking DEF ReadOK

LEMMA ComposeStep ==
  ASSUME ReadsInv, NEW r \in Read, NEW kind \in {"profile", "list"}, NEW shown \in SUBSET Store,
         Compose(r, kind, shown, PartsOf(kind)), kind = "list" => shown = follows
  PROVE  ReadsInv'
<1> DEFINE v == [kind |-> kind, undisturbed |-> TRUE, shown |-> shown,
                 todo |-> shown \X PartsOf(kind), got |-> <<>>]
<1>1. /\ v.kind = kind /\ v.undisturbed = TRUE /\ v.shown = shown
      /\ v.todo = shown \X PartsOf(kind) /\ v.got = <<>>
  OBVIOUS
<1>2. v = [kind |-> v.kind, undisturbed |-> v.undisturbed, shown |-> v.shown, todo |-> v.todo, got |-> v.got]
  OBVIOUS
<1>3. Go(r, v)
  BY DEF Compose
<1> HIDE DEF v
<1>4. DOMAIN v.got = {}
  BY <1>1
<1>5. Composing(v)
  BY <1>1, <1>2, <1>4 DEF Composing
<1>6. PartsAreCurrent(v) /\ HistoryIsKept(v)
  BY <1>1, <1>4 DEF PartsAreCurrent, HistoryIsKept
<1> QED
  BY <1>3, <1>5, <1>6, Asking DEF ReadOK

LEMMA RespondStep ==
  ASSUME ReadsInv, NEW r \in Read, Respond(r)
  PROVE  ReadsInv'
BY Asking DEF Respond, ReadOK

LEMMA ComposedRead ==
  ASSUME ReadsInv, NEW r \in Read, read[r].kind \in {"profile", "list"}
  PROVE  Composing(read[r]) /\ PartsAreCurrent(read[r]) /\ HistoryIsKept(read[r])
BY DEF ReadsInv, Requests, ReadOK, NoRead, Searching

\* A part that is read is that of this moment; the others stay as they were read.
LEMMA ReadPartStep ==
  ASSUME ReadsInv, NEW r \in Read, NEW p \in Store \X ProfileParts, ReadPart(r, p)
  PROVE  ReadsInv'
<1>1. PICK x : x = read[r] /\ p \in x.todo
  BY DEF ReadPart
<1>2. Composing(x) /\ PartsAreCurrent(x) /\ HistoryIsKept(x)
  BY <1>1, ComposedRead DEF ReadPart
<1>3. PICK got : got = [q \in DOMAIN x.got \cup {p} |-> IF q = p THEN PartOf(p[1], p[2]) ELSE x.got[q]]
  OBVIOUS
<1>4. PICK v : v = [x EXCEPT !.todo = x.todo \ {p}, !.got = got]
  OBVIOUS
<1>5. v = [kind |-> x.kind, undisturbed |-> x.undisturbed, shown |-> x.shown, todo |-> x.todo \ {p}, got |-> got]
  BY <1>2, <1>4 DEF Composing
<1>6. /\ v.kind = x.kind /\ v.undisturbed = x.undisturbed /\ v.shown = x.shown
      /\ v.todo = x.todo \ {p} /\ v.got = got
  BY <1>5
<1>7. p \in x.shown \X PartsOf(x.kind)
  BY <1>1, <1>2 DEF Composing
<1>8. /\ DOMAIN got = DOMAIN x.got \cup {p}
      /\ got[p] = PartOf(p[1], p[2])
      /\ \A q \in DOMAIN x.got : q # p /\ got[q] = x.got[q]
  BY <1>1, <1>2, <1>3 DEF Composing
<1>9. Composing(v)
  <2>1. DOMAIN v.got = (v.shown \X PartsOf(v.kind)) \ v.todo
    BY <1>1, <1>2, <1>6, <1>7, <1>8 DEF Composing
  <2>2. v.todo \subseteq v.shown \X PartsOf(v.kind)
    BY <1>2, <1>6 DEF Composing
  <2> QED
    BY <1>2, <1>5, <1>6, <2>1, <2>2 DEF Composing
<1>10. PartsAreCurrent(v)
  BY <1>2, <1>6, <1>8 DEF PartsAreCurrent
<1>11. HistoryIsKept(v)
  <2>1. ASSUME NEW s \in v.shown, <<s, "events">> \in DOMAIN v.got
        PROVE  \E i \in 0..Len(log[s]) : v.got[<<s, "events">>] = SubSeq(log[s], 1, i)
    <3>1. log[s] \in Seq(Event)
      BY <1>2, <1>6 DEF Composing, ReadsInv, TablesOK
    <3>2. CASE p = <<s, "events">>
      <4>1. got[p] = log[s]
        BY <1>8, <3>2 DEF PartOf
      <4>2. log[s] = SubSeq(log[s], 1, Len(log[s])) /\ Len(log[s]) \in 0..Len(log[s])
        BY <3>1
      <4> QED
        BY <1>6, <3>2, <4>1, <4>2
    <3>3. CASE p # <<s, "events">>
      <4>1. PICK q : q = <<s, "events">>
        OBVIOUS
      <4>2. q \in DOMAIN x.got /\ got[q] = x.got[q]
        BY <1>6, <1>8, <2>1, <3>3, <4>1
      <4>3. \E i \in 0..Len(log[s]) : x.got[q] = SubSeq(log[s], 1, i)
        BY <1>2, <1>6, <2>1, <4>1, <4>2 DEF HistoryIsKept
      <4> QED
        BY <1>6, <4>1, <4>2, <4>3
    <3> QED
      BY <3>2, <3>3
  <2>2. ASSUME NEW s \in v.shown, <<s, "technologies">> \in DOMAIN v.got
        PROVE  \E i \in 0..Len(log[s]) : v.got[<<s, "technologies">>] = InUse(SubSeq(log[s], 1, i))
    <3>1. log[s] \in Seq(Event)
      BY <1>2, <1>6 DEF Composing, ReadsInv, TablesOK
    <3>2. CASE p = <<s, "technologies">>
      <4>1. got[p] = InUse(log[s])
        BY <1>8, <3>1, <3>2, ActiveIsInUse DEF PartOf
      <4>2. log[s] = SubSeq(log[s], 1, Len(log[s])) /\ Len(log[s]) \in 0..Len(log[s])
        BY <3>1
      <4> QED
        BY <1>6, <3>2, <4>1, <4>2
    <3>3. CASE p # <<s, "technologies">>
      <4>1. PICK q : q = <<s, "technologies">>
        OBVIOUS
      <4>2. q \in DOMAIN x.got /\ got[q] = x.got[q]
        BY <1>6, <1>8, <2>2, <3>3, <4>1
      <4>3. \E i \in 0..Len(log[s]) : x.got[q] = InUse(SubSeq(log[s], 1, i))
        BY <1>2, <1>6, <2>2, <4>1, <4>2 DEF HistoryIsKept
      <4> QED
        BY <1>6, <4>1, <4>2, <4>3
    <3> QED
      BY <3>2, <3>3
  <2> QED
    BY <2>1, <2>2 DEF HistoryIsKept
<1>12. Go(r, v)
  BY <1>1, <1>3, <1>4 DEF ReadPart
<1> QED
  BY <1>9, <1>10, <1>11, <1>12, Asking DEF ReadOK

LEMMA ReadsStep == ReadsInv /\ [ReadNext]_readVars => ReadsInv'
<1> SUFFICES ASSUME ReadsInv, [ReadNext]_readVars PROVE ReadsInv'
  OBVIOUS
<1>1. CASE UNCHANGED readVars
  <2>1. UNCHANGED tableVars /\ read' = read
    BY <1>1 DEF readVars, tableVars
  <2>2. ASSUME NEW x \in Requests' PROVE ReadOK(x)'
    <3>1. ReadOK(x)
      BY <2>1 DEF ReadsInv, Requests
    <3> QED
      BY <2>1, <3>1, ReadFrame
  <2> QED
    BY <2>1, <2>2 DEF ReadsInv, TablesOK, tableVars
<1>2. ASSUME NEW r \in Read, NEW s \in Store, StartProfile(r, s)
      PROVE  ReadsInv'
  BY <1>2, ComposeStep DEF StartProfile, PartsOf
<1>3. ASSUME NEW r \in Read, StartList(r)
      PROVE  ReadsInv'
  BY <1>3, ComposeStep DEF StartList, PartsOf, ReadsInv, TablesOK
<1>4. ASSUME NEW r \in Read,
             \/ \E query \in Query : StartSearch(r, query)
             \/ SearchText(r) \/ SearchCatalog(r) \/ FindActiveStores(r) \/ HydrateStores(r) \/ AnnotateFollows(r)
             \/ Respond(r)
             \/ \E p \in Store \X ProfileParts : ReadPart(r, p)
      PROVE  ReadsInv'
  BY <1>4, StartSearchStep, SearchTextStep, SearchCatalogStep, FindActiveStoresStep, HydrateStoresStep,
     AnnotateFollowsStep, RespondStep, ReadPartStep
<1>5. CASE \E s \in Store : AddStores({s}) \/ ToggleFollow(s)
  BY <1>5, WriteSteps
<1>6. CASE \E s \in Store, page \in Page :
             RecordCrawl(s, page) \/ RecordMetadata(s, page) \/ RecordTechnologies(s, page)
  BY <1>6, WriteSteps
<1>7. CASE AddStores(Store) \/ SyncCatalog
  BY <1>7, Writing DEF AddStores, SyncCatalog, ReadsInv, TablesOK
<1> QED
  BY <1>1, <1>2, <1>3, <1>4, <1>5, <1>6, <1>7 DEF ReadNext

LEMMA ReadsInvariant == ReadSpec => []ReadsInv
BY ReadsStart, ReadsStep, PTL DEF ReadSpec

\* What a profile shows follows from what its queries have brought.
LEMMA ProfileFollows == ReadsInv => ProfilesAreCoherent
<1> SUFFICES ASSUME ReadsInv, NEW r \in Read, read[r].kind \in {"profile", "list"}, read[r].todo = {},
                    NEW s \in read[r].shown
             PROVE  LET shown(part) == read[r].got[<<s, part>>] IN
                    /\ read[r].undisturbed =>
                         /\ shown("crawl") = crawl[s] /\ shown("metadata") = metadata[s]
                         /\ shown("technologies") = InUse(log[s])
                         /\ read[r].kind = "profile" => shown("subscription") = (s \in follows)
                         /\ read[r].kind = "list" => s \in follows
                    /\ read[r].kind = "profile" =>
                         \E i \in 0..Len(log[s]) :
                           /\ shown("events") = SubSeq(log[s], 1, i)
                           /\ \E j \in 0..Len(log[s]) :
                                shown("technologies") = InUse(SubSeq(log[s], 1, j))
  BY DEF ProfilesAreCoherent
<1>1. PICK x : x = read[r]
  OBVIOUS
<1>2. Composing(x) /\ PartsAreCurrent(x) /\ HistoryIsKept(x)
  BY <1>1, ComposedRead
<1>3. DOMAIN x.got = x.shown \X PartsOf(x.kind) /\ s \in x.shown /\ s \in Store
  BY <1>1, <1>2 DEF Composing
<1>4. \A part \in PartsOf(x.kind) : <<s, part>> \in DOMAIN x.got
  BY <1>3
<1>5. /\ \A part \in {"crawl", "metadata", "technologies"} : <<s, part>> \in DOMAIN x.got
      /\ x.kind = "profile" => <<s, "events">> \in DOMAIN x.got /\ <<s, "subscription">> \in DOMAIN x.got
  BY <1>2, <1>4 DEF Composing, PartsOf, ProfileParts, Parts
<1>6. ASSUME x.undisturbed
      PROVE  /\ x.got[<<s, "crawl">>] = crawl[s]
             /\ x.got[<<s, "metadata">>] = metadata[s]
             /\ x.got[<<s, "technologies">>] = InUse(log[s])
             /\ x.kind = "profile" => x.got[<<s, "subscription">>] = (s \in follows)
             /\ x.kind = "list" => s \in follows
  <2>1. \A p \in DOMAIN x.got : x.got[p] = PartOf(p[1], p[2])
    BY <1>2, <1>6 DEF PartsAreCurrent
  <2>2. \A part : <<s, part>> \in DOMAIN x.got => x.got[<<s, part>>] = PartOf(s, part)
    BY <2>1
  <2>3. x.got[<<s, "crawl">>] = crawl[s] /\ x.got[<<s, "metadata">>] = metadata[s]
    BY <1>5, <2>2 DEF PartOf
  <2>4. x.got[<<s, "technologies">>] = InUse(log[s])
    <3>1. log[s] \in Seq(Event)
      BY <1>3 DEF ReadsInv, TablesOK
    <3> QED
      BY <1>5, <2>2, <3>1, ActiveIsInUse DEF PartOf
  <2>5. x.kind = "profile" => x.got[<<s, "subscription">>] = (s \in follows)
    BY <1>5, <2>2 DEF PartOf
  <2>6. x.kind = "list" => s \in follows
    BY <1>2, <1>3, <1>6 DEF PartsAreCurrent
  <2> QED
    BY <2>3, <2>4, <2>5, <2>6
<1>7. ASSUME x.kind = "profile"
      PROVE  \E i \in 0..Len(log[s]) :
               /\ x.got[<<s, "events">>] = SubSeq(log[s], 1, i)
               /\ \E j \in 0..Len(log[s]) : x.got[<<s, "technologies">>] = InUse(SubSeq(log[s], 1, j))
  <2>1. \E i \in 0..Len(log[s]) : x.got[<<s, "events">>] = SubSeq(log[s], 1, i)
    BY <1>2, <1>3, <1>5, <1>7 DEF HistoryIsKept
  <2>2. \E j \in 0..Len(log[s]) : x.got[<<s, "technologies">>] = InUse(SubSeq(log[s], 1, j))
    BY <1>2, <1>3, <1>5, <1>7 DEF HistoryIsKept
  <2> QED
    BY <2>1, <2>2
<1> QED
  BY <1>1, <1>6, <1>7

\* A profile or a list that nothing was written to shows one state of its
\* stores; any profile shows a history that its store had.
THEOREM ProfilesStayCoherent == ReadSpec => []ProfilesAreCoherent
BY ReadsInvariant, ProfileFollows, PTL

---------------------------------------------------------------------------

\* The rows of the technology query, when the limit cuts none of them.
LEMMA AllRowsAreFound ==
  ASSUME TablesOK, NEW names \in SUBSET Name, IsFiniteSet(Candidates(names)), Cardinality(Candidates(names)) <= Limit
  PROVE  getActiveStoresForNames(names) = {p \in stores \X names : p[2] \in InUse(log[p[1]])}
<1> DEFINE hits == {p \in stores \X names : Latest(log[p[1]], p[2]) # Null}
           before(a, b) == \/ IdRank[a[1]] < IdRank[b[1]]
                           \/ a[1] = b[1] /\ NameRank[a[2]] < NameRank[b[2]]
<1>1. ASSUME NEW p \in stores \X names
      PROVE  /\ Latest(log[p[1]], p[2]) # Null <=> \E i \in DOMAIN log[p[1]] : log[p[1]][i].name = p[2]
             /\ Latest(log[p[1]], p[2]) \in {"added", "removed", Null}
             /\ Latest(log[p[1]], p[2]) = "added" <=> p[2] \in InUse(log[p[1]])
  <2>1. PICK l, n : l = log[p[1]] /\ n = p[2]
    OBVIOUS
  <2>2. l \in Seq(Event) /\ n \in Name
    BY <2>1 DEF TablesOK
  <2> QED
    BY <2>1, <2>2, LatestDecides
<1>2. hits = Candidates(names)
  BY <1>1 DEF Candidates
<1>3. FirstBy(hits, before, Limit) = hits
  <2>1. ASSUME NEW p \in hits PROVE Cardinality({q \in hits : before(q, p)}) < Limit
    <3>1. ~before(p, p)
      <4>1. p[1] \in Store /\ p[2] \in Name
        BY <2>1 DEF TablesOK
      <4>2. IdRank[p[1]] \in Nat /\ NameRank[p[2]] \in Nat
        BY <4>1, StoreReadsAssumption
      <4> QED
        BY <4>2
    <3>2. PICK T \in SUBSET hits : T = {q \in hits : before(q, p)}
      OBVIOUS
    <3>3. p \notin T
      BY <3>1, <3>2
    <3>4. PICK S : S = hits
      OBVIOUS
    <3>5. IsFiniteSet(S) /\ Cardinality(S) <= Limit /\ p \in S /\ T \in SUBSET S
      BY <1>2, <2>1, <3>2, <3>4
    <3>6. Cardinality(T) < Limit
      BY <3>3, <3>5, WithinLimit
    <3> QED
      BY <3>2, <3>6
  <2> QED
    BY <2>1 DEF FirstBy
<1>4. getActiveStoresForNames(names) = {p \in FirstBy(hits, before, Limit) : Latest(log[p[1]], p[2]) # "removed"}
  BY DEF getActiveStoresForNames
<1>5. getActiveStoresForNames(names) = {p \in hits : Latest(log[p[1]], p[2]) # "removed"}
  BY <1>3, <1>4
<1>6. Null # "added"
  BY StoreReadsAssumption
<1> HIDE DEF before
<1> QED
  BY <1>1, <1>5, <1>6

\* The stores found by technology only, when the limit cuts none of them.
LEMMA AllStoresAreHydrated ==
  ASSUME TablesOK, NEW found \in SUBSET stores, Small(found), NEW matched, NEW text,
         found = {p[1] : p \in matched} \ text
  PROVE  Hydrated(matched, text) = found
<1> DEFINE before(s, t) == IdRank[s] < IdRank[t]
<1>1. ASSUME NEW s \in found PROVE Cardinality({t \in found : before(t, s)}) < Limit
  <2>1. IdRank[s] \in Nat
    BY StoreReadsAssumption DEF TablesOK
  <2>2. s \notin {t \in found : before(t, s)}
    BY <2>1
  <2>3. {t \in found : before(t, s)} \in SUBSET found
    OBVIOUS
  <2> HIDE DEF before
  <2> QED
    BY <2>2, <2>3, WithinLimit DEF Small
<1>2. FirstBy(found, before, Limit) = found
  BY <1>1 DEF FirstBy
<1>3. Hydrated(matched, text) = FirstBy(found, before, Limit) \cap stores
  BY DEF Hydrated
<1> HIDE DEF before
<1> QED
  BY <1>2, <1>3

\* What a search shows follows from what its queries have brought.
LEMMA SearchFollows == ReadsInv => SearchFindsTheStores
<1> SUFFICES ASSUME ReadsInv, NEW r \in Read, read[r].kind = "search", read[r].next = "answer"
             PROVE  /\ Cardinality(read[r].shown) <= Limit
                    /\ LET names == read[r].query.names \cap catalogNames
                           wanted == {s \in stores : s \in read[r].query.text \/ Uses(s, names) # {}}
                           few(S) == Cardinality(S) <= Limit IN
                       read[r].undisturbed /\ few(names) /\ few(Candidates(names)) /\ few(wanted) =>
                         /\ read[r].shown = wanted
                         /\ \A s \in wanted : {n \in Name : <<s, n>> \in read[r].matched} = Uses(s, names)
                         /\ read[r].subscribed = wanted \cap follows
  BY DEF SearchFindsTheStores
<1>1. PICK x : x = read[r]
  OBVIOUS
<1>2. Searching(x) /\ SearchLimits(x) /\ SearchIsCurrent(x)
  BY <1>1 DEF ReadsInv, Requests, ReadOK, NoRead, Composing
<1>3. x.next = "answer" /\ Cardinality(x.shown) <= Limit
  BY <1>1, <1>2 DEF SearchLimits, Small
<1> DEFINE names == x.query.names \cap catalogNames
           wanted == {s \in stores : s \in x.query.text \/ Uses(s, names) # {}}
<1>4. ASSUME x.undisturbed, Cardinality(names) <= Limit, Cardinality(Candidates(names)) <= Limit,
             Cardinality(wanted) <= Limit
      PROVE  /\ x.shown = wanted
             /\ \A s \in wanted : {n \in Name : <<s, n>> \in x.matched} = Uses(s, names)
             /\ x.subscribed = wanted \cap follows
  <2>1. /\ x.text = searchByText(x.query)
        /\ x.names \in searchByName(x.query)
        /\ x.matched = getActiveStoresForNames(x.names)
        /\ x.subscribed = x.shown \cap follows
    BY <1>2, <1>3, <1>4 DEF SearchIsCurrent, SearchLimits
  <2>2. PICK chosen \in AnyOf(Hydrated(x.matched, x.text), Limit - Cardinality(x.text)) :
          x.shown = x.text \cup chosen
    BY <1>2, <1>3, <1>4 DEF SearchIsCurrent
  <2>3. x.query \in Query /\ x.query.names \subseteq Name
    BY <1>2, StoreReadsAssumption DEF Searching
  <2>4. names \in SUBSET Name /\ IsFiniteSet(names)
    BY <2>3, StoreReadsAssumption, FS_Subset
  <2>5. stores \subseteq Store /\ IsFiniteSet(stores) /\ IsFiniteSet(wanted)
    BY StoreReadsAssumption, FS_Subset DEF ReadsInv, TablesOK
  <2>6. x.names = names
    <3>1. AnyOf(names, Limit) = {names}
      BY <1>4, <2>4, AnyOfAll, StoreReadsAssumption
    <3> QED
      BY <2>1, <3>1 DEF searchByName
  <2>7. x.matched = {p \in stores \X names : p[2] \in InUse(log[p[1]])}
    <3>1. IsFiniteSet(Candidates(names))
      <4>1. IsFiniteSet(stores \X names)
        BY <2>4, <2>5, FS_Product
      <4> QED
        BY <4>1, FS_Subset DEF Candidates
    <3> HIDE DEF names
    <3> QED
      BY <1>4, <2>1, <2>4, <2>6, <3>1, AllRowsAreFound DEF ReadsInv
  <2>8. ASSUME NEW s \in stores
        PROVE  {n \in Name : <<s, n>> \in x.matched} = Uses(s, names)
    BY <2>4, <2>7 DEF Uses
  <2> DEFINE texts == x.query.text \cap stores
             users == {s \in stores : Uses(s, names) # {}}
             found == users \ texts
  <2>9. texts \subseteq wanted /\ found \subseteq wanted /\ wanted = texts \cup found /\ texts \cap found = {}
    OBVIOUS
  <2>10. x.text = texts
    <3>1. Cardinality(texts) <= Cardinality(wanted) /\ Cardinality(texts) \in Nat /\ Cardinality(wanted) \in Nat
      <4> HIDE DEF wanted, texts
      <4> QED
        BY <2>5, <2>9, FS_Subset, FS_CardinalityType
    <3>2. Cardinality(texts) <= Limit
      BY <1>4, <3>1, StoreReadsAssumption
    <3> QED
      BY <2>1, <2>3, <2>5, <3>2, TextSearchLimits
  <2>11. {p[1] : p \in x.matched} = users
    <3>1. ASSUME NEW s \in users PROVE s \in {p[1] : p \in x.matched}
      <4>1. PICK n \in Name : <<s, n>> \in x.matched
        BY <2>8, <3>1
      <4> QED
        BY <4>1
    <3>2. ASSUME NEW p \in x.matched PROVE p[1] \in users
      <4>1. p[1] \in stores /\ p[2] \in Name /\ p = <<p[1], p[2]>>
        BY <2>4, <2>7, <3>2
      <4>2. p[2] \in Uses(p[1], names)
        BY <2>8, <3>2, <4>1
      <4> QED
        BY <4>1, <4>2
    <3> HIDE DEF users
    <3> QED
      BY <3>1, <3>2
  <2> HIDE DEF names, texts, users, wanted
  <2>12. IsFiniteSet(texts) /\ IsFiniteSet(found)
    BY <2>5, <2>9, FS_Subset
  <2>13. /\ Cardinality(wanted) = Cardinality(texts) + Cardinality(found)
         /\ Cardinality(texts) \in Nat /\ Cardinality(found) \in Nat
    <3>1. Cardinality(texts \cup found) = Cardinality(texts) + Cardinality(found) - Cardinality(texts \cap found)
      BY <2>12, FS_Union
    <3>2. Cardinality(texts \cap found) = 0
      BY <2>9, FS_EmptySet
    <3>3. Cardinality(texts) \in Nat /\ Cardinality(found) \in Nat
      BY <2>12, FS_CardinalityType
    <3> QED
      BY <2>9, <3>1, <3>2, <3>3
  <2>14. Limit - Cardinality(texts) \in Nat /\ Cardinality(found) <= Limit - Cardinality(texts)
         /\ Cardinality(found) <= Limit
    BY <1>4, <2>13, StoreReadsAssumption
  <2>15. Hydrated(x.matched, x.text) = found
    <3>1. found \in SUBSET stores
      BY DEF users
    <3>2. found = {p[1] : p \in x.matched} \ x.text
      BY <2>10, <2>11
    <3> HIDE DEF found
    <3> QED
      BY <2>12, <2>14, <3>1, <3>2, AllStoresAreHydrated DEF ReadsInv, Small
  <2>16. chosen = found
    <3> HIDE DEF found
    <3>1. AnyOf(found, Limit - Cardinality(texts)) = {found}
      BY <2>12, <2>14, AnyOfAll
    <3> QED
      BY <2>2, <2>10, <2>15, <3>1
  <2>17. x.shown = wanted
    BY <2>2, <2>9, <2>10, <2>16
  <2>18. \A s \in wanted : s \in stores
    BY DEF wanted
  <2> QED
    BY <2>1, <2>8, <2>17, <2>18
<1> QED
  BY <1>1, <1>3, <1>4

\* A search never shows more than the limit, and an undisturbed one whose limits
\* cut nothing exactly the stores, technologies and follows it should.
THEOREM SearchesFindTheStores == ReadSpec => []SearchFindsTheStores
BY ReadsInvariant, SearchFollows, PTL

=============================================================================
