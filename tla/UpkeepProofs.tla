--------------------------- MODULE UpkeepProofs ---------------------------
(***************************************************************************)
(* That the router takes in its settings and keeps its books, for any      *)
(* number of writes, admin reloads and requests: the types,                *)
(* ReloadComplete, SpendCovers and BooksBalance.                           *)
(*                                                                         *)
(* ReloadComplete speaks of a moment when nobody loads; what leads there   *)
(* is a load that has read the file as it still is.  So the inductive      *)
(* invariant says of each place a loader can be at what it holds there.    *)
(***************************************************************************)
EXTENDS Upkeep, FiniteSetTheorems, TLAPS

\* The lock is held from the read to the end of the validation.
LockHeld == \A a \in Loaders : (lock = a) = (loader[a] \in {"stat", "validate"})

\* Every write has a version and an mtime of its own.
Numbered == file.version = mtime /\ lastMtime <= mtime

\* Unless a write came between, what a loader read is the file.
HoldsFile ==
    \A a \in Loaders :
       /\ loader[a] = "stat" /\ ~raced => got[a] = file
       /\ loader[a] = "validate" /\ ~raced /\ ~Changed /\ file.kind = "good" => got[a] = file

\* Where no load is to be validated the settings are the file's.
SettingsTaken ==
    (\A a \in Loaders : loader[a] # "validate") /\ ~raced /\ ~Changed /\ file.kind = "good"
        => settings = file.version

\* The components the watcher has told of the settings.
Told(c) ==
    CASE loader["watcher"] = "notify" -> FALSE
      [] loader["watcher"] = "provider" -> FALSE
      [] loader["watcher"] = "classifier" -> c = "provider"
      [] loader["watcher"] = "temporal" -> c # "temporal"
      [] OTHER -> TRUE

ComponentsTold ==
    ~adminLast =>
        /\ loader["watcher"] \in Components => got["watcher"].version = settings
        /\ \A c \in Components : Told(c) => live[c] = settings

OnlyWatcherTells == loader["admin"] \in {"idle", "load", "stat", "validate"}

ConfigInv ==
    /\ ConfigTypeOK /\ LockHeld /\ Numbered /\ HoldsFile /\ SettingsTaken
    /\ ComponentsTold /\ OnlyWatcherTells

-----------------------------------------------------------------------------
\* The router starts with what it has read.
LEMMA ConfigInitInv == ConfigInit => ConfigInv
  <1> SUFFICES ASSUME ConfigInit PROVE ConfigInv
    OBVIOUS
  <1> USE DEF ConfigInit, Original
  <1>1. ConfigTypeOK
    BY DEF ConfigTypeOK, Loaders, Components, Parts, LoaderPCs, Files, Kinds
  <1>2. LockHeld /\ Numbered /\ OnlyWatcherTells
    BY ConfigReloadAssumption DEF LockHeld, Numbered, OnlyWatcherTells, Loaders
  <1>3. HoldsFile /\ SettingsTaken
    BY DEF HoldsFile, SettingsTaken, Loaders
  <1>4. ComponentsTold
    BY DEF ComponentsTold, Told, Loaders, Components, Parts
  <1> QED BY <1>1, <1>2, <1>3, <1>4 DEF ConfigInv

\* A write shows in the mtime, or comes between a read and a getmtime.
LEMMA WriteInv == ConfigInv /\ Write => ConfigInv'
  <1> SUFFICES ASSUME ConfigInv, Write PROVE ConfigInv'
    OBVIOUS
  <1> USE DEF ConfigInv
  <1>1. ConfigTypeOK'
    BY DEF ConfigTypeOK, Write, Files, Loaders
  <1>2. LockHeld' /\ OnlyWatcherTells'
    BY DEF LockHeld, OnlyWatcherTells, Write
  <1>3. Numbered' /\ Changed'
    BY DEF Numbered, Changed, Write, ConfigTypeOK
  <1>4. HoldsFile' /\ SettingsTaken'
    BY <1>3 DEF HoldsFile, SettingsTaken, Write
  <1>5. ComponentsTold'
    BY DEF ComponentsTold, Told, Write
  <1> QED BY <1>1, <1>2, <1>3, <1>4, <1>5

\* The calls that only begin a load.
LEMMA BeginInv == ConfigInv /\ (AdminReload \/ Watch) => ConfigInv'
  <1> SUFFICES ASSUME ConfigInv, AdminReload \/ Watch PROVE ConfigInv'
    OBVIOUS
  <1> USE DEF ConfigInv, AdminReload, Watch, Goto, Loaders
  <1>1. ConfigTypeOK'
    BY DEF ConfigTypeOK, LoaderPCs
  <1>2. LockHeld' /\ Numbered' /\ OnlyWatcherTells'
    BY DEF LockHeld, Numbered, OnlyWatcherTells, ConfigTypeOK
  <1>3. HoldsFile' /\ SettingsTaken'
    BY DEF HoldsFile, SettingsTaken, Changed, ConfigTypeOK
  <1>4. ComponentsTold'
    BY DEF ComponentsTold, Told, ConfigTypeOK, Components
  <1> QED BY <1>1, <1>2, <1>3, <1>4

\* A read takes the file as it is, and the lock if it goes on.
LEMMA ReadInv == ASSUME NEW a \in Loaders, ConfigInv, Read(a) PROVE ConfigInv'
  <1> USE DEF ConfigInv, Read, Goto, Loaders
  <1>1. ConfigTypeOK'
    BY DEF ConfigTypeOK, LoaderPCs, Defaults, Files, Kinds
  <1>2. LockHeld'
    BY ConfigReloadAssumption DEF LockHeld, ConfigTypeOK
  <1>3. Numbered' /\ OnlyWatcherTells'
    BY DEF Numbered, OnlyWatcherTells, ConfigTypeOK
  <1>4. HoldsFile' /\ SettingsTaken'
    BY DEF HoldsFile, SettingsTaken, Changed, ConfigTypeOK
  <1>5. ComponentsTold'
    BY DEF ComponentsTold, Told, ConfigTypeOK, Components
  <1> QED BY <1>1, <1>2, <1>3, <1>4, <1>5

\* A getmtime notes the time of what was read, if no write was missed.
LEMMA StatInv == ASSUME NEW a \in Loaders, ConfigInv, Stat(a) PROVE ConfigInv'
  <1> USE DEF ConfigInv, Stat, Goto, Loaders
  <1>1. ConfigTypeOK'
    BY DEF ConfigTypeOK, LoaderPCs
  <1>2. LockHeld' /\ Numbered' /\ OnlyWatcherTells'
    BY DEF LockHeld, Numbered, OnlyWatcherTells, ConfigTypeOK
  <1>3. HoldsFile' /\ SettingsTaken'
    BY DEF HoldsFile, SettingsTaken, LockHeld, Changed, ConfigTypeOK
  <1>4. ComponentsTold'
    BY DEF ComponentsTold, Told, ConfigTypeOK, Components
  <1> QED BY <1>1, <1>2, <1>3, <1>4

\* What was read comes into force, or the settings stay.
LEMMA ValidateInv == ASSUME NEW a \in Loaders, ConfigInv, Validate(a) PROVE ConfigInv'
  <1> USE DEF ConfigInv, Validate, Goto, Loaders
  <1>1. ConfigTypeOK'
    <2>1. got[a].version \in Nat
      BY DEF ConfigTypeOK, Files
    <2>2. settings' \in Nat /\ adminLast' \in BOOLEAN /\ lock' \in Loaders \cup {None}
      BY <2>1 DEF ConfigTypeOK
    <2>3. loader' \in [Loaders -> LoaderPCs]
      BY DEF ConfigTypeOK, LoaderPCs
    <2> QED BY <2>2, <2>3 DEF ConfigTypeOK
  <1>2. LockHeld'
    BY ConfigReloadAssumption DEF LockHeld, ConfigTypeOK
  <1>3. Numbered' /\ OnlyWatcherTells'
    BY DEF Numbered, OnlyWatcherTells, ConfigTypeOK
  <1>4. HoldsFile'
    BY DEF HoldsFile, Changed, ConfigTypeOK
  <1>5. SettingsTaken'
    BY DEF SettingsTaken, HoldsFile, Changed, ConfigTypeOK
  <1>6. ComponentsTold'
    BY DEF ComponentsTold, Told, ConfigTypeOK, Components
  <1> QED BY <1>1, <1>2, <1>3, <1>4, <1>5, <1>6

\* The callback takes the settings in force and passes them on, one by one.
LEMMA TellInv == ConfigInv /\ (Notify \/ \E c \in Components : Tell(c)) => ConfigInv'
  <1> SUFFICES ASSUME ConfigInv, Notify \/ \E c \in Components : Tell(c) PROVE ConfigInv'
    OBVIOUS
  <1> USE DEF ConfigInv, Notify, Tell, Goto, Loaders, Following, Components, Parts
  <1>1. ConfigTypeOK'
    BY DEF ConfigTypeOK, LoaderPCs, Files, Kinds
  <1>2. LockHeld' /\ Numbered' /\ OnlyWatcherTells'
    BY DEF LockHeld, Numbered, OnlyWatcherTells, ConfigTypeOK
  <1>3. HoldsFile' /\ SettingsTaken'
    BY DEF HoldsFile, SettingsTaken, Changed, ConfigTypeOK
  <1>4. ComponentsTold'
    BY DEF ComponentsTold, Told, ConfigTypeOK
  <1> QED BY <1>1, <1>2, <1>3, <1>4

LEMMA ConfigNextInv == ConfigInv /\ [ConfigNext]_configVars => ConfigInv'
  <1> SUFFICES ASSUME ConfigInv, [ConfigNext]_configVars PROVE ConfigInv'
    OBVIOUS
  <1>1. CASE ConfigNext
    <2>1. ASSUME NEW a \in Loaders, Load(a) PROVE ConfigInv'
      BY <2>1, ReadInv, StatInv, ValidateInv DEF Load
    <2>2. CASE Write \/ AdminReload \/ Watch \/ Notify \/ \E c \in Components : Tell(c)
      BY <2>2, WriteInv, BeginInv, TellInv
    <2> QED BY <1>1, <2>1, <2>2 DEF ConfigNext, WatcherStep, Loaders
  <1>2. CASE UNCHANGED configVars
    BY <1>2 DEF configVars, ConfigInv, ConfigTypeOK, LockHeld, Numbered, HoldsFile,
                SettingsTaken, ComponentsTold, OnlyWatcherTells, Told, Changed
  <1> QED BY <1>1, <1>2

-----------------------------------------------------------------------------
\* The budget's state keeps its type, whatever the settings in force.
LEMMA BudgetNextType ==
    ASSUME NEW version \in Nat, BudgetTypeOK, BudgetNext(version) PROVE BudgetTypeOK'
  <1> USE BudgetAssumption DEF BudgetTypeOK, Ends, Nothing, Free
  <1>1. ASSUME NEW r \in Requests, Arrive(r, version) PROVE BudgetTypeOK'
    BY <1>1, SMTT(30) DEF Arrive
  <1>2. ASSUME NEW r \in Requests, PassUnchecked(r) \/ Exceed(r) \/ Leave(r)
        PROVE BudgetTypeOK'
    BY <1>2 DEF PassUnchecked, Exceed, Checked, Leave
  <1>3. ASSUME NEW r \in Requests, Reserve(r) PROVE BudgetTypeOK'
    <2> PICK cost \in Costs :
           /\ spend' = [spend EXCEPT ![day] = @ + cost]
           /\ booked' = [booked EXCEPT ![r] = [amount |-> cost, day |-> day]]
           /\ IF session[r] = NoSession
              THEN tangled' = TRUE /\ UNCHANGED reserved
              ELSE /\ tangled' = (tangled \/ reserved[session[r]] # Free)
                   /\ reserved' = [reserved EXCEPT ![session[r]] = [amount |-> cost, by |-> {r}]]
      BY <1>3 DEF Reserve
    <2>1. cost \in Nat /\ spend[day] \in Nat
      OBVIOUS
    <2>2. spend' \in [1..Days -> Nat] /\ booked' \in [Requests -> [amount : Nat, day : 0..Days]]
      BY <2>1, SMTT(30)
    <2>3. reserved' \in [Sessions -> [amount : Nat, by : SUBSET Requests]] /\ tangled' \in BOOLEAN
      <3>1. CASE session[r] = NoSession
        BY <3>1
      <3>2. CASE session[r] # NoSession
        <4>1. session[r] \in Sessions /\ [amount |-> cost, by |-> {r}] \in [amount : Nat, by : SUBSET Requests]
          BY <2>1, <3>2
        <4>2. reserved' = [reserved EXCEPT ![session[r]] = [amount |-> cost, by |-> {r}]]
          BY <3>2
        <4>3. reserved' \in [Sessions -> [amount : Nat, by : SUBSET Requests]]
          BY <4>1, <4>2
        <4>4. tangled' \in BOOLEAN
          BY <3>2
        <4> QED BY <4>3, <4>4
      <3> QED BY <3>1, <3>2
    <2> QED BY <1>3, <2>2, <2>3 DEF Reserve
  <1>4. ASSUME NEW r \in Requests, Serve(r) PROVE BudgetTypeOK'
    <2> PICK cost \in Costs :
           /\ spend' = [spend EXCEPT ![day] = Larger(0, @ - Reservation(r).amount + cost)]
           /\ paid' = [paid EXCEPT ![r] = [amount |-> cost, day |-> day]]
      BY <1>4 DEF Serve
    <2>1. Reservation(r) \in [amount : Nat, by : SUBSET Requests]
      BY DEF Reservation
    <2>2. Larger(0, spend[day] - Reservation(r).amount + cost) \in Nat
      <3>1. Reservation(r).amount \in Nat
        BY <2>1
      <3>2. cost \in Nat /\ spend[day] \in Nat
        OBVIOUS
      <3> HIDE DEF Reservation
      <3> QED BY <3>1, <3>2, SMTT(30) DEF Larger
    <2>3. spend' \in [1..Days -> Nat] /\ paid' \in [Requests -> [amount : Nat, day : 0..Days]]
      BY <2>2
    <2>4. reserved' \in [Sessions -> [amount : Nat, by : SUBSET Requests]]
      BY <1>4 DEF Serve, Released
    <2> QED BY <1>4, <2>3, <2>4 DEF Serve
  <1>5. ASSUME Midnight PROVE BudgetTypeOK'
    BY <1>5 DEF Midnight
  <1> QED BY <1>1, <1>2, <1>3, <1>4, <1>5 DEF BudgetNext

-----------------------------------------------------------------------------
(* Sums over finite sets.  A property of every subset of a finite set is   *)
(* proved at its smallest counterexample, for there would be one.          *)

\* What is left of `s` when the fold has taken its first element out.
Rest(s) == s \ {CHOOSE x \in s : TRUE}

\* `g` gives the sum of the amounts of each subset of S, as the fold counts it.
IsSum(g, e, S) ==
    g = [s \in SUBSET S |-> IF s = {} THEN 0 ELSE e[CHOOSE x \in s : TRUE].amount + g[Rest(s)]]

\* An element taken out leaves a smaller set.
LEMMA RestSmaller ==
    ASSUME NEW s, s # {} PROVE (CHOOSE x \in s : TRUE) \in s /\ Rest(s) \subseteq s /\ Rest(s) # s
BY DEF Rest

\* Of any property of the subsets of a finite set there is a smallest counterexample.
LEMMA SmallestSet ==
    ASSUME NEW S, IsFiniteSet(S), NEW Bad \in SUBSET SUBSET S, Bad # {}
    PROVE  \E s \in Bad : \A t \in Bad : t \subseteq s => t = s
<1>1. IsWellFoundedOn(StrictSubsetOrdering(S), SUBSET S)
  BY FS_StrictSubsetOrderingWellFounded, FS_FiniteSubsetsOfFinite
<1>2. PICK s \in Bad : \A t \in Bad : ~ (<<t, s>> \in StrictSubsetOrdering(S))
  <2> HIDE DEF StrictSubsetOrdering
  <2> QED
    BY <1>1, WFMin
<1>3. ASSUME NEW t \in Bad, t \subseteq s PROVE t = s
  BY <1>2, <1>3 DEF StrictSubsetOrdering
<1> QED
  BY <1>3

\* There is one such function,
LEMMA SumUnique ==
    ASSUME NEW S, IsFiniteSet(S), NEW e, NEW g, NEW h, IsSum(g, e, S), IsSum(h, e, S)
    PROVE  g = h
<1> DEFINE Bad == {s \in SUBSET S : g[s] # h[s]}
<1>1. Bad = {}
  <2> SUFFICES ASSUME Bad # {} PROVE FALSE
    OBVIOUS
  <2>1. PICK s \in Bad : \A t \in Bad : t \subseteq s => t = s
    <3>1. Bad \in SUBSET SUBSET S
      OBVIOUS
    <3> HIDE DEF Bad
    <3> QED
      BY <3>1, SmallestSet
  <2>2. s # {}
    BY DEF IsSum
  <2>3. Rest(s) \subseteq s /\ Rest(s) # s
    BY <2>2, RestSmaller
  <2>4. g[Rest(s)] = h[Rest(s)]
    BY <2>1, <2>3
  <2> QED
    BY <2>2, <2>4, SMTT(30) DEF IsSum
<1>2. g = [s \in SUBSET S |-> g[s]] /\ h = [s \in SUBSET S |-> h[s]]
  BY DEF IsSum
<1> QED
  BY <1>1, <1>2

\* it gives that of each subset,
LEMMA SumRestricts ==
    ASSUME NEW S, NEW T, T \subseteq S, NEW e, NEW g, IsSum(g, e, S),
           NEW h, h = [s \in SUBSET T |-> g[s]]
    PROVE  IsSum(h, e, T)
<1>1. ASSUME NEW s \in SUBSET T
      PROVE  h[s] = IF s = {} THEN 0 ELSE e[CHOOSE x \in s : TRUE].amount + h[Rest(s)]
  <2>1. CASE s = {}
    BY <2>1 DEF IsSum
  <2>2. CASE s # {}
    <3>1. Rest(s) \in SUBSET T
      BY <2>2, RestSmaller
    <3> QED
      BY <2>2, <3>1 DEF IsSum
  <2> QED
    BY <2>1, <2>2
<1> QED
  BY <1>1 DEF IsSum

\* it exists,
LEMMA SumExists ==
    ASSUME NEW S, IsFiniteSet(S), NEW e
    PROVE  \E g : IsSum(g, e, S)
<1> DEFINE Bad == {U \in SUBSET S : ~ \E g : IsSum(g, e, U)}
<1>1. Bad = {}
  <2> SUFFICES ASSUME Bad # {} PROVE FALSE
    OBVIOUS
  <2>1. PICK U \in Bad : \A t \in Bad : t \subseteq U => t = U
    <3>1. Bad \in SUBSET SUBSET S
      OBVIOUS
    <3> HIDE DEF Bad
    <3> QED
      BY <3>1, SmallestSet
  <2> DEFINE sum(t) == CHOOSE g : IsSum(g, e, t)
             g == [s \in SUBSET U |-> IF s = {} THEN 0
                      ELSE e[CHOOSE x \in s : TRUE].amount + sum(Rest(s))[Rest(s)]]
  <2>2. ASSUME NEW t \in SUBSET U, t # U PROVE IsSum(sum(t), e, t) /\ IsFiniteSet(t)
    <3>1. t \in SUBSET S /\ t \notin Bad
      BY <2>1, <2>2
    <3>2. \E f : IsSum(f, e, t)
      BY <3>1
    <3> QED
      BY <3>1, <3>2, FS_Subset
  <2>3. ASSUME NEW s \in SUBSET U, s # U PROVE g[s] = sum(s)[s]
    <3>1. IsSum(sum(s), e, s) /\ IsFiniteSet(s)
      BY <2>2, <2>3
    <3>2. CASE s = {}
      BY <3>1, <3>2 DEF IsSum
    <3>3. CASE s # {}
      <4>1. Rest(s) \in SUBSET s /\ Rest(s) \in SUBSET U /\ Rest(s) # U
        BY <2>3, <3>3, RestSmaller
      <4>2. IsSum(sum(Rest(s)), e, Rest(s)) /\ IsFiniteSet(Rest(s))
        BY <2>2, <4>1
      <4>3. IsSum([t \in SUBSET Rest(s) |-> sum(s)[t]], e, Rest(s))
        <5> DEFINE k == sum(s)
                   h == [t \in SUBSET Rest(s) |-> k[t]]
        <5>1. IsSum(k, e, s) /\ Rest(s) \subseteq s /\ h = [t \in SUBSET Rest(s) |-> k[t]]
          BY <3>1, <4>1
        <5>2. IsSum(h, e, Rest(s))
          <6> HIDE DEF k, h
          <6> QED
            BY <5>1, SumRestricts, ZenonT(60)
        <5> QED
          BY <5>2
      <4>4. [t \in SUBSET Rest(s) |-> sum(s)[t]] = sum(Rest(s))
        <5> HIDE DEF sum
        <5> QED
          BY <4>2, <4>3, SumUnique
      <4>5. sum(s)[Rest(s)] = sum(Rest(s))[Rest(s)]
        <5> HIDE DEF sum
        <5> QED
          BY <4>4
      <4>6. sum(s)[s] = e[CHOOSE x \in s : TRUE].amount + sum(s)[Rest(s)]
        BY <3>1, <3>3 DEF IsSum
      <4> QED
        BY <3>3, <4>5, <4>6
    <3> QED
      BY <3>2, <3>3
  <2>4. ASSUME NEW s \in SUBSET U
        PROVE  g[s] = IF s = {} THEN 0 ELSE e[CHOOSE x \in s : TRUE].amount + g[Rest(s)]
    <3>1. CASE s # {}
      <4>1. Rest(s) \in SUBSET U /\ Rest(s) # U
        BY <3>1, RestSmaller
      <4>2. g[Rest(s)] = sum(Rest(s))[Rest(s)]
        BY <2>3, <4>1
      <4> HIDE DEF sum
      <4> QED
        BY <3>1, <4>2
    <3>2. CASE s = {}
      BY <3>2
    <3> QED
      BY <3>1, <3>2
  <2>5. IsSum(g, e, U)
    <3>1. g = [s \in SUBSET U |-> g[s]]
      OBVIOUS
    <3> HIDE DEF g
    <3> QED
      BY <2>4, <3>1 DEF IsSum
  <2> QED
    BY <2>1, <2>5
<1> QED
  BY <1>1

\* and the fold of Total is its value at S.
LEMMA TotalIsSum ==
    ASSUME NEW S, IsFiniteSet(S), NEW e, NEW g, IsSum(g, e, S)
    PROVE  Total(e, S) = g[S]
<1> DEFINE f == CHOOSE f : f = [s \in SUBSET S |-> IF s = {} THEN 0
                   ELSE e[CHOOSE x \in s : TRUE].amount + f[s \ {CHOOSE x \in s : TRUE}]]
<1>1. IsSum(f, e, S)
  BY DEF IsSum, Rest
<1>2. Total(e, S) = f[S]
  BY DEF Total, MapThenSumSet, MapThenFoldSet
<1>3. f = g
  BY <1>1, SumUnique
<1> QED
  BY <1>2, <1>3

\* Only the amounts matter.
LEMMA SumOfEqual ==
    ASSUME NEW S, NEW e, NEW f, NEW g, IsSum(g, e, S), \A x \in S : f[x].amount = e[x].amount
    PROVE  IsSum(g, f, S)
<1>1. ASSUME NEW s \in SUBSET S, s # {}
      PROVE  f[CHOOSE x \in s : TRUE].amount = e[CHOOSE x \in s : TRUE].amount
  BY <1>1, RestSmaller
<1>2. \A s \in SUBSET S : g[s] = IF s = {} THEN 0 ELSE f[CHOOSE x \in s : TRUE].amount + g[Rest(s)]
  <2>1. ASSUME NEW s \in SUBSET S, s = {} PROVE g[s] = 0
    BY <2>1 DEF IsSum
  <2>2. ASSUME NEW s \in SUBSET S, s # {}
        PROVE  g[s] = e[CHOOSE x \in s : TRUE].amount + g[Rest(s)]
    BY <2>2 DEF IsSum
  <2> QED
    BY <1>1, <2>1, <2>2
<1>3. g = [s \in SUBSET S |-> g[s]]
  BY DEF IsSum
<1> QED
  BY <1>2, <1>3 DEF IsSum

\* The elements may be taken out in any order.
LEMMA SumAnyOrder ==
    ASSUME NEW S, IsFiniteSet(S), NEW e, \A x \in S : e[x].amount \in Nat, NEW g, IsSum(g, e, S)
    PROVE  /\ \A s \in SUBSET S : g[s] \in Nat
           /\ \A x \in S : g[S] = e[x].amount + g[S \ {x}]
<1>1. \A s \in SUBSET S : s # {} =>
          g[s] = e[CHOOSE x \in s : TRUE].amount + g[Rest(s)]
  BY DEF IsSum
<1>2. g[{}] = 0
  BY DEF IsSum
<1>3. \A s \in SUBSET S : g[s] \in Nat
  <2> DEFINE Bad == {s \in SUBSET S : g[s] \notin Nat}
  <2> SUFFICES ASSUME Bad # {} PROVE FALSE
    OBVIOUS
  <2>1. PICK s \in Bad : \A t \in Bad : t \subseteq s => t = s
    <3>1. Bad \in SUBSET SUBSET S
      OBVIOUS
    <3> HIDE DEF Bad
    <3> QED
      BY <3>1, SmallestSet
  <2>2. s # {} /\ s \in SUBSET S
    BY <1>2
  <2>3. (CHOOSE x \in s : TRUE) \in s /\ Rest(s) \subseteq s /\ Rest(s) # s
    BY <2>2, RestSmaller
  <2>4. g[Rest(s)] \in Nat /\ e[CHOOSE x \in s : TRUE].amount \in Nat
    BY <2>1, <2>2, <2>3
  <2> QED
    BY <1>1, <2>1, <2>2, <2>4
<1>4. ASSUME NEW s \in SUBSET S, NEW x \in s PROVE g[s] = e[x].amount + g[s \ {x}]
  <2> DEFINE Bad == {t \in SUBSET S : \E y \in t : g[t] # e[y].amount + g[t \ {y}]}
  <2> SUFFICES ASSUME Bad # {} PROVE FALSE
    OBVIOUS
  <2>1. PICK t \in Bad : \A u \in Bad : u \subseteq t => u = t
    <3>1. Bad \in SUBSET SUBSET S
      OBVIOUS
    <3> HIDE DEF Bad
    <3> QED
      BY <3>1, SmallestSet
  <2>2. PICK y \in t : g[t] # e[y].amount + g[t \ {y}]
    OBVIOUS
  <2> DEFINE z == CHOOSE z \in t : TRUE
  <2>3. t \in SUBSET S /\ z \in t /\ Rest(t) = t \ {z} /\ g[t] = e[z].amount + g[t \ {z}]
    <3>1. t \in SUBSET S /\ t # {}
      BY <2>2
    <3> QED
      BY <1>1, <3>1, RestSmaller DEF Rest
  <2> HIDE DEF z
  <2>4. z # y
    BY <2>2, <2>3
  <2>5. t \ {z} \notin Bad /\ t \ {y} \notin Bad
    BY <2>1, <2>2, <2>3
  <2>6. g[t \ {z}] = e[y].amount + g[(t \ {z}) \ {y}] /\ g[t \ {y}] = e[z].amount + g[(t \ {y}) \ {z}]
    BY <2>2, <2>3, <2>4, <2>5
  <2>7. (t \ {z}) \ {y} = (t \ {y}) \ {z}
    OBVIOUS
  <2>8. e[y].amount \in Nat /\ e[z].amount \in Nat /\ g[(t \ {y}) \ {z}] \in Nat
    BY <1>3, <2>2, <2>3
  <2>9. g[(t \ {z}) \ {y}] = g[(t \ {y}) \ {z}]
    BY <2>7
  <2> DEFINE n == g[(t \ {y}) \ {z}]
             a == e[y].amount
             b == e[z].amount
  <2>10. /\ n \in Nat /\ a \in Nat /\ b \in Nat
         /\ g[t] = b + (a + n) /\ g[t \ {y}] = b + n /\ g[t] # a + g[t \ {y}]
    BY <2>2, <2>3, <2>6, <2>8, <2>9
  <2> HIDE DEF Bad, n, a, b
  <2> QED
    BY <2>10
<1> QED
  BY <1>3, <1>4

\* What the proofs below need of Total.
LEMMA TotalEmpty == ASSUME NEW e PROVE Total(e, {}) = 0
<1>1. PICK g : IsSum(g, e, {})
  BY SumExists, FS_EmptySet
<1>2. g[{}] = 0
  BY <1>1 DEF IsSum
<1> QED
  BY <1>1, <1>2, TotalIsSum, FS_EmptySet

LEMMA TotalSame ==
    ASSUME NEW S, IsFiniteSet(S), NEW e, NEW f, \A x \in S : f[x].amount = e[x].amount
    PROVE  Total(f, S) = Total(e, S)
<1>1. PICK g : IsSum(g, e, S)
  BY SumExists
<1>2. IsSum(g, f, S)
  BY <1>1, SumOfEqual
<1> QED
  BY <1>1, <1>2, TotalIsSum

LEMMA TotalTakesOut ==
    ASSUME NEW S, IsFiniteSet(S), NEW e, \A x \in S : e[x].amount \in Nat, NEW z, z \in S
    PROVE  Total(e, S) = e[z].amount + Total(e, S \ {z})
<1>1. PICK g : IsSum(g, e, S)
  BY SumExists
<1> DEFINE T == S \ {z}
           h == [s \in SUBSET T |-> g[s]]
<1>2. T \subseteq S /\ IsFiniteSet(T) /\ h[T] = g[T]
  BY FS_RemoveElement
<1>3. IsSum(h, e, T)
  <2>1. h = [s \in SUBSET T |-> g[s]]
    OBVIOUS
  <2> HIDE DEF h, T
  <2> QED
    BY <1>1, <1>2, <2>1, SumRestricts
<1>4. Total(e, S) = g[S] /\ Total(e, T) = g[T]
  <2> HIDE DEF h, T
  <2> QED
    BY <1>1, <1>2, <1>3, TotalIsSum
<1>5. g[S] = e[z].amount + g[T]
  BY <1>1, SumAnyOrder
<1> QED
  BY <1>4, <1>5

\* A sum of natural numbers is one.
LEMMA TotalType ==
    ASSUME NEW S, IsFiniteSet(S), NEW e, \A x \in S : e[x].amount \in Nat
    PROVE  Total(e, S) \in Nat
<1>1. PICK g : IsSum(g, e, S)
  BY SumExists
<1> QED
  BY <1>1, SumAnyOrder, TotalIsSum

\* An element more, and an element less.
LEMMA TotalPutsIn ==
    ASSUME NEW S, IsFiniteSet(S), NEW e, \A x \in S : e[x].amount \in Nat, NEW z, z \notin S,
           NEW f, \A x \in S : f[x].amount = e[x].amount, f[z].amount \in Nat
    PROVE  Total(f, S \cup {z}) = f[z].amount + Total(e, S)
<1> DEFINE T == S \cup {z}
<1>1. z \in T /\ T \ {z} = S /\ \A x \in T : f[x].amount \in Nat
  OBVIOUS
<1>2. IsFiniteSet(T)
  BY FS_AddElement
<1>3. Total(f, T) = f[z].amount + Total(f, T \ {z})
  <2> HIDE DEF T
  <2> QED
    BY <1>1, <1>2, TotalTakesOut
<1>4. Total(f, S) = Total(e, S)
  BY TotalSame
<1> QED
  BY <1>1, <1>3, <1>4

LEMMA TotalLess ==
    ASSUME NEW S, IsFiniteSet(S), NEW e, \A x \in S : e[x].amount \in Nat, NEW z
    PROVE  Total(e, S \ {z}) \in Nat /\ Total(e, S \ {z}) <= Total(e, S)
<1> DEFINE T == S \ {z}
<1>1. IsFiniteSet(T) /\ \A x \in T : e[x].amount \in Nat
  BY FS_RemoveElement
<1>2. Total(e, T) \in Nat
  <2> HIDE DEF T
  <2> QED
    BY <1>1, TotalType
<1>3. CASE z \in S
  <2>1. Total(e, S) = e[z].amount + Total(e, S \ {z}) /\ e[z].amount \in Nat
    BY <1>3, TotalTakesOut
  <2> DEFINE n == Total(e, S \ {z})
             m == Total(e, S)
             k == e[z].amount
  <2>2. m = k + n /\ k \in Nat /\ n \in Nat
    BY <1>2, <2>1
  <2> HIDE DEF n, m, k
  <2>3. n \in Nat /\ n <= m
    BY <2>2
  <2> QED
    BY <2>3 DEF n, m
<1>4. CASE z \notin S
  <2>1. T = S
    BY <1>4
  <2> HIDE DEF T
  <2>2. Total(e, S) \in Nat
    BY TotalType
  <2> DEFINE m == Total(e, S)
  <2>3. m \in Nat /\ m <= m
    BY <2>2
  <2> QED
    BY <2>1, <2>3 DEF T
<1> QED
  BY <1>3, <1>4

-----------------------------------------------------------------------------
(* The books.  Neither SpendCovers nor BooksBalance is inductive: a        *)
(* reservation that is taken off must have been counted.  So the invariant *)
(* says what is counted beside what was paid, and who holds it.            *)

\* A request is booked when it has been checked and paid when it was served.
Trail ==
    \A r \in Requests :
       /\ booked[r].day <= day /\ paid[r].day <= day
       /\ at[r] \in {"idle", "check"} => booked[r] = Nothing
       /\ IF at[r] = "served" THEN paid[r].day # 0 ELSE paid[r] = Nothing

TomorrowUnspent == \A d \in 1..Days : d > day => spend[d] = 0

\* What is reserved for a session is what one of its requests booked, today
\* if no reservation was open at midnight.
Holds(s, r) ==
    /\ session[r] = s /\ at[r] \notin {"idle", "check"}
    /\ reserved[s] = [amount |-> booked[r].amount, by |-> {r}]
    /\ ~crossed => booked[r].day = day

ReservationsHeld == \A s \in Sessions : reserved[s] = Free \/ \E r \in Requests : Holds(s, r)

\* The requests that hold their session's reservation.
Holding == {r \in Requests : \E s \in Sessions : reserved[s].by = {r}}

\* Today's total covers what was paid and, beside it, every reservation that
\* will still be taken off it.
Covered == ~crossed => spend[day] >= Total(paid, PaidOn(day)) + Total(booked, Holding)

\* Where no request met another's reservation, who booked and is unpaid holds one.
OwnReservation ==
    ~crossed /\ ~tangled =>
        \A r \in Requests :
           booked[r].day # 0 /\ paid[r] = Nothing
               => session[r] \in Sessions /\ reserved[session[r]].by = {r}

BudgetInv ==
    /\ BudgetTypeOK /\ Trail /\ TomorrowUnspent /\ ReservationsHeld
    /\ Covered /\ OwnReservation /\ BooksBalance

-----------------------------------------------------------------------------
\* Nothing is spent, booked or paid at first.
LEMMA BudgetInitInv == BudgetInit /\ BudgetTypeOK => BudgetInv
<1> SUFFICES ASSUME BudgetInit, BudgetTypeOK PROVE BudgetInv
  OBVIOUS
<1> USE DEF BudgetInit
<1>1. Trail /\ TomorrowUnspent /\ ReservationsHeld /\ OwnReservation
  BY BudgetAssumption DEF Trail, TomorrowUnspent, ReservationsHeld, OwnReservation, Nothing
<1>2. PaidOn(day) = {}
  BY DEF PaidOn, Nothing
<1>3. OpenOn(day) = {}
  BY DEF OpenOn, Nothing
<1>4. Holding = {}
  BY DEF Holding, Free
<1>5. Total(paid, {}) = 0 /\ Total(booked, {}) = 0
  BY TotalEmpty
<1>6. spend[day] = 0
  BY BudgetAssumption
<1> HIDE DEF BudgetInit
<1>7. Covered /\ BooksBalance
  BY <1>2, <1>3, <1>4, <1>5, <1>6 DEF Covered, BooksBalance
<1> QED
  BY <1>1, <1>7 DEF BudgetInv

\* The sets that are summed are finite and their sums natural numbers.
LEMMA SumsType ==
    ASSUME BudgetTypeOK, NEW S \in SUBSET Requests
    PROVE  /\ IsFiniteSet(S)
           /\ \A x \in S : paid[x].amount \in Nat /\ booked[x].amount \in Nat
           /\ Total(paid, S) \in Nat /\ Total(booked, S) \in Nat
<1>1. IsFiniteSet(S)
  BY BudgetAssumption, FS_Subset
<1>2. \A x \in S : paid[x].amount \in Nat
  BY DEF BudgetTypeOK
<1>3. \A x \in S : booked[x].amount \in Nat
  BY DEF BudgetTypeOK
<1> QED
  BY <1>1, <1>2, <1>3, TotalType

\* Who is named by a reservation holds it, and only that one.
LEMMA NamedHolds ==
    ASSUME BudgetInv, NEW s \in Sessions, NEW q \in Requests, reserved[s].by = {q}
    PROVE  Holds(s, q)
<1>1. reserved[s] # Free
  BY DEF Free
<1>2. PICK p \in Requests : Holds(s, p)
  BY <1>1 DEF BudgetInv, ReservationsHeld
<1>3. reserved[s].by = {p}
  BY <1>2 DEF Holds
<1>4. p = q
  BY <1>3
<1> QED
  BY <1>2, <1>4

\* A step that moves one request and leaves the books alone.
LEMMA MovesOnly ==
    ASSUME BudgetInv, BudgetTypeOK', NEW r \in Requests,
           UNCHANGED <<day, spend, reserved, booked, paid, crossed, tangled>>,
           \A q \in Requests \ {r} : at'[q] = at[q] /\ session'[q] = session[q],
           \/ at[r] = "idle" /\ at'[r] = "check"
           \/ at[r] = "check" /\ at'[r] \in {"forward", "rejected"} /\ session' = session
           \/ at[r] = "forward" /\ at'[r] = "left" /\ session' = session
    PROVE  BudgetInv'
<1> USE DEF BudgetInv
<1>1. Trail' /\ TomorrowUnspent'
  BY DEF Trail, TomorrowUnspent, Nothing, BudgetTypeOK
<1>2. ReservationsHeld'
  <2>1. ASSUME NEW s \in Sessions, NEW q \in Requests, Holds(s, q) PROVE Holds(s, q)'
    <3>1. CASE q = r
      BY <2>1, <3>1 DEF Holds, Ends, BudgetTypeOK
    <3>2. CASE q # r
      BY <2>1, <3>2 DEF Holds
    <3> QED
      BY <3>1, <3>2
  <2> QED
    BY <2>1 DEF ReservationsHeld
<1>3. OwnReservation'
  BY DEF OwnReservation, Trail, Nothing
<1>4. PaidOn(day)' = PaidOn(day) /\ OpenOn(day)' = OpenOn(day) /\ Holding' = Holding
  BY DEF PaidOn, OpenOn, Holding
<1>5. Covered' /\ BooksBalance'
  BY <1>4 DEF Covered, BooksBalance
<1> QED
  BY <1>1, <1>2, <1>3, <1>5

\* A reservation: the sums grow by the same cost, and lose what it replaces.
LEMMA ReserveInv ==
    ASSUME BudgetInv, BudgetTypeOK', NEW r \in Requests, Reserve(r) PROVE BudgetInv'
<1> USE DEF BudgetInv
<1>1. PICK cost \in Costs :
         /\ spend' = [spend EXCEPT ![day] = @ + cost]
         /\ booked' = [booked EXCEPT ![r] = [amount |-> cost, day |-> day]]
         /\ IF session[r] = NoSession
            THEN tangled' = TRUE /\ UNCHANGED reserved
            ELSE /\ tangled' = (tangled \/ reserved[session[r]] # Free)
                 /\ reserved' = [reserved EXCEPT ![session[r]] = [amount |-> cost, by |-> {r}]]
  BY DEF Reserve
<1>2. /\ at[r] = "check" /\ at' = [at EXCEPT ![r] = "forward"]
      /\ UNCHANGED <<day, session, paid, crossed>>
  BY DEF Reserve, Checked
<1>3. /\ cost \in Nat /\ day \in 1..Days /\ spend[day] \in Nat /\ spend'[day] = spend[day] + cost
      /\ booked[r] = Nothing /\ booked'[r] = [amount |-> cost, day |-> day] /\ paid[r] = Nothing
      /\ at'[r] = "forward" /\ at[r] = "check"
  BY <1>1, <1>2, BudgetAssumption DEF BudgetTypeOK, Trail
<1>4. \A q \in Requests \ {r} : booked'[q] = booked[q] /\ at'[q] = at[q]
  BY <1>1, <1>2 DEF BudgetTypeOK
<1>5. Trail' /\ TomorrowUnspent'
  BY <1>1, <1>2, <1>3, <1>4, SMTT(30) DEF Trail, TomorrowUnspent, BudgetTypeOK
<1>6. ASSUME NEW s \in Sessions, NEW q \in Requests, Holds(s, q), reserved'[s] = reserved[s]
      PROVE  Holds(s, q)'
  BY <1>2, <1>3, <1>4, <1>6 DEF Holds
<1>7. r \notin Holding /\ Holding \in SUBSET Requests /\ \A q \in Holding : booked'[q].amount = booked[q].amount
  <2>1. r \notin Holding
    BY <1>2, NamedHolds DEF Holding, Holds
  <2> QED
    BY <1>4, <2>1 DEF Holding
<1>8. IsFiniteSet(Holding) /\ Total(booked, Holding) \in Nat /\ Total(paid, PaidOn(day)) \in Nat
  BY <1>7, SumsType DEF PaidOn
<1>9. PaidOn(day)' = PaidOn(day)
  BY <1>2 DEF PaidOn
<1>10. CASE session[r] = NoSession
  <2>1. tangled' /\ reserved' = reserved
    BY <1>1, <1>10
  <2>2. ReservationsHeld'
    BY <1>6, <2>1 DEF ReservationsHeld
  <2>3. Holding' = Holding
    BY <2>1 DEF Holding
  <2>4. Total(booked', Holding) = Total(booked, Holding)
    BY <1>7, <1>8, TotalSame
  <2>5. Covered'
    BY <1>2, <1>3, <1>8, <1>9, <2>3, <2>4 DEF Covered
  <2> QED
    BY <1>5, <2>1, <2>2, <2>5 DEF OwnReservation, BooksBalance
<1>11. CASE session[r] # NoSession
  <2> PICK s \in Sessions : s = session[r]
    BY <1>11 DEF BudgetTypeOK
  <2> DEFINE rest == Holding \ {q \in Requests : reserved[s].by = {q}}
  <2>1. reserved'[s] = [amount |-> cost, by |-> {r}]
        /\ \A t \in Sessions \ {s} : reserved'[t] = reserved[t]
    BY <1>1, <1>11 DEF BudgetTypeOK
  <2>2. Holds(s, r)'
    BY <1>2, <1>3, <2>1 DEF Holds
  <2>3. ReservationsHeld'
    BY <1>6, <2>1, <2>2 DEF ReservationsHeld
  <2>4. Holding' = rest \cup {r}
    <3>1. ASSUME NEW q \in Requests, q \in rest PROVE q \in Holding'
      BY <2>1, <3>1 DEF Holding
    <3>2. ASSUME NEW q \in Requests, q \in Holding', q # r PROVE q \in Holding /\ reserved[s].by # {q}
      <4>1. PICK t \in Sessions : reserved'[t].by = {q}
        BY <3>2 DEF Holding
      <4>2. t # s
        BY <2>1, <3>2, <4>1
      <4>3. Holds(t, q)
        BY <2>1, <4>1, <4>2, NamedHolds
      <4>4. ~ Holds(s, q)
        BY <4>2, <4>3 DEF Holds
      <4> QED
        BY <2>1, <4>1, <4>2, <4>4, NamedHolds DEF Holding
    <3>3. r \in Holding'
      BY <2>1 DEF Holding
    <3> QED
      BY <3>1, <3>2, <3>3 DEF Holding
  <2>5. Total(booked', Holding') = cost + Total(booked, rest)
    <3>1. rest \in SUBSET Requests /\ r \notin rest
      BY <1>7
    <3>2. IsFiniteSet(rest) /\ \A x \in rest : booked[x].amount \in Nat
      BY <3>1, SumsType
    <3>3. \A x \in rest : booked'[x].amount = booked[x].amount
      BY <1>7
    <3>4. booked'[r].amount = cost
      BY <1>3
    <3> HIDE DEF rest
    <3> QED
      BY <1>3, <2>4, <3>1, <3>2, <3>3, <3>4, TotalPutsIn
  <2>6. Total(booked, rest) \in Nat /\ Total(booked, rest) <= Total(booked, Holding)
    <3>1. CASE \E q \in Requests : reserved[s].by = {q}
      <4> PICK q \in Requests : reserved[s].by = {q}
        BY <3>1
      <4>1. rest = Holding \ {q}
        OBVIOUS
      <4>2. \A x \in Holding : booked[x].amount \in Nat
        BY <1>7, SumsType
      <4> HIDE DEF rest
      <4> QED
        BY <1>8, <4>1, <4>2, TotalLess
    <3>2. CASE ~ \E q \in Requests : reserved[s].by = {q}
      <4>1. rest = Holding
        BY <3>2
      <4> HIDE DEF rest
      <4> DEFINE n == Total(booked, Holding)
      <4>2. n \in Nat /\ n <= n
        BY <1>8
      <4> QED
        BY <4>1, <4>2
    <3> QED
      BY <3>1, <3>2
  <2>7. Covered'
    <3> DEFINE a == Total(paid, PaidOn(day))
               b == Total(booked, Holding)
               c == Total(booked, rest)
    <3>1. ~crossed => spend[day] >= a + b
      BY DEF Covered
    <3>2. a \in Nat /\ b \in Nat /\ c \in Nat /\ c <= b /\ spend[day] \in Nat /\ cost \in Nat
      BY <1>3, <1>8, <2>6
    <3>3. ~crossed => spend[day] + cost >= a + (cost + c)
      <4> HIDE DEF a, b, c
      <4> QED
        BY <3>1, <3>2
    <3>4. ~crossed => spend'[day] >= Total(paid, PaidOn(day)) + Total(booked', Holding')
      BY <1>3, <2>5, <3>3
    <3> HIDE DEF a, b, c
    <3> QED
      BY <1>2, <1>9, <3>4 DEF Covered
  <2>8. OwnReservation'
    <3> SUFFICES ASSUME ~crossed', ~tangled', NEW q \in Requests, booked'[q].day # 0, paid'[q] = Nothing
                 PROVE  session'[q] \in Sessions /\ reserved'[session'[q]].by = {q}
      BY DEF OwnReservation
    <3>1. ~tangled /\ reserved[s] = Free
      BY <1>1, <1>11
    <3>2. CASE q = r
      BY <1>2, <2>1, <3>2
    <3>3. CASE q # r
      <4>1. booked[q].day # 0 /\ paid[q] = Nothing
        BY <1>2, <1>4, <3>3
      <4>2. session[q] \in Sessions /\ reserved[session[q]].by = {q}
        BY <1>2, <3>1, <4>1 DEF OwnReservation
      <4>3. session[q] # s
        BY <3>1, <4>2 DEF Free
      <4> QED
        BY <1>2, <2>1, <4>2, <4>3
    <3> QED
      BY <3>2, <3>3
  <2>9. BooksBalance'
    <3>1. OpenOn(day)' = OpenOn(day) \cup {r} /\ r \notin OpenOn(day)
      BY <1>2, <1>3, <1>4 DEF OpenOn, Nothing
    <3>2. OpenOn(day) \in SUBSET Requests
      BY DEF OpenOn
    <3>3. /\ IsFiniteSet(OpenOn(day)) /\ \A x \in OpenOn(day) : booked[x].amount \in Nat
          /\ Total(booked, OpenOn(day)) \in Nat
      BY <3>2, SumsType
    <3>4. \A x \in OpenOn(day) : booked'[x].amount = booked[x].amount
      BY <1>4, <3>1, <3>2
    <3>5. Total(booked', OpenOn(day) \cup {r}) = cost + Total(booked, OpenOn(day))
      <4>1. booked'[r].amount = cost
        BY <1>3
      <4> QED
        BY <1>3, <3>1, <3>3, <3>4, <4>1, TotalPutsIn
    <3> DEFINE a == Total(paid, PaidOn(day))
               b == Total(booked, OpenOn(day))
    <3>6. ~crossed' /\ ~tangled' => spend[day] = a + b
      BY <1>1, <1>2, <1>11 DEF BooksBalance
    <3>7. ~crossed' /\ ~tangled' => spend[day] + cost = a + (cost + b)
      <4>1. a \in Nat /\ b \in Nat /\ cost \in Nat /\ spend[day] \in Nat
        BY <1>3, <1>8, <3>3
      <4> HIDE DEF a, b
      <4> QED
        BY <3>6, <4>1
    <3>8. ~crossed' /\ ~tangled' => spend'[day] = Total(paid, PaidOn(day)) + Total(booked', OpenOn(day)')
      BY <1>3, <3>1, <3>5, <3>7
    <3> HIDE DEF a, b
    <3> QED
      BY <1>2, <1>9, <3>8 DEF BooksBalance
  <2> QED
    BY <1>5, <2>3, <2>7, <2>8, <2>9
<1> QED
  BY <1>10, <1>11

\* An answer: its cost comes on top, and the session's reservation goes off.
LEMMA ServeInv ==
    ASSUME BudgetInv, BudgetTypeOK', NEW r \in Requests, Serve(r) PROVE BudgetInv'
<1> USE DEF BudgetInv
<1> DEFINE kept == Reservation(r)
<1>1. PICK cost \in Costs :
         /\ spend' = [spend EXCEPT ![day] = Larger(0, @ - Reservation(r).amount + cost)]
         /\ paid' = [paid EXCEPT ![r] = [amount |-> cost, day |-> day]]
  BY DEF Serve
<1>2. /\ at[r] = "forward" /\ at' = [at EXCEPT ![r] = "served"]
      /\ reserved' = Released(r)
      /\ tangled' = (tangled \/ \E other \in Requests \ {r} : other \in kept.by)
      /\ UNCHANGED <<day, session, booked, crossed>>
  BY DEF Serve
<1>3. /\ cost \in Nat /\ day \in 1..Days /\ spend[day] \in Nat
      /\ spend'[day] = Larger(0, spend[day] - kept.amount + cost)
      /\ paid[r] = Nothing /\ paid'[r] = [amount |-> cost, day |-> day] /\ at'[r] = "served"
  BY <1>1, <1>2, BudgetAssumption DEF BudgetTypeOK, Trail
<1>4. \A q \in Requests \ {r} : paid'[q] = paid[q] /\ at'[q] = at[q]
  BY <1>1, <1>2 DEF BudgetTypeOK
<1>5. Trail' /\ TomorrowUnspent'
  <2> DEFINE Trailed(q) ==
        /\ booked[q].day <= day /\ paid[q].day <= day
        /\ at[q] \in {"idle", "check"} => booked[q] = Nothing
        /\ IF at[q] = "served" THEN paid[q].day # 0 ELSE paid[q] = Nothing
  <2>1. Trail'
    <3>1. ASSUME NEW q \in Requests, q # r PROVE Trailed(q)'
      <4>1. Trailed(q)
        BY DEF Trail
      <4> QED
        BY <1>2, <1>4, <3>1, <4>1
    <3>2. Trailed(r)'
      <4>1. booked[r].day <= day
        BY DEF Trail
      <4>2. paid'[r].day = day /\ day # 0 /\ day \in Nat
        BY <1>3, BudgetAssumption
      <4> QED
        BY <1>2, <1>3, <4>1, <4>2
    <3> QED
      BY <3>1, <3>2 DEF Trail
  <2>2. \A d \in 1..Days : d # day => spend'[d] = spend[d]
    BY <1>1 DEF BudgetTypeOK
  <2>3. TomorrowUnspent'
    BY <1>2, <1>3, <2>2 DEF TomorrowUnspent
  <2> QED
    BY <2>1, <2>3
<1>6. \A s \in Sessions : reserved'[s] = IF s = session[r] THEN Free ELSE reserved[s]
  BY <1>2, BudgetAssumption DEF Released, BudgetTypeOK
<1>7. ReservationsHeld'
  <2>1. ASSUME NEW s \in Sessions, NEW q \in Requests, Holds(s, q), s # session[r]
        PROVE  Holds(s, q)'
    BY <1>2, <1>4, <1>6, <2>1 DEF Holds
  <2> QED
    BY <1>6, <2>1 DEF ReservationsHeld
<1>8. PaidOn(day)' = PaidOn(day) \cup {r} /\ r \notin PaidOn(day)
  BY <1>2, <1>3, <1>4 DEF PaidOn, Nothing
<1>9. PaidOn(day) \in SUBSET Requests /\ Holding \in SUBSET Requests /\ OpenOn(day) \in SUBSET Requests
  BY DEF PaidOn, Holding, OpenOn
<1>10. Total(paid', PaidOn(day)') = cost + Total(paid, PaidOn(day))
  <2>1. IsFiniteSet(PaidOn(day)) /\ \A x \in PaidOn(day) : paid[x].amount \in Nat
    BY <1>9, SumsType
  <2>2. \A x \in PaidOn(day) : paid'[x].amount = paid[x].amount
    BY <1>4, <1>8, <1>9
  <2>3. paid'[r].amount = cost
    BY <1>3
  <2>4. Total(paid', PaidOn(day) \cup {r}) = cost + Total(paid, PaidOn(day))
    BY <1>3, <1>8, <2>1, <2>2, <2>3, TotalPutsIn
  <2> QED
    BY <1>8, <2>4
<1>11. Total(paid, PaidOn(day)) \in Nat /\ Total(booked, Holding) \in Nat /\ Total(booked, OpenOn(day)) \in Nat
  BY <1>9, SumsType
\* What is released was counted among the reservations.
<1>12. kept.amount \in Nat /\ Total(booked, Holding') \in Nat
       /\ kept.amount + Total(booked, Holding') = Total(booked, Holding)
  <2>1. CASE kept = Free
    <3>1. reserved' = reserved
      BY <1>2, <1>6, <2>1 DEF Released, Reservation, BudgetTypeOK
    <3>2. Holding' = Holding
      BY <3>1 DEF Holding
    <3>3. kept.amount = 0
      BY <2>1 DEF Free
    <3> DEFINE n == Total(booked, Holding)
    <3>4. n \in Nat /\ 0 + n = n
      BY <1>11
    <3> HIDE DEF kept, n
    <3> QED
      BY <3>2, <3>3, <3>4 DEF n
  <2>2. CASE kept # Free
    <3> PICK s \in Sessions : s = session[r] /\ kept = reserved[s]
      BY <2>2 DEF Reservation, BudgetTypeOK
    <3> PICK q \in Requests : Holds(s, q)
      BY <2>2 DEF ReservationsHeld
    <3>1. kept = [amount |-> booked[q].amount, by |-> {q}] /\ q \in Holding
      BY DEF Holds, Holding
    <3>2. Holding' = Holding \ {q}
      <4>1. ASSUME NEW p \in Requests, NEW t \in Sessions, reserved'[t].by = {p}
            PROVE  reserved[t].by = {p} /\ p # q
        <5>1. t # s /\ reserved[t].by = {p}
          BY <1>6, <4>1 DEF Free
        <5>2. Holds(t, p)
          BY <5>1, NamedHolds
        <5> QED
          BY <5>1, <5>2 DEF Holds
      <4>2. ASSUME NEW p \in Requests, p # q, NEW t \in Sessions, reserved[t].by = {p}
            PROVE  reserved'[t].by = {p}
        <5>1. t # s
          BY <4>2 DEF Holds
        <5> QED
          BY <1>6, <4>2, <5>1
      <4> QED
        BY <4>1, <4>2 DEF Holding
    <3>3. IsFiniteSet(Holding) /\ \A x \in Holding : booked[x].amount \in Nat
      BY <1>9, SumsType
    <3>4. Total(booked, Holding) = booked[q].amount + Total(booked, Holding \ {q})
      BY <3>1, <3>3, TotalTakesOut
    <3>5. Total(booked, Holding \ {q}) \in Nat /\ booked[q].amount \in Nat
      BY <3>1, <3>3, TotalLess
    <3> QED
      BY <3>1, <3>2, <3>4, <3>5
  <2> QED
    BY <2>1, <2>2
<1>13. Covered'
  <2> DEFINE a == Total(paid, PaidOn(day))
             b == Total(booked, Holding)
             c == Total(booked, Holding')
             k == kept.amount
  <2>1. a \in Nat /\ b \in Nat /\ c \in Nat /\ k \in Nat /\ k + c = b
    BY <1>11, <1>12
  <2>2. ~crossed => spend[day] >= a + b
    BY DEF Covered
  <2>3. ~crossed => Larger(0, spend[day] - k + cost) >= (cost + a) + c
    <3> HIDE DEF a, b, c, k
    <3> QED
      BY <1>3, <2>1, <2>2 DEF Larger
  <2>4. ~crossed => spend'[day] >= Total(paid', PaidOn(day)') + Total(booked, Holding')
    BY <1>3, <1>10, <2>3
  <2> HIDE DEF a, b, c, k, kept
  <2> QED
    BY <1>2, <2>4 DEF Covered
<1>14. OwnReservation'
  <2> SUFFICES ASSUME ~crossed', ~tangled', NEW q \in Requests, booked'[q].day # 0, paid'[q] = Nothing
               PROVE  session'[q] \in Sessions /\ reserved'[session'[q]].by = {q}
    BY DEF OwnReservation
  <2>1. q # r /\ paid[q] = Nothing /\ booked[q].day # 0
    BY <1>2, <1>3, <1>4 DEF Nothing
  <2>2. session[q] \in Sessions /\ reserved[session[q]].by = {q}
    BY <1>2, <2>1 DEF OwnReservation
  <2>3. session[q] # session[r]
    BY <1>2, <2>1, <2>2, BudgetAssumption DEF Reservation
  <2> QED
    BY <1>2, <1>6, <2>2, <2>3
<1>15. BooksBalance'
  <2> SUFFICES ASSUME ~crossed', ~tangled' PROVE BooksBalance'
    BY DEF BooksBalance
  <2>1. ~crossed /\ ~tangled /\ \A q \in Requests : q \in kept.by => q = r
    BY <1>2
  <2>2. kept.amount \in Nat /\ Total(booked, OpenOn(day)') \in Nat
        /\ kept.amount + Total(booked, OpenOn(day)') = Total(booked, OpenOn(day))
    <3>1. OpenOn(day)' = OpenOn(day) \ {r}
      BY <1>2, <1>3, <1>4 DEF OpenOn, Nothing
    <3>2. IsFiniteSet(OpenOn(day)) /\ \A x \in OpenOn(day) : booked[x].amount \in Nat
      BY <1>9, SumsType
    <3>3. CASE kept = Free
      <4>1. r \notin OpenOn(day)
        <5>1. session[r] \in Sessions => reserved[session[r]].by # {r}
          BY <3>3, BudgetAssumption DEF Reservation, Free
        <5> QED
          BY <1>3, <2>1, <5>1 DEF OwnReservation, OpenOn
      <4>2. OpenOn(day)' = OpenOn(day)
        BY <3>1, <4>1
      <4>3. kept.amount = 0
        BY <3>3 DEF Free
      <4> DEFINE n == Total(booked, OpenOn(day))
      <4>4. n \in Nat /\ 0 + n = n
        BY <1>11
      <4> HIDE DEF kept, n
      <4> QED
        BY <4>2, <4>3, <4>4 DEF n
    <3>4. CASE kept # Free
      <4> PICK s \in Sessions : s = session[r] /\ kept = reserved[s]
        BY <3>4 DEF Reservation, BudgetTypeOK
      <4> PICK q \in Requests : Holds(s, q)
        BY <3>4 DEF ReservationsHeld
      <4>1. q = r
        BY <2>1 DEF Holds
      <4>2. kept.amount = booked[r].amount /\ booked[r].day = day
        BY <2>1, <4>1 DEF Holds
      <4>3. r \in OpenOn(day)
        BY <1>3, <4>2 DEF OpenOn
      <4>4. Total(booked, OpenOn(day)) = booked[r].amount + Total(booked, OpenOn(day) \ {r})
        BY <3>2, <4>3, TotalTakesOut
      <4>5. Total(booked, OpenOn(day) \ {r}) \in Nat /\ booked[r].amount \in Nat
        BY <3>2, <4>3, TotalLess
      <4> QED
        BY <3>1, <4>2, <4>4, <4>5
    <3> QED
      BY <3>3, <3>4
  <2> DEFINE a == Total(paid, PaidOn(day))
             b == Total(booked, OpenOn(day))
             c == Total(booked, OpenOn(day)')
             k == kept.amount
  <2>3. a \in Nat /\ b \in Nat /\ c \in Nat /\ k \in Nat /\ k + c = b
    BY <1>11, <2>2
  <2>4. spend[day] = a + b
    BY <2>1 DEF BooksBalance
  <2>5. Larger(0, spend[day] - k + cost) = (cost + a) + c
    <3> HIDE DEF a, b, c, k
    <3> QED
      BY <1>3, <2>3, <2>4 DEF Larger
  <2>6. spend'[day] = Total(paid', PaidOn(day)') + Total(booked, OpenOn(day)')
    BY <1>3, <1>10, <2>5
  <2> HIDE DEF a, b, c, k, kept
  <2> QED
    BY <1>2, <2>6 DEF BooksBalance
<1> QED
  BY <1>5, <1>7, <1>13, <1>14, <1>15

\* Midnight: nothing is known of the new day, and nothing is still reserved.
LEMMA MidnightInv == BudgetInv /\ BudgetTypeOK' /\ Midnight => BudgetInv'
<1> SUFFICES ASSUME BudgetInv, BudgetTypeOK', Midnight PROVE BudgetInv'
  OBVIOUS
<1> USE DEF BudgetInv, Midnight
<1>1. day \in Nat /\ day' = day + 1 /\ day' \in 1..Days
  BY BudgetAssumption DEF BudgetTypeOK
<1>2. \A r \in Requests : booked[r].day \in Nat /\ paid[r].day \in Nat
  BY BudgetAssumption DEF BudgetTypeOK
<1>3. Trail' /\ TomorrowUnspent'
  BY <1>1, <1>2, BudgetAssumption DEF Trail, TomorrowUnspent
<1>4. ReservationsHeld'
  <2>1. ASSUME NEW s \in Sessions, NEW q \in Requests, Holds(s, q) PROVE Holds(s, q)'
    <3>1. crossed'
      <4>1. reserved[s] # Free
        BY <2>1 DEF Holds, Free
      <4> QED
        BY <4>1
    <3> QED
      BY <2>1, <3>1 DEF Holds
  <2> QED
    BY <2>1 DEF ReservationsHeld
<1>5. OwnReservation'
  BY DEF OwnReservation
<1>6. PaidOn(day') = {} /\ OpenOn(day') = {}
  BY <1>1, <1>2 DEF PaidOn, OpenOn, Trail
<1>7. spend'[day'] = 0
  BY <1>1 DEF TomorrowUnspent
<1>8. ~crossed' => Holding' = {}
  <2>1. ASSUME NEW s \in Sessions, reserved[s] # Free PROVE crossed'
    BY <2>1
  <2>2. reserved' = reserved
    OBVIOUS
  <2> HIDE DEF Midnight
  <2> QED
    BY <2>1, <2>2 DEF Holding, Free
<1>9. Total(paid, {}) = 0 /\ Total(booked, {}) = 0
  BY TotalEmpty
<1>10. Covered' /\ BooksBalance'
  <2>1. PaidOn(day)' = {} /\ OpenOn(day)' = {} /\ paid' = paid /\ booked' = booked
    BY <1>6 DEF PaidOn, OpenOn
  <2> HIDE DEF Midnight
  <2> QED
    BY <1>7, <1>8, <1>9, <2>1 DEF Covered, BooksBalance
<1> QED
  BY <1>3, <1>4, <1>5, <1>10

\* Every step of the budget, whatever the settings in force.
LEMMA BudgetNextInv ==
    ASSUME NEW version, BudgetInv, BudgetTypeOK', BudgetNext(version) PROVE BudgetInv'
<1>1. ASSUME NEW r \in Requests, Arrive(r, version) \/ PassUnchecked(r) \/ Exceed(r) \/ Leave(r)
      PROVE  BudgetInv'
  <2>1. UNCHANGED <<day, spend, reserved, booked, paid, crossed, tangled>>
    BY <1>1 DEF Arrive, PassUnchecked, Exceed, Leave
  <2>2. \A q \in Requests \ {r} : at'[q] = at[q] /\ session'[q] = session[q]
    BY <1>1 DEF Arrive, PassUnchecked, Exceed, Leave, BudgetInv, BudgetTypeOK
  <2>3. \/ at[r] = "idle" /\ at'[r] = "check"
        \/ at[r] = "check" /\ at'[r] \in {"forward", "rejected"} /\ session' = session
        \/ at[r] = "forward" /\ at'[r] = "left" /\ session' = session
    BY <1>1 DEF Arrive, PassUnchecked, Exceed, Checked, Leave, BudgetInv, BudgetTypeOK
  <2> QED
    BY <2>1, <2>2, <2>3, MovesOnly
<1>2. ASSUME NEW r \in Requests, Reserve(r) \/ Serve(r) PROVE BudgetInv'
  BY <1>2, ReserveInv, ServeInv
<1> QED
  BY <1>1, <1>2, MidnightInv DEF BudgetNext

\* And the steps that leave it alone.
LEMMA BudgetStands == BudgetInv /\ UNCHANGED budgetVars => BudgetInv'
BY DEF budgetVars, BudgetInv, BudgetTypeOK, Trail, TomorrowUnspent, ReservationsHeld, Holds,
       Covered, Holding, OwnReservation, BooksBalance, PaidOn, OpenOn

-----------------------------------------------------------------------------
\* The two sides change together only in what they leave alone.
THEOREM Invariance == Spec => [](ConfigInv /\ BudgetInv)
  <1>1. Init => ConfigInv /\ BudgetInv
    <2>1. BudgetInit => BudgetTypeOK
      <3> SUFFICES ASSUME BudgetInit PROVE BudgetTypeOK
        OBVIOUS
      <3>1. day \in 1..Days /\ spend \in [1..Days -> Nat] /\ 0 \in 0..Days
        BY BudgetAssumption DEF BudgetInit
      <3>2. reserved \in [Sessions -> [amount : Nat, by : SUBSET Requests]]
        BY DEF BudgetInit, Free
      <3>3. booked \in [Requests -> [amount : Nat, day : 0..Days]] /\ paid = booked
        BY <3>1 DEF BudgetInit, Nothing
      <3> QED BY <3>1, <3>2, <3>3 DEF BudgetInit, BudgetTypeOK, Ends
    <2> QED BY <2>1, BudgetInitInv, ConfigInitInv DEF Init
  <1>2. ConfigInv /\ BudgetInv /\ [Next]_vars => (ConfigInv /\ BudgetInv)'
    <2> SUFFICES ASSUME ConfigInv, BudgetInv, [Next]_vars
                 PROVE ConfigInv' /\ BudgetInv'
      OBVIOUS
    <2>1. settings \in Nat /\ BudgetTypeOK
      BY DEF ConfigInv, ConfigTypeOK, BudgetInv
    <2>2. CASE ConfigNext /\ UNCHANGED budgetVars
      BY <2>2, BudgetStands, ConfigNextInv
    <2>3. CASE BudgetNext(settings) /\ UNCHANGED configVars
      BY <2>1, <2>3, BudgetNextType, BudgetNextInv, ConfigNextInv
    <2>4. CASE UNCHANGED vars
      BY <2>4, BudgetStands, ConfigNextInv DEF vars
    <2> QED BY <2>2, <2>3, <2>4 DEF Next
  <1> QED BY <1>1, <1>2, PTL DEF Spec

\* The settings' and the budget's state keep their types.
THEOREM TypeCorrect == Spec => []TypeOK
  <1>1. ConfigInv /\ BudgetInv => TypeOK
    BY DEF ConfigInv, BudgetInv, TypeOK
  <1> QED BY <1>1, Invariance, PTL

\* When both loaders are idle and the watcher sees nothing to do, the settings are
\* those of the file and the captured parts alone may work by others, but for the
\* two cases ReloadComplete names; for any number of writes, reloads and requests.
THEOREM ReloadIsComplete == Spec => []ReloadComplete
  <1>1. ConfigInv => ReloadComplete
    <2> SUFFICES ASSUME ConfigInv, Settled, ~adminLast
                 PROVE  \A c \in Components : live[c] = settings
      BY DEF ConfigInv, ReloadComplete, Settled, Quiet, UpToDate, Behind, Parts, SettingsTaken,
             Loaders
    <2> QED
      BY DEF ConfigInv, Settled, Quiet, ComponentsTold, Told, Loaders, Components
  <1> QED BY <1>1, Invariance, PTL

\* Until a reservation is open at midnight, today's total is never less than what
\* today's answers are known to have cost, for any number of requests, sessions,
\* costs and settings, and whichever of them share a session, fail or stream.
THEOREM SpendIsCovered == Spec => []SpendCovers
  <1>1. BudgetInv => SpendCovers
    <2> SUFFICES ASSUME BudgetInv, ~crossed PROVE spend[day] >= Total(paid, PaidOn(day))
      BY DEF SpendCovers
    <2> DEFINE a == Total(paid, PaidOn(day))
               b == Total(booked, Holding)
    <2>1. a \in Nat /\ b \in Nat
      BY SumsType DEF BudgetInv, PaidOn, Holding
    <2>2. spend[day] \in Nat /\ spend[day] >= a + b
      BY DEF BudgetInv, BudgetTypeOK, Covered
    <2> HIDE DEF a, b
    <2>3. spend[day] >= a
      BY <2>1, <2>2
    <2> QED BY <2>3 DEF a
  <1> QED BY <1>1, Invariance, PTL

\* Where moreover no request met another's reservation, today's total is exactly
\* what was paid and what is still reserved.
THEOREM BooksAreBalanced == Spec => []BooksBalance
  <1>1. BudgetInv => BooksBalance
    BY DEF BudgetInv
  <1> QED BY <1>1, Invariance, PTL
=============================================================================
