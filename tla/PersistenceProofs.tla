--------------------------- MODULE PersistenceProofs ---------------------------
(***************************************************************************)
(* What Persistence guarantees for every list of account files, every set  *)
(* of host keys and every set of contents.                                 *)
(*                                                                         *)
(* AllOrNothing needs only that checksums on the flash are those of the    *)
(* last complete save.  That a save is not lost needs the order of the     *)
(* steps as well: PlanInv says of the steps that are left that a group's   *)
(* checksums come after all its files, and only after the group is marked  *)
(* as being replaced.                                                      *)
(***************************************************************************)
EXTENDS Persistence, Integers, SequenceTheorems, FiniteSetTheorems, TLAPS

AllSums == UNION {Sums(g) : g \in Group}

\* The flash, and what was saved on it.
FlashType ==
  /\ flash \in [File -> Content \cup {Absent}]
  /\ \A f \in File : flash[f] \in Savable(f) \cup {Absent, Partial}
  /\ sums \in [Group -> AllSums] /\ complete \in [Group -> AllSums]
  /\ \A g \in Group : sums[g] \in Sums(g) /\ complete[g] \in Sums(g) \ {Partial}
  /\ settled \in [Group -> BOOLEAN]

EtcType ==
  /\ etc \in [File -> Content \cup {Absent}]
  /\ \A f \in File : etc[f] \in Savable(f) \cup {Absent}
  /\ \A f \in Credentials : etc[f] # Absent

\* Nothing is saved while a boot restores.
BootFirst ==
  /\ usable \in BOOLEAN /\ writing \in BOOLEAN
  /\ restorer \in Group \cup {"done"}
  /\ restorer # "done" => todo = <<>>
  /\ writing => todo # <<>>

\* Checksums on the flash are those of the last complete save.
SumsAreComplete ==
  \A g \in Group : sums[g] \in {Absent, Partial} \/ sums[g] = complete[g]

\* Where the last save was not disturbed, the files are its files, and no others.
FlashIsComplete ==
  \A g \in Group : settled[g] /\ complete[g] # Absent
    => /\ sums[g] = complete[g]
       /\ \A f \in Files(g) :
            flash[f] = IF f \in DOMAIN complete[g] THEN complete[g][f] ELSE Absent

\* The step that the checksums of a group of keys follow at once.
Leads(step, g) ==
  \/ (step = Glob /\ g = "keys")
  \/ (step = Install("authorized_keys") /\ g = "authorized")

\* The shape of a list of steps: checksums once per group, those of keys right after
\* the step that leads to them; the partition is erased by itself.
Shape(s) ==
  /\ s \in Seq(Step)
  /\ \A i, j \in 1..Len(s) : s[i] = s[j] /\ s[i].op = "sum" => i = j
  /\ \A i \in 1..Len(s), g \in {"keys", "authorized"} :
       Leads(s[i], g) => i + 1 \in 1..Len(s) /\ s[i + 1] = Sum(g)
  /\ \A i \in 1..Len(s) : s[i] = Erase => Len(s) = 1

\* The steps that install f, if it is there.
Puts(step, f) == step = Install(f) \/ (step = Glob /\ f \in HostKeys)

\* A step before position i installs f.
Before(s, i, f) == \E j \in 1..i - 1 : Puts(s[j], f)

\* The files of a group are installed before its checksums are made, or are ready.
Covered(s, ready) ==
  \A i \in 1..Len(s), g \in Group : s[i] = Sum(g) =>
    \A f \in Files(g) : Before(s, i, f) \/ f \in ready

\* The files that are whole and newly written, and the host keys that may have been
\* missing when the pattern was expanded.
Ready ==
  {f \in File : \/ flash[f] \in Savable(f) \cap shown[f]
               \/ (f \in HostKeys /\ Absent \in shown[f])}

PlanInv == Shape(todo) /\ Covered(todo, Ready)

\* What a file holds while antsdr-persist runs is among what it has held.
ShownInv ==
  /\ shown \in [File -> SUBSET (Content \cup {Absent})]
  /\ \A f \in File : shown[f] \subseteq Savable(f) \cup {Absent}
  /\ todo = <<>> => shown = NothingShown
  /\ todo # <<>> => \A f \in File : etc[f] \in shown[f]

\* The file being written is there, and its group is being replaced.
WritingInv ==
  writing /\ Next_step.op = "install" =>
    etc[Next_step.on] # Absent /\ ~settled[GroupOf(Next_step.on)]

\* The groups a boot has been through are back.
BootInv ==
  /\ restorer \in {"keys", "authorized"} /\ Saved("credentials")
       => Restored("credentials")
  /\ restorer = "authorized" /\ Saved("keys") => Restored("keys")

IInv ==
  /\ FlashType /\ EtcType /\ BootFirst /\ SumsAreComplete /\ FlashIsComplete
  /\ PlanInv /\ ShownInv /\ WritingInv /\ BootInv
-------------------------------------------------------------------------------
\* Files and groups.

LEMMA FileFacts ==
  /\ \A g \in Group : Files(g) \subseteq File
  /\ Files("credentials") # {}
  /\ \A f \in File : \E g \in Group : f \in Files(g)
  /\ \A g, h \in Group : g # h => Files(g) \cap Files(h) = {}
  /\ Files("credentials") = Credentials
  /\ Files("keys") = HostKeys
  /\ Files("authorized") = {"authorized_keys"}
<1>1. Credentials # {}
  BY ContentAssumption DEF Credentials, ToSet
<1> QED
  BY <1>1, ContentAssumption DEF File, Files, Group, Credentials

LEMMA GroupOfFile ==
  ASSUME NEW g \in Group, NEW f \in Files(g)
  PROVE  GroupOf(f) = g
BY FileFacts DEF GroupOf

LEMMA FileHasGroup ==
  ASSUME NEW f \in File
  PROVE  GroupOf(f) \in Group /\ f \in Files(GroupOf(f))
BY FileFacts DEF GroupOf

LEMMA ContentFacts ==
  /\ Absent \notin Content /\ Absent # Partial
  /\ Factory \in Content
  /\ \A f \in Credentials : Factory \in Savable(f)
  /\ \A f \in File : ContentOf(f) \subseteq Savable(f) /\ Savable(f) \subseteq Content
  /\ \A f \in File : Absent \notin Savable(f)
  /\ \A f \in File : f \notin HostKeys => Partial \notin Savable(f)
  /\ \A f \in HostKeys : Partial \in Savable(f)
BY ContentAssumption DEF Content, ContentOf, Savable, Credentials

\* A copy lists files of its group, and has something to say of each.
LEMMA CopyFacts ==
  ASSUME NEW g \in Group, NEW c \in Copies(g)
  PROVE  /\ DOMAIN c \subseteq Files(g) /\ c \in [DOMAIN c -> Content]
         /\ g # "keys" => DOMAIN c = Files(g)
         /\ \A f \in DOMAIN c : c[f] \in Savable(f) /\ c[f] # Absent
<1>1. PICK listed \in Listings(g) : c \in [listed -> Content]
  BY DEF Copies
<1>2. DOMAIN c = listed
  BY <1>1
<1>3. listed \subseteq Files(g) /\ (g # "keys" => listed = Files(g))
  BY FileFacts DEF Listings
<1>4. \A f \in DOMAIN c : c[f] \in Savable(f)
  BY DEF Copies
<1> QED
  BY <1>1, <1>2, <1>3, <1>4, ContentFacts

\* Checksums that are there are those of a copy.
LEMMA SumsAreCopies ==
  ASSUME NEW g \in Group, NEW c \in Sums(g), c \notin {Absent, Partial}
  PROVE  c \in Copies(g)
BY DEF Sums

\* A step is one of four kinds.
LEMMA StepKinds ==
  ASSUME NEW s \in Step
  PROVE  \/ s.op = "install" /\ s.on \in File /\ s = Install(s.on)
         \/ s.op = "sum" /\ s.on \in Group /\ s = Sum(s.on)
         \/ s.op = "glob" /\ s = Glob
         \/ s.op = "erase" /\ s = Erase
BY DEF Step, Install, Sum, Glob, Erase

LEMMA StepsDiffer ==
  ASSUME NEW f, NEW g
  PROVE  /\ Install(f) # Sum(g) /\ Install(f) # Erase /\ Sum(g) # Erase
         /\ Install(f).op = "install" /\ Sum(g).op = "sum" /\ Erase.op = "erase"
         /\ Install(f).on = f /\ Sum(g).on = g
         /\ Glob # Install(f) /\ Glob # Sum(g) /\ Glob # Erase /\ Glob.op = "glob"
BY DEF Install, Sum, Glob, Erase

LEMMA SameInstall ==
  ASSUME NEW f, NEW h, Install(f) = Install(h)
  PROVE  f = h
BY StepsDiffer

LEMMA SameSum ==
  ASSUME NEW g, NEW h, Sum(g) = Sum(h)
  PROVE  g = h
BY StepsDiffer

\* What is left of a list of steps after the first.
LEMMA TailFacts ==
  ASSUME NEW s \in Seq(Step), s # <<>>
  PROVE  /\ Tail(s) \in Seq(Step) /\ Len(s) \in Nat /\ Len(s) >= 1
         /\ Len(Tail(s)) = Len(s) - 1
         /\ \A i \in 1..Len(Tail(s)) : Tail(s)[i] = s[i + 1]
         /\ Head(s) = s[1] /\ Head(s) \in Step
OBVIOUS

LEMMA ShapeTail ==
  ASSUME NEW s, Shape(s), s # <<>>
  PROVE  Shape(Tail(s))
<1>1. s \in Seq(Step)
  BY DEF Shape
<1>2. /\ Tail(s) \in Seq(Step) /\ Len(s) \in Nat /\ Len(s) >= 1
      /\ Len(Tail(s)) = Len(s) - 1
      /\ \A i \in 1..Len(Tail(s)) : Tail(s)[i] = s[i + 1]
  BY <1>1, TailFacts
<1>3. \A i, j \in 1..Len(Tail(s)) :
        Tail(s)[i] = Tail(s)[j] /\ Tail(s)[i].op = "sum" => i = j
  <2> TAKE i, j \in 1..Len(Tail(s))
  <2>1. i + 1 \in 1..Len(s) /\ j + 1 \in 1..Len(s)
    BY <1>2
  <2> QED
    BY <1>2, <2>1 DEF Shape
<1>4. \A i \in 1..Len(Tail(s)), g \in {"keys", "authorized"} : Leads(Tail(s)[i], g)
          => i + 1 \in 1..Len(Tail(s)) /\ Tail(s)[i + 1] = Sum(g)
  <2> SUFFICES ASSUME NEW i \in 1..Len(Tail(s)), NEW g \in {"keys", "authorized"},
                      Leads(Tail(s)[i], g)
               PROVE  i + 1 \in 1..Len(Tail(s)) /\ Tail(s)[i + 1] = Sum(g)
    OBVIOUS
  <2>1. i + 1 \in 1..Len(s) /\ Leads(s[i + 1], g)
    BY <1>2
  <2>2. (i + 1) + 1 \in 1..Len(s) /\ s[(i + 1) + 1] = Sum(g)
    BY <2>1 DEF Shape
  <2> QED
    BY <1>2, <2>2
<1>5. \A i \in 1..Len(Tail(s)) : Tail(s)[i] = Erase => Len(Tail(s)) = 1
  <2> SUFFICES ASSUME NEW i \in 1..Len(Tail(s)), Tail(s)[i] = Erase
               PROVE  Len(Tail(s)) = 1
    OBVIOUS
  <2>1. i + 1 \in 1..Len(s) /\ s[i + 1] = Erase
    BY <1>2
  <2> QED
    BY <1>2, <2>1 DEF Shape
<1> QED
  BY <1>2, <1>3, <1>4, <1>5 DEF Shape

-------------------------------------------------------------------------------
\* The commands of antsdr-persist, as lists of steps.

\* A list of steps that begins from nothing: every group's checksums come after
\* all the files of the group.
Fresh(s) == Shape(s) /\ Covered(s, {})

LEMMA AccountFacts ==
  /\ Len(Accounts) \in Nat
  /\ \A i \in 1..Len(Accounts) : Accounts[i] \in Credentials
  /\ \A f \in Credentials : \E i \in 1..Len(Accounts) : Accounts[i] = f
  /\ Credentials \subseteq File
BY ContentAssumption, FileFacts DEF Credentials, ToSet, Group

LEMMA InstallIsStep ==
  /\ \A f \in File : Install(f) \in Step
  /\ \A g \in Group : Sum(g) \in Step
  /\ Glob \in Step /\ Erase \in Step
BY DEF Step

\* save_credentials, position by position.
LEMMA CredentialsPlan ==
  /\ save_credentials \in Seq(Step)
  /\ Len(save_credentials) = Len(Accounts) + 1
  /\ \A i \in 1..Len(Accounts) : save_credentials[i] = Install(Accounts[i])
  /\ save_credentials[Len(Accounts) + 1] = Sum("credentials")
<1> DEFINE s == [i \in 1..Len(Accounts) |-> Install(Accounts[i])]
<1>1. s \in Seq(Step) /\ Len(s) = Len(Accounts)
  <2>1. s \in [1..Len(Accounts) -> Step]
    BY AccountFacts, InstallIsStep
  <2> QED
    BY <2>1, AccountFacts
<1> DEFINE t == <<Sum("credentials")>>
<1>2. t \in Seq(Step) /\ Len(t) = 1 /\ t[1] = Sum("credentials")
  BY InstallIsStep DEF Group
<1>3. \A i \in 1..Len(Accounts) : s[i] = Install(Accounts[i])
  OBVIOUS
<1>4. save_credentials = s \o t
  BY DEF save_credentials
<1> HIDE DEF s, t
<1>5. /\ s \o t \in Seq(Step) /\ Len(s \o t) = Len(s) + Len(t)
      /\ \A i \in 1..Len(s) + Len(t) :
           (s \o t)[i] = IF i <= Len(s) THEN s[i] ELSE t[i - Len(s)]
  BY <1>1, <1>2, ConcatProperties
<1> QED
  BY <1>1, <1>2, <1>3, <1>4, <1>5, AccountFacts

LEMMA KeysPlan ==
  /\ save_keys \in Seq(Step) /\ Len(save_keys) = 4
  /\ save_keys[1] = Glob /\ save_keys[2] = Sum("keys")
  /\ save_keys[3] = Install("authorized_keys") /\ save_keys[4] = Sum("authorized")
<1>1. "authorized_keys" \in File
  BY FileFacts DEF Group
<1>2. /\ Glob \in Step /\ Sum("keys") \in Step
      /\ Install("authorized_keys") \in Step /\ Sum("authorized") \in Step
  BY <1>1, InstallIsStep DEF Group
<1> QED
  BY <1>2 DEF save_keys

\* Account files are no key files.
LEMMA KeysAreNoAccounts ==
  ASSUME NEW i \in 1..Len(Accounts)
  PROVE  Accounts[i] # "authorized_keys"
BY ContentAssumption, AccountFacts DEF Credentials

LEMMA FreshCredentials == Fresh(save_credentials)
<1> DEFINE n == Len(Accounts)
           s == save_credentials
<1>1. /\ s \in Seq(Step) /\ Len(s) = n + 1 /\ n \in Nat
      /\ \A i \in 1..n : s[i] = Install(Accounts[i])
      /\ s[n + 1] = Sum("credentials")
  BY CredentialsPlan, AccountFacts
<1> HIDE DEF s
<1>2. \A i, j \in 1..Len(s) : s[i] = s[j] /\ s[i].op = "sum" => i = j
  BY <1>1, StepsDiffer
<1>3. \A i \in 1..Len(s), g \in {"keys", "authorized"} : ~Leads(s[i], g)
  <2> SUFFICES ASSUME NEW i \in 1..Len(s)
               PROVE  s[i] # Glob /\ s[i] # Install("authorized_keys")
    BY DEF Leads
  <2>1. CASE i \in 1..n
    <3>1. s[i] = Install(Accounts[i]) /\ Accounts[i] # "authorized_keys"
      BY <1>1, <2>1, KeysAreNoAccounts
    <3> QED
      BY <3>1, StepsDiffer, SameInstall
  <2>2. CASE i = n + 1
    BY <1>1, <2>2, StepsDiffer
  <2> QED
    BY <1>1, <2>1, <2>2
<1>4. \A i \in 1..Len(s) : s[i] # Erase
  BY <1>1, StepsDiffer
<1>5. \A i \in 1..Len(s), g \in Group : s[i] = Sum(g) =>
        \A f \in Files(g) : Before(s, i, f)
  <2> SUFFICES ASSUME NEW i \in 1..Len(s), NEW g \in Group, s[i] = Sum(g),
                      NEW f \in Files(g)
               PROVE  Before(s, i, f)
    OBVIOUS
  <2>1. i = n + 1
    BY <1>1, StepsDiffer
  <2>2. g = "credentials"
    BY <1>1, <2>1, SameSum
  <2>3. PICK j \in 1..n : Accounts[j] = f
    BY <2>2, FileFacts, AccountFacts
  <2> QED
    BY <1>1, <2>1, <2>3 DEF Before, Puts
<1> QED
  BY <1>1, <1>2, <1>3, <1>4, <1>5 DEF s, Fresh, Covered, Shape

LEMMA FreshKeys == Fresh(save_keys)
<1> DEFINE s == save_keys
<1>1. /\ s \in Seq(Step) /\ Len(s) = 4
      /\ s[1] = Glob /\ s[2] = Sum("keys")
      /\ s[3] = Install("authorized_keys") /\ s[4] = Sum("authorized")
  BY KeysPlan
<1> HIDE DEF s
<1>2. \A i \in 1..Len(s) : i = 1 \/ i = 2 \/ i = 3 \/ i = 4
  BY <1>1
<1>3. s[2] # s[4]
  BY <1>1, SameSum
<1>4. \A i, j \in 1..Len(s) : s[i] = s[j] /\ s[i].op = "sum" => i = j
  BY <1>1, <1>2, <1>3, StepsDiffer
<1>5. \A i \in 1..Len(s), g \in {"keys", "authorized"} :
        Leads(s[i], g) => i + 1 \in 1..Len(s) /\ s[i + 1] = Sum(g)
  <2> SUFFICES ASSUME NEW i \in 1..Len(s), NEW g \in {"keys", "authorized"},
                      Leads(s[i], g)
               PROVE  i + 1 \in 1..Len(s) /\ s[i + 1] = Sum(g)
    OBVIOUS
  <2>1. CASE i = 1
    BY <1>1, <2>1, StepsDiffer DEF Leads
  <2>2. CASE i = 3
    BY <1>1, <2>2, StepsDiffer DEF Leads
  <2>3. CASE i = 2 \/ i = 4
    BY <1>1, <2>3, StepsDiffer DEF Leads
  <2> QED
    BY <1>2, <2>1, <2>2, <2>3
<1>6. \A i \in 1..Len(s) : s[i] # Erase
  BY <1>1, <1>2, StepsDiffer
<1>7. \A i \in 1..Len(s), g \in Group : s[i] = Sum(g) =>
        \A f \in Files(g) : Before(s, i, f)
  <2> SUFFICES ASSUME NEW i \in 1..Len(s), NEW g \in Group, s[i] = Sum(g),
                      NEW f \in Files(g)
               PROVE  Before(s, i, f)
    OBVIOUS
  <2>1. CASE i = 2
    <3>1. g = "keys"
      BY <1>1, <2>1, SameSum
    <3>2. Puts(s[1], f) /\ 1 \in 1..i - 1
      BY <1>1, <2>1, <3>1, FileFacts DEF Puts
    <3> QED
      BY <3>2 DEF Before
  <2>2. CASE i = 4
    <3>1. g = "authorized"
      BY <1>1, <2>2, SameSum
    <3>2. Puts(s[3], f) /\ 3 \in 1..i - 1
      BY <1>1, <2>2, <3>1, FileFacts DEF Puts
    <3> QED
      BY <3>2 DEF Before
  <2>3. CASE i = 1 \/ i = 3
    BY <1>1, <2>3, StepsDiffer
  <2> QED
    BY <1>2, <2>1, <2>2, <2>3
<1> QED
  BY <1>1, <1>4, <1>5, <1>6, <1>7 DEF s, Fresh, Covered, Shape

\* One list of steps after another, position by position.
LEMMA Joined ==
  ASSUME NEW a \in Seq(Step), NEW b \in Seq(Step)
  PROVE  /\ a \o b \in Seq(Step) /\ Len(a \o b) = Len(a) + Len(b)
         /\ Len(a) \in Nat /\ Len(b) \in Nat
         /\ \A i \in 1..Len(a) : (a \o b)[i] = a[i]
         /\ \A i \in 1..Len(b) : (a \o b)[Len(a) + i] = b[i]
         /\ \A i \in 1..Len(a \o b) : i \notin 1..Len(a) =>
              i - Len(a) \in 1..Len(b) /\ (a \o b)[i] = b[i - Len(a)]
<1> DEFINE s == a \o b
<1>1. /\ s \in Seq(Step) /\ Len(s) = Len(a) + Len(b)
      /\ \A i \in 1..Len(a) + Len(b) :
           s[i] = IF i <= Len(a) THEN a[i] ELSE b[i - Len(a)]
  BY ConcatProperties
<1>2. Len(a) \in Nat /\ Len(b) \in Nat
  OBVIOUS
<1> HIDE DEF s
<1>3. ASSUME NEW i \in 1..Len(b) PROVE s[Len(a) + i] = b[i]
  <2>1. Len(a) + i \in 1..Len(a) + Len(b) /\ ~(Len(a) + i <= Len(a))
    BY <1>2
  <2>2. Len(a) + i - Len(a) = i
    BY <1>2
  <2> QED
    BY <1>1, <2>1, <2>2
<1>4. \A i \in 1..Len(s) : i \notin 1..Len(a) =>
        i - Len(a) \in 1..Len(b) /\ s[i] = b[i - Len(a)]
  BY <1>1, <1>2
<1> QED
  BY <1>1, <1>2, <1>3, <1>4 DEF s

\* Lists of well shaped steps may be joined if they share no checksums.
LEMMA ShapeJoined ==
  ASSUME NEW a, NEW b, Shape(a), Shape(b),
         \A i \in 1..Len(a) : a[i] # Erase, \A i \in 1..Len(b) : b[i] # Erase,
         \A i \in 1..Len(a), j \in 1..Len(b) : a[i].op = "sum" => a[i] # b[j]
  PROVE  Shape(a \o b) /\ \A i \in 1..Len(a \o b) : (a \o b)[i] # Erase
<1>1. a \in Seq(Step) /\ b \in Seq(Step)
  BY DEF Shape
<1> DEFINE n == Len(a)
           s == a \o b
<1>2. /\ s \in Seq(Step) /\ Len(s) = n + Len(b) /\ n \in Nat /\ Len(b) \in Nat
      /\ \A i \in 1..n : s[i] = a[i]
      /\ \A i \in 1..Len(b) : s[n + i] = b[i]
      /\ \A i \in 1..Len(s) : i \notin 1..n =>
           i - n \in 1..Len(b) /\ s[i] = b[i - n]
  BY <1>1, Joined
<1> HIDE DEF n, s
<1>3. \A i, j \in 1..Len(s) : s[i] = s[j] /\ s[i].op = "sum" => i = j
  <2> SUFFICES ASSUME NEW i \in 1..Len(s), NEW j \in 1..Len(s),
                      s[i] = s[j], s[i].op = "sum"
               PROVE  i = j
    OBVIOUS
  <2>1. CASE i \in 1..n /\ j \in 1..n
    BY <1>2, <2>1 DEF n, Shape
  <2>2. CASE i \notin 1..n /\ j \notin 1..n
    <3>1. i - n \in 1..Len(b) /\ j - n \in 1..Len(b) /\ b[i - n] = b[j - n]
          /\ b[i - n].op = "sum"
      BY <1>2, <2>2
    <3>2. i - n = j - n
      BY <3>1 DEF Shape
    <3> QED
      BY <1>2, <3>2
  <2>3. CASE i \in 1..n /\ j \notin 1..n
    <3>1. j - n \in 1..Len(b) /\ a[i] = b[j - n] /\ a[i].op = "sum"
      BY <1>2, <2>3
    <3> QED
      BY <2>3, <3>1 DEF n
  <2>4. CASE i \notin 1..n /\ j \in 1..n
    <3>1. i - n \in 1..Len(b) /\ a[j] = b[i - n] /\ a[j].op = "sum"
      BY <1>2, <2>4
    <3> QED
      BY <2>4, <3>1 DEF n
  <2> QED
    BY <2>1, <2>2, <2>3, <2>4
<1>4. \A i \in 1..Len(s), g \in {"keys", "authorized"} :
        Leads(s[i], g) => i + 1 \in 1..Len(s) /\ s[i + 1] = Sum(g)
  <2> SUFFICES ASSUME NEW i \in 1..Len(s), NEW g \in {"keys", "authorized"},
                      Leads(s[i], g)
               PROVE  i + 1 \in 1..Len(s) /\ s[i + 1] = Sum(g)
    OBVIOUS
  <2>1. CASE i \in 1..n
    <3>1. Leads(a[i], g)
      BY <1>2, <2>1
    <3>2. i + 1 \in 1..n /\ a[i + 1] = Sum(g)
      BY <2>1, <3>1 DEF n, Shape
    <3> QED
      BY <1>2, <3>2
  <2>2. CASE i \notin 1..n
    <3>1. i - n \in 1..Len(b) /\ Leads(b[i - n], g)
      BY <1>2, <2>2
    <3>2. (i - n) + 1 \in 1..Len(b) /\ b[(i - n) + 1] = Sum(g)
      BY <3>1 DEF Shape
    <3>3. n + ((i - n) + 1) = i + 1
      BY <1>2
    <3>4. s[i + 1] = b[(i - n) + 1]
      BY <1>2, <3>2, <3>3
    <3>5. i + 1 \in 1..Len(s)
      BY <1>2, <3>2
    <3> QED
      BY <3>2, <3>4, <3>5
  <2> QED
    BY <2>1, <2>2
<1>5. \A i \in 1..Len(s) : s[i] # Erase
  <2> SUFFICES ASSUME NEW i \in 1..Len(s) PROVE s[i] # Erase
    OBVIOUS
  <2>1. CASE i \in 1..n
    BY <1>2, <2>1 DEF n
  <2>2. CASE i \notin 1..n
    BY <1>2, <2>2
  <2> QED
    BY <2>1, <2>2
<1> QED
  BY <1>2, <1>3, <1>4, <1>5 DEF s, Shape

\* What the first list installs need not be ready for the second.
LEMMA CoveredJoined ==
  ASSUME NEW a \in Seq(Step), NEW b \in Seq(Step), NEW r, NEW q,
         Covered(a, r), Covered(b, q),
         \A f \in q : f \in r \/ \E j \in 1..Len(a) : Puts(a[j], f)
  PROVE  Covered(a \o b, r)
<1> DEFINE n == Len(a)
           s == a \o b
<1>1. /\ Len(s) = n + Len(b) /\ n \in Nat /\ Len(b) \in Nat
      /\ \A i \in 1..n : s[i] = a[i]
      /\ \A i \in 1..Len(b) : s[n + i] = b[i]
      /\ \A i \in 1..Len(s) : i \notin 1..n =>
           i - n \in 1..Len(b) /\ s[i] = b[i - n]
  BY Joined
<1> HIDE DEF n, s
<1> SUFFICES ASSUME NEW i \in 1..Len(s), NEW g \in Group, s[i] = Sum(g),
                    NEW f \in Files(g), f \notin r
             PROVE  Before(s, i, f)
  BY DEF Covered, s
<1>2. CASE i \in 1..n
  <2>1. PICK j \in 1..i - 1 : Puts(a[j], f)
    BY <1>1, <1>2 DEF Covered, Before, n
  <2>2. j \in 1..n
    BY <1>1, <1>2
  <2>3. Puts(s[j], f)
    BY <1>1, <2>1, <2>2
  <2> QED
    BY <2>3 DEF Before
<1>3. CASE i \notin 1..n
  <2>1. i - n \in 1..Len(b) /\ b[i - n] = Sum(g)
    BY <1>1, <1>3
  <2>2. CASE Before(b, i - n, f)
    <3>1. PICK j \in 1..(i - n) - 1 : Puts(b[j], f)
      BY <2>2 DEF Before
    <3>2. j \in 1..Len(b) /\ n + j \in 1..i - 1
      BY <1>1, <2>1
    <3>3. Puts(s[n + j], f)
      BY <1>1, <3>1, <3>2
    <3> QED
      BY <3>2, <3>3 DEF Before
  <2>3. CASE f \in q
    <3>1. PICK j \in 1..n : Puts(a[j], f)
      BY <2>3 DEF n
    <3>2. j \in 1..i - 1
      BY <1>1, <1>3, <3>1
    <3>3. Puts(s[j], f)
      BY <1>1, <3>1
    <3> QED
      BY <3>2, <3>3 DEF Before
  <2> QED
    BY <2>1, <2>2, <2>3 DEF Covered
<1> QED
  BY <1>2, <1>3

\* Both groups of steps, one after the other.
LEMMA FreshBoth == Fresh(save_credentials \o save_keys)
<1> DEFINE n == Len(Accounts)
           a == save_credentials
           b == save_keys
<1>1. /\ a \in Seq(Step) /\ Len(a) = n + 1 /\ n \in Nat
      /\ \A i \in 1..n : a[i] = Install(Accounts[i])
      /\ a[n + 1] = Sum("credentials")
  BY CredentialsPlan, AccountFacts
<1>2. /\ b \in Seq(Step) /\ Len(b) = 4
      /\ b[1] = Glob /\ b[2] = Sum("keys")
      /\ b[3] = Install("authorized_keys") /\ b[4] = Sum("authorized")
  BY KeysPlan
<1>3. Fresh(a) /\ Fresh(b)
  BY FreshCredentials, FreshKeys
<1> HIDE DEF a, b
<1>4. \A i \in 1..Len(b) : i = 1 \/ i = 2 \/ i = 3 \/ i = 4
  BY <1>2
<1>5. \A i \in 1..Len(b) : b[i] # Erase
  BY <1>2, <1>4, StepsDiffer
<1>6. \A i \in 1..Len(a) : i \in 1..n \/ i = n + 1
  BY <1>1
<1>7. \A i \in 1..Len(a) : a[i] # Erase
  BY <1>1, <1>6, StepsDiffer
<1>8. \A i \in 1..Len(a), j \in 1..Len(b) : a[i].op = "sum" => a[i] # b[j]
  <2> SUFFICES ASSUME NEW i \in 1..Len(a), NEW j \in 1..Len(b), a[i].op = "sum"
               PROVE  a[i] # b[j]
    OBVIOUS
  <2>1. a[i] = Sum("credentials")
    BY <1>1, <1>6, StepsDiffer
  <2>2. CASE j = 2 \/ j = 4
    BY <1>2, <2>1, <2>2, SameSum
  <2>3. CASE j = 1 \/ j = 3
    BY <1>2, <2>1, <2>3, StepsDiffer
  <2> QED
    BY <1>4, <2>2, <2>3
<1>9. Shape(a \o b)
  BY <1>3, <1>5, <1>7, <1>8, ShapeJoined DEF Fresh
<1>10. Covered(a \o b, {})
  BY <1>1, <1>2, <1>3, CoveredJoined DEF Fresh
<1> QED
  BY <1>9, <1>10 DEF a, b, Fresh

LEMMA FreshErase == Fresh(<<Erase>>)
<1> DEFINE s == <<Erase>>
<1>1. s \in Seq(Step) /\ Len(s) = 1 /\ s[1] = Erase
  BY InstallIsStep
<1> HIDE DEF s
<1> QED
  BY <1>1, StepsDiffer DEF s, Fresh, Covered, Shape, Leads

-------------------------------------------------------------------------------
\* What the steps do to the list of steps that are left.

LEMMA EmptyPlan == Shape(<<>>) /\ \A r : Covered(<<>>, r)
BY DEF Shape, Covered

\* No command is an empty list of steps.
LEMMA PlanNotEmpty ==
  ASSUME NEW s \in {save_credentials, save_keys, save_credentials \o save_keys,
                    <<Erase>>}
  PROVE  s # <<>>
<1>1. Len(<<>>) = 0
  OBVIOUS
<1>2. /\ save_credentials \in Seq(Step) /\ Len(save_credentials) >= 1
      /\ save_keys \in Seq(Step) /\ Len(save_keys) = 4
  BY CredentialsPlan, KeysPlan, AccountFacts
<1>3. Len(save_credentials \o save_keys)
        = Len(save_credentials) + Len(save_keys)
  BY <1>2, ConcatProperties
<1>4. save_credentials # <<>>
  <2>1. Len(save_credentials) # 0
    BY <1>2
  <2> QED
    BY <1>1, <2>1
<1>5. save_keys # <<>>
  <2>1. Len(save_keys) # 0
    BY <1>2
  <2> QED
    BY <1>1, <2>1
<1>6. save_credentials \o save_keys # <<>>
  <2>1. Len(save_credentials) \in Nat
    BY <1>2
  <2> QED
    BY <1>1, <1>2, <1>3, <2>1
<1>7. <<Erase>> # <<>>
  OBVIOUS
<1> QED
  BY <1>4, <1>5, <1>6, <1>7

LEMMA CoveredMore ==
  ASSUME NEW s, NEW r, Covered(s, r), NEW q, \A f \in r : f \in q
  PROVE  Covered(s, q)
BY DEF Covered

LEMMA FreshIsCovered ==
  ASSUME NEW s, Fresh(s), NEW r
  PROVE  Shape(s) /\ Covered(s, r)
BY DEF Fresh, Covered

\* A step that was taken leaves the list; a file it installed is ready, and a
\* group whose checksums it made needs its files no more.
LEMMA CoveredTail ==
  ASSUME NEW s, Shape(s), s # <<>>, NEW r, Covered(s, r), NEW q,
         \A f \in r : f \in q \/ Head(s) = Sum(GroupOf(f)),
         \A f \in File : Puts(Head(s), f) => f \in q
  PROVE  Covered(Tail(s), q)
<1>1. s \in Seq(Step)
  BY DEF Shape
<1>2. /\ Len(s) \in Nat /\ Len(Tail(s)) = Len(s) - 1 /\ Head(s) = s[1]
      /\ \A i \in 1..Len(Tail(s)) : Tail(s)[i] = s[i + 1]
  BY <1>1, TailFacts
<1> SUFFICES ASSUME NEW i \in 1..Len(Tail(s)), NEW g \in Group,
                    Tail(s)[i] = Sum(g), NEW f \in Files(g)
             PROVE  Before(Tail(s), i, f) \/ f \in q
  BY DEF Covered
<1>3. i + 1 \in 1..Len(s) /\ 1 \in 1..Len(s) /\ s[i + 1] = Sum(g) /\ i + 1 # 1
  BY <1>2
<1>4. Head(s) # Sum(g)
  BY <1>2, <1>3, StepsDiffer DEF Shape
<1>5. GroupOf(f) = g /\ f \in File
  BY GroupOfFile, FileFacts
<1>6. CASE f \in r
  BY <1>4, <1>5, <1>6
<1>7. CASE Before(s, i + 1, f)
  <2>1. PICK j \in 1..i : Puts(s[j], f)
    BY <1>2, <1>7 DEF Before
  <2>2. CASE j = 1
    BY <1>2, <1>5, <2>1, <2>2
  <2>3. CASE j # 1
    <3>1. j - 1 \in 1..i - 1 /\ j - 1 \in 1..Len(Tail(s)) /\ (j - 1) + 1 = j
      BY <1>2, <2>3
    <3>2. Tail(s)[j - 1] = s[(j - 1) + 1]
      BY <1>2, <3>1
    <3>3. Puts(Tail(s)[j - 1], f)
      BY <2>1, <3>1, <3>2
    <3> QED
      BY <3>1, <3>3 DEF Before
  <2> QED
    BY <2>2, <2>3
<1> QED
  BY <1>3, <1>6, <1>7 DEF Covered

\* Keys that are not there leave the list with their checksums.
LEMMA CoveredSkip ==
  ASSUME NEW s, Shape(s), s # <<>>, NEW r, Covered(s, r),
         NEW h \in {"keys", "authorized"}, Leads(s[1], h)
  PROVE  /\ Shape(Tail(Tail(s))) /\ Covered(Tail(Tail(s)), r)
<1>1. s \in Seq(Step)
  BY DEF Shape
<1>2. /\ Len(s) \in Nat /\ Len(s) >= 1 /\ Len(Tail(s)) = Len(s) - 1
      /\ \A i \in 1..Len(Tail(s)) : Tail(s)[i] = s[i + 1]
      /\ Tail(s) \in Seq(Step)
  BY <1>1, TailFacts
<1>3. 2 \in 1..Len(s) /\ s[2] = Sum(h)
  <2>1. 1 \in 1..Len(s)
    BY <1>2
  <2>2. 1 + 1 \in 1..Len(s) /\ s[1 + 1] = Sum(h)
    BY <2>1 DEF Shape
  <2> QED
    BY <2>2
<1>4. Tail(s) # <<>>
  <2>1. Len(<<>>) = 0
    OBVIOUS
  <2>2. Len(Tail(s)) # 0
    BY <1>2, <1>3
  <2> QED
    BY <2>1, <2>2
<1>5. /\ Len(Tail(Tail(s))) = Len(s) - 2
      /\ \A i \in 1..Len(Tail(Tail(s))) : Tail(Tail(s))[i] = Tail(s)[i + 1]
  BY <1>2, <1>4, TailFacts
<1>6. \A i \in 1..Len(Tail(Tail(s))) : Tail(Tail(s))[i] = s[i + 2]
  <2> TAKE i \in 1..Len(Tail(Tail(s)))
  <2>1. i + 1 \in 1..Len(Tail(s)) /\ (i + 1) + 1 = i + 2
    BY <1>2, <1>5
  <2> QED
    BY <1>2, <1>5, <2>1
<1>7. Shape(Tail(Tail(s)))
  BY <1>4, ShapeTail
<1>8. Covered(Tail(Tail(s)), r)
  <2> SUFFICES ASSUME NEW i \in 1..Len(Tail(Tail(s))), NEW g \in Group,
                      Tail(Tail(s))[i] = Sum(g), NEW f \in Files(g), f \notin r
               PROVE  Before(Tail(Tail(s)), i, f)
    BY DEF Covered
  <2>1. i + 2 \in 1..Len(s) /\ s[i + 2] = Sum(g) /\ i + 2 # 2
    BY <1>2, <1>5, <1>6
  <2>2. g # h
    <3>1. s[2] = s[i + 2] /\ s[2].op = "sum" => 2 = i + 2
      BY <1>3, <2>1 DEF Shape
    <3> QED
      BY <1>3, <2>1, <3>1, StepsDiffer
  <2>3. ~Puts(s[1], f)
    <3>1. f \notin Files(h)
      BY <2>2, FileFacts DEF Group
    <3> QED
      BY <3>1, FileFacts, StepsDiffer, SameInstall DEF Leads, Puts
  <2>4. PICK j \in 1..(i + 2) - 1 : Puts(s[j], f)
    BY <2>1 DEF Covered, Before
  <2>5. j # 1 /\ j # 2
    BY <1>3, <2>3, <2>4, StepsDiffer DEF Puts
  <2>6. j - 2 \in 1..i - 1 /\ j - 2 \in 1..Len(Tail(Tail(s)))
        /\ (j - 2) + 2 = j
    BY <1>2, <1>5, <2>5
  <2>7. Puts(Tail(Tail(s))[j - 2], f)
    BY <1>6, <2>4, <2>6
  <2> QED
    BY <2>6, <2>7 DEF Before
<1> QED
  BY <1>7, <1>8

-------------------------------------------------------------------------------
\* What each action does to the parts of the invariant.

\* The first step of the list, by its kind.
LEMMA HeadFacts ==
  ASSUME PlanInv, todo # <<>>
  PROVE  /\ Next_step \in Step /\ Next_step = todo[1] /\ 1 \in 1..Len(todo)
         /\ Next_step.op = "install" =>
              Next_step.on \in File /\ Next_step = Install(Next_step.on)
         /\ Next_step.op = "sum" =>
              Next_step.on \in Group /\ Next_step = Sum(Next_step.on)
<1>1. todo \in Seq(Step)
  BY DEF PlanInv, Shape
<1>2. Next_step \in Step /\ Next_step = todo[1] /\ 1 \in 1..Len(todo)
  BY <1>1, TailFacts DEF Next_step
<1> QED
  BY <1>2, StepKinds, StepsDiffer

\* When checksums are next, what they are made from was written since the save began;
\* a host key that was not may have been missing then.
LEMMA SumReady ==
  ASSUME PlanInv, todo # <<>>, Next_step.op = "sum"
  PROVE  \A f \in Files(Next_step.on) :
           \/ flash[f] \in Savable(f) \cap shown[f]
           \/ (f \in HostKeys /\ Absent \in shown[f])
<1> SUFFICES ASSUME NEW f \in Files(Next_step.on)
             PROVE  f \in Ready
  BY DEF Ready
<1>1. 1 \in 1..Len(todo) /\ todo[1] = Sum(Next_step.on) /\ Next_step.on \in Group
  BY HeadFacts
<1>2. ~Before(todo, 1, f)
  BY DEF Before
<1> QED
  BY <1>1, <1>2 DEF PlanInv, Covered

\* The checksums that are made are those of a copy, of all files but host keys.
LEMMA FoundIsCopy ==
  ASSUME IInv, todo # <<>>, Next_step.op = "sum", NEW k, k = Next_step.on
  PROVE  /\ k \in Group
         /\ [f \in Found(k) |-> flash[f]] \in Copies(k)
<1>1. k \in Group
  BY HeadFacts DEF IInv
<1>2. Found(k) \subseteq Files(k) /\ Files(k) \subseteq File
  BY <1>1, FileFacts DEF Found
<1>3. ASSUME NEW f \in Found(k)
      PROVE  flash[f] \in Savable(f) /\ flash[f] \in Content
  <2>1. flash[f] # Absent /\ f \in Files(k) /\ f \in File
    BY <1>2 DEF Found
  <2>2. flash[f] \in Savable(f)
    <3>1. CASE f \in HostKeys
      BY <2>1, <3>1, ContentFacts DEF IInv, FlashType
    <3>2. CASE f \notin HostKeys
      BY <2>1, <3>2, SumReady DEF IInv
    <3> QED
      BY <3>1, <3>2
  <2> QED
    BY <2>1, <2>2, ContentFacts
<1>4. Found(k) \in Listings(k)
  <2>1. CASE k = "keys"
    BY <1>2, <2>1, FileFacts DEF Listings
  <2>2. CASE k # "keys"
    <3>1. ASSUME NEW f \in Files(k) PROVE f \in Found(k)
      <4>1. f \notin HostKeys
        BY <1>1, <2>2, FileFacts DEF Group
      <4>2. flash[f] \in Savable(f) /\ f \in File
        BY <1>2, <4>1, SumReady DEF IInv
      <4> QED
        BY <4>2, ContentFacts DEF Found
    <3>2. Found(k) = Files(k)
      BY <1>2, <3>1
    <3> QED
      BY <2>2, <3>2 DEF Listings
  <2> QED
    BY <2>1, <2>2
<1>5. [f \in Found(k) |-> flash[f]] \in [Found(k) -> Content]
  BY <1>3
<1> QED
  BY <1>1, <1>3, <1>4, <1>5 DEF Copies

LEMMA GoOnShown ==
  ASSUME IInv, NEW s, todo # <<>>, GoOn(s), UNCHANGED etc
  PROVE  ShownInv' /\ todo' = s
<1>1. todo' = s /\ etc' = etc /\ shown' = IF s = <<>> THEN NothingShown ELSE shown
  BY DEF GoOn
<1>2. CASE s = <<>>
  BY <1>1, <1>2 DEF ShownInv, NothingShown
<1>3. CASE s # <<>>
  BY <1>1, <1>3 DEF IInv, ShownInv
<1> QED
  BY <1>1, <1>2, <1>3

\* What was ready for the steps that are left stays so, if any are left.
LEMMA CoveredGoesOn ==
  ASSUME Shape(todo'), NEW r, Covered(todo', r),
         \A f \in r : f \in Ready' \/ todo' = <<>>
  PROVE  PlanInv'
<1>1. CASE todo' = <<>>
  BY <1>1, EmptyPlan DEF PlanInv
<1>2. CASE todo' # <<>>
  <2>1. Covered(todo', Ready')
    BY <1>2, CoveredMore
  <2> QED
    BY <2>1 DEF PlanInv
<1> QED
  BY <1>1, <1>2

LEMMA StartStep ==
  ASSUME IInv, Command
  PROVE  IInv'
<1>1. PICK s \in {save_credentials, save_keys, save_credentials \o save_keys,
                  <<Erase>>} : Starts(s)
  BY DEF Command
<1>2. Fresh(s)
  BY FreshCredentials, FreshKeys, FreshBoth, FreshErase
<1>3. /\ restorer = "done" /\ todo = <<>> /\ todo' = s
      /\ shown' = [f \in File |-> {etc[f]}]
      /\ UNCHANGED <<etc, flash, sums, usable, writing, restorer, complete, settled>>
  BY <1>1 DEF Starts
<1>4. PlanInv' /\ ShownInv'
  <2>1. PlanInv'
    BY <1>2, <1>3, FreshIsCovered DEF PlanInv
  <2>2. s # <<>>
    BY PlanNotEmpty
  <2> QED
    BY <1>3, <2>1, <2>2 DEF ShownInv, IInv, EtcType
<1>5. ~writing
  BY <1>3 DEF IInv, BootFirst
<1>6. WritingInv' /\ BootFirst'
  BY <1>3, <1>5 DEF IInv, WritingInv, BootFirst
<1>7. FlashType' /\ EtcType' /\ SumsAreComplete' /\ FlashIsComplete'
  BY <1>3 DEF IInv, FlashType, EtcType, SumsAreComplete, FlashIsComplete
<1>8. BootInv'
  BY <1>3 DEF BootInv
<1> QED
  BY <1>4, <1>6, <1>7, <1>8 DEF IInv

\* What a boot restores of a group that was saved is what was saved.
LEMMA RestoreEffect ==
  ASSUME IInv, NEW g \in Group, Restore(g), Saved(g)
  PROVE  sums[g] # Absent /\ Restored(g)'
<1>1. sums[g] = complete[g] /\ complete[g] \notin {Absent, Partial}
  BY DEF IInv, FlashIsComplete, FlashType, Saved
<1>2. complete[g] \in Copies(g)
  BY <1>1, SumsAreCopies DEF IInv, FlashType
<1>3. /\ DOMAIN complete[g] \subseteq Files(g)
      /\ \A f \in DOMAIN complete[g] : complete[g][f] # Absent
  BY <1>2, CopyFacts
<1>4. \A f \in DOMAIN complete[g] : flash[f] = complete[g][f]
  BY <1>1, <1>3 DEF IInv, FlashIsComplete, Saved
<1>5. Verified(g)
  BY <1>1, <1>4 DEF Verified
<1>6. /\ etc' = [f \in File |-> IF f \in Found(g) THEN flash[f] ELSE etc[f]]
      /\ complete' = complete
  BY <1>5 DEF Restore
<1>7. \A f \in DOMAIN complete[g] : f \in Found(g) /\ f \in File
  BY <1>3, <1>4, FileFacts DEF Found
<1> QED
  BY <1>1, <1>4, <1>6, <1>7 DEF Restored

\* The other groups are left as they are.
LEMMA RestoreKeeps ==
  ASSUME IInv, NEW g \in Group, Restore(g), NEW h \in Group, h # g, Saved(h), Restored(h)
  PROVE  Restored(h)'
<1>1. complete[h] \in Copies(h)
  BY SumsAreCopies DEF IInv, FlashType, Saved
<1>2. DOMAIN complete[h] \subseteq Files(h)
  BY <1>1, CopyFacts
<1>3. complete' = complete /\ \A f \in Files(h) : etc'[f] = etc[f]
  BY FileFacts DEF Restore, Found
<1> QED
  BY <1>2, <1>3 DEF Restored

LEMMA RestoreStep ==
  ASSUME IInv, NEW g \in Group, Restore(g)
  PROVE  IInv'
<1>1. /\ restorer = g /\ restorer' = After(g) /\ usable
      /\ UNCHANGED <<flash, sums, usable, todo, writing, complete, settled, shown>>
  BY DEF Restore
<1>2. g # "done"
  BY DEF Group
<1>3. todo = <<>> /\ ~writing
  BY <1>1, <1>2 DEF IInv, BootFirst
<1>4. EtcType'
  <2>1. CASE Verified(g)
    <3>1. sums[g] \in Copies(g)
      BY <2>1, SumsAreCopies DEF Verified, IInv, FlashType
    <3>2. \A f \in Found(g) : flash[f] \in Savable(f) /\ flash[f] \in Content /\ f \in File
      <4> SUFFICES ASSUME NEW f \in Found(g) PROVE flash[f] \in Savable(f) /\ f \in File
        BY ContentFacts
      <4>1. f \in Files(g) /\ f \in File /\ flash[f] # Absent
        BY FileFacts DEF Found
      <4>2. CASE f \in DOMAIN sums[g]
        BY <2>1, <3>1, <4>1, <4>2, CopyFacts DEF Verified
      <4>3. CASE f \notin DOMAIN sums[g]
        <5>1. f \in HostKeys
          BY <3>1, <4>1, <4>3, CopyFacts, FileFacts
        <5> QED
          BY <4>1, <5>1, ContentFacts DEF IInv, FlashType
      <4> QED
        BY <4>1, <4>2, <4>3
    <3>3. etc' = [f \in File |-> IF f \in Found(g) THEN flash[f] ELSE etc[f]]
      BY <2>1 DEF Restore
    <3>4. \A f \in Found(g) : flash[f] # Absent
      BY DEF Found
    <3> QED
      BY <3>2, <3>3, <3>4, AccountFacts DEF IInv, EtcType
  <2>2. CASE ~Verified(g)
    BY <2>2 DEF Restore, IInv, EtcType
  <2> QED
    BY <2>1, <2>2
<1>5. BootFirst'
  BY <1>1, <1>3 DEF IInv, BootFirst, After, Group
<1>6. PlanInv' /\ ShownInv'
  <2>1. Ready' = Ready
    BY <1>1 DEF Ready
  <2> QED
    BY <1>1, <1>3, <2>1 DEF IInv, PlanInv, ShownInv, NothingShown
<1>7. WritingInv'
  BY <1>1, <1>3 DEF WritingInv
<1>8. FlashType' /\ SumsAreComplete' /\ FlashIsComplete'
  BY <1>1 DEF IInv, FlashType, SumsAreComplete, FlashIsComplete
<1>9. \A h \in Group : Saved(h)' <=> Saved(h)
  BY <1>1 DEF Saved
<1>10. BootInv'
  <2>1. CASE g = "credentials"
    BY <1>1, <1>9, <2>1, RestoreEffect DEF BootInv, After, Group
  <2>2. CASE g = "keys"
    <3>1. Saved("credentials") => Restored("credentials")'
      BY <1>1, <2>2, RestoreKeeps DEF IInv, BootInv, Group
    <3>2. Saved("keys") => Restored("keys")'
      BY <2>2, RestoreEffect DEF Group
    <3> QED
      BY <1>9, <3>1, <3>2 DEF BootInv, Group
  <2>3. CASE g = "authorized"
    BY <1>1, <2>3 DEF BootInv, After
  <2> QED
    BY <2>1, <2>2, <2>3 DEF Group
<1> QED
  BY <1>4, <1>5, <1>6, <1>7, <1>8, <1>10 DEF IInv

LEMMA SkippedStep ==
  ASSUME IInv, RestoreSkipped
  PROVE  IInv'
<1>1. /\ restorer = "credentials" /\ restorer' = "done"
      /\ UNCHANGED <<etc, flash, sums, usable, todo, writing, complete, settled, shown>>
  BY DEF RestoreSkipped
<1>2. Ready' = Ready
  BY <1>1 DEF Ready
<1>3. PlanInv' /\ ShownInv' /\ WritingInv' /\ BootFirst'
  BY <1>1, <1>2
  DEF IInv, PlanInv, ShownInv, NothingShown, WritingInv, Next_step, BootFirst
<1>4. BootInv'
  BY <1>1 DEF BootInv
<1> QED
  BY <1>1, <1>3, <1>4
  DEF IInv, FlashType, EtcType, SumsAreComplete, FlashIsComplete

LEMMA EditStep ==
  ASSUME IInv, NEW f \in File, NEW c \in ContentOf(f), Edit(f, c)
  PROVE  IInv'
<1>1. /\ restorer = "done" /\ etc' = [etc EXCEPT ![f] = c]
      /\ shown' = IF todo = <<>> THEN shown ELSE [shown EXCEPT ![f] = @ \cup {c}]
      /\ UNCHANGED <<flash, sums, usable, todo, writing, restorer, complete, settled>>
  BY DEF Edit
<1>2. c \in Content /\ c # Absent /\ c \in Savable(f)
  BY ContentFacts
<1>3. EtcType'
  BY <1>1, <1>2, AccountFacts DEF IInv, EtcType
<1>4. ShownInv' /\ \A h \in File : shown[h] \subseteq shown'[h]
  <2>1. CASE todo = <<>>
    BY <1>1, <2>1 DEF IInv, ShownInv, NothingShown
  <2>2. CASE todo # <<>>
    BY <1>1, <1>2, <2>2 DEF IInv, ShownInv, EtcType
  <2> QED
    BY <2>1, <2>2
<1>5. PlanInv' /\ BootFirst'
  <2>1. \A h \in Ready : h \in Ready'
    BY <1>1, <1>4 DEF Ready
  <2>2. Covered(todo, Ready')
    BY <2>1, CoveredMore DEF IInv, PlanInv
  <2> QED
    BY <1>1, <2>2 DEF IInv, PlanInv, BootFirst
<1>6. WritingInv'
  <2> SUFFICES ASSUME writing, Next_step.op = "install"
               PROVE  etc'[Next_step.on] # Absent /\ ~settled[GroupOf(Next_step.on)]
    BY <1>1 DEF WritingInv, Next_step
  <2>1. todo # <<>>
    BY DEF IInv, BootFirst
  <2>2. Next_step.on \in File
    BY <2>1, HeadFacts DEF IInv
  <2> QED
    BY <1>1, <1>2, <2>2 DEF IInv, WritingInv, EtcType
<1>7. BootInv'
  BY <1>1 DEF BootInv
<1> QED
  BY <1>1, <1>3, <1>4, <1>5, <1>6, <1>7
  DEF IInv, FlashType, SumsAreComplete, FlashIsComplete

\* Where keys are missing, their checksums are left out, and nothing else is done.
LEMMA MissingKeys ==
  ASSUME IInv, NEW h \in {"keys", "authorized"}, todo # <<>>, ~writing,
         Leads(Next_step, h), GoOn(Tail(Tail(todo))),
         UNCHANGED <<etc, flash, sums, usable, writing, restorer, complete, settled>>
  PROVE  IInv'
<1>1. Shape(Tail(Tail(todo))) /\ Covered(Tail(Tail(todo)), Ready)
  BY HeadFacts, CoveredSkip DEF IInv, PlanInv
<1>2. ShownInv' /\ todo' = Tail(Tail(todo))
  BY GoOnShown
<1>3. PlanInv'
  <2>1. \A f \in Ready : f \in Ready' \/ todo' = <<>>
    BY DEF Ready, GoOn
  <2> QED
    BY <1>1, <1>2, <2>1, CoveredGoesOn
<1>4. restorer = "done"
  BY DEF IInv, BootFirst
<1>5. BootFirst' /\ WritingInv' /\ BootInv'
  BY <1>4 DEF IInv, BootFirst, WritingInv, BootInv
<1> QED
  BY <1>2, <1>3, <1>5
  DEF IInv, FlashType, EtcType, SumsAreComplete, FlashIsComplete

LEMMA SkipStep ==
  ASSUME IInv, Skip
  PROVE  IInv'
<1>1. Leads(Next_step, "authorized")
  BY DEF Skip, Leads
<1> QED
  BY <1>1, MissingKeys DEF Skip

LEMMA ExpandStep ==
  ASSUME IInv, ExpandKeys
  PROVE  IInv'
<1> DEFINE keys == {f \in HostKeys : etc[f] # Absent}
<1>1. /\ todo # <<>> /\ ~writing /\ Next_step = Glob
      /\ UNCHANGED <<etc, flash, sums, usable, writing, restorer, complete, settled>>
  BY DEF ExpandKeys
<1>2. CASE keys = {}
  <2>1. GoOn(Tail(Tail(todo))) /\ Leads(Next_step, "keys")
    BY <1>1, <1>2 DEF ExpandKeys, Leads
  <2> QED
    BY <1>1, <2>1, MissingKeys
<1>3. CASE keys # {}
  <2>1. PICK order \in SetToSeqs(keys) :
          GoOn([i \in 1..Len(order) |-> Install(order[i])] \o Tail(todo))
    BY <1>3 DEF ExpandKeys
  <2> DEFINE n == Cardinality(keys)
             a == [i \in 1..Len(order) |-> Install(order[i])]
             b == Tail(todo)
  <2>2. /\ order \in [1..n -> keys] /\ n \in Nat
        /\ \A f \in keys : \E i \in 1..n : order[i] = f
    <3>1. IsFiniteSet(keys) /\ keys \subseteq HostKeys
      BY ContentAssumption, FS_Subset
    <3>2. n \in Nat
      BY <3>1, FS_CardinalityType
    <3> HIDE DEF n, keys
    <3>3. order \in [1..n -> keys] /\ \A i, j \in 1..n : i # j => order[i] # order[j]
      BY DEF SetToSeqs, n
    <3>4. order \in Injection(1..n, keys)
      BY <3>3 DEF Injection, IsInjective
    <3>5. IsFiniteSet(1..n) /\ Cardinality(1..n) = n
      BY <3>2, FS_Interval
    <3>6. order \in Surjection(1..n, keys)
      BY <3>1, <3>4, <3>5, FS_Injection DEF n
    <3> QED
      BY <3>2, <3>3, <3>6 DEF Surjection
  <2>3. Len(order) = n
    BY <2>2
  <2>4. keys \subseteq HostKeys /\ keys \subseteq File /\ \A f \in HostKeys : f \notin keys => etc[f] = Absent
    BY FileFacts DEF Group
  <2> HIDE DEF n, keys
  <2>5. /\ a \in Seq(Step) /\ Len(a) = n /\ \A i \in 1..n : a[i] = Install(order[i])
    <3>1. a \in [1..n -> Step] /\ \A i \in 1..n : a[i] = Install(order[i])
      BY <2>2, <2>3, <2>4, InstallIsStep
    <3> QED
      BY <2>2, <3>1
  <2>6. \A i \in 1..n : order[i] \in HostKeys /\ order[i] # "authorized_keys"
    BY <2>2, <2>4, ContentAssumption
  <2> HIDE DEF a
  <2>7. Shape(todo) /\ Covered(todo, Ready) /\ todo \in Seq(Step)
    BY DEF IInv, PlanInv, Shape
  <2>8. /\ b \in Seq(Step) /\ Len(todo) \in Nat /\ Len(b) = Len(todo) - 1
        /\ \A i \in 1..Len(b) : b[i] = todo[i + 1]
        /\ todo[1] = Glob
    BY <1>1, <2>7, TailFacts DEF Next_step
  <2>9. Shape(b)
    BY <1>1, <2>7, ShapeTail
  <2>10. \A i \in 1..Len(b) : b[i] # Erase
    <3> SUFFICES ASSUME NEW i \in 1..Len(b), b[i] = Erase PROVE FALSE
      OBVIOUS
    <3>1. i + 1 \in 1..Len(todo) /\ todo[i + 1] = Erase
      BY <2>8
    <3>2. Len(todo) = 1
      BY <2>7, <3>1 DEF Shape
    <3> QED
      BY <2>8, <3>2
  <2>11. Shape(a)
    <3>1. \A i \in 1..Len(a) : a[i].op # "sum" /\ a[i] # Erase /\ a[i] # Glob
                                /\ a[i] # Install("authorized_keys")
      BY <2>5, <2>6, StepsDiffer, SameInstall
    <3> QED
      BY <2>5, <3>1 DEF Shape, Leads
  <2>12. Shape(a \o b)
    <3>1. \A i \in 1..Len(a) : a[i].op # "sum" /\ a[i] # Erase
      BY <2>5, StepsDiffer
    <3> QED
      BY <2>9, <2>10, <2>11, <3>1, ShapeJoined
  <2>13. Covered(a, Ready)
    BY <2>5, StepsDiffer DEF Covered
  <2>14. \A f \in HostKeys : f \in Ready \/ \E j \in 1..Len(a) : Puts(a[j], f)
    <3> SUFFICES ASSUME NEW f \in HostKeys
                 PROVE  f \in Ready \/ \E j \in 1..Len(a) : Puts(a[j], f)
      OBVIOUS
    <3>1. f \in File
      BY FileFacts DEF Group
    <3>2. CASE f \in keys
      BY <2>2, <2>5, <3>2 DEF Puts
    <3>3. CASE f \notin keys
      <4>1. Absent \in shown[f]
        BY <1>1, <2>4, <3>1, <3>3 DEF IInv, ShownInv
      <4> QED
        BY <3>1, <4>1 DEF Ready
    <3> QED
      BY <3>2, <3>3
  <2>15. Covered(b, Ready \cup HostKeys)
    <3>1. \A f \in File : Puts(Next_step, f) => f \in HostKeys
      BY <1>1, StepsDiffer DEF Puts
    <3>2. \A f \in File : Puts(Head(todo), f) => f \in Ready \cup HostKeys
      BY <3>1 DEF Next_step
    <3> QED
      BY <1>1, <2>7, <3>2, CoveredTail
  <2>16. Covered(a \o b, Ready)
    BY <2>5, <2>8, <2>13, <2>14, <2>15, CoveredJoined
  <2>17. ShownInv' /\ todo' = a \o b
    BY <1>1, <2>1, GoOnShown DEF a
  <2>18. PlanInv'
    <3>1. \A f \in Ready : f \in Ready' \/ todo' = <<>>
      BY <1>1, <2>1 DEF Ready, GoOn
    <3> QED
      BY <2>12, <2>16, <2>17, <3>1, CoveredGoesOn
  <2>19. restorer = "done"
    BY <1>1 DEF IInv, BootFirst
  <2>20. BootFirst' /\ WritingInv' /\ BootInv'
    BY <1>1, <2>19 DEF IInv, BootFirst, WritingInv, BootInv
  <2> QED
    BY <1>1, <2>17, <2>18, <2>20
    DEF IInv, FlashType, EtcType, SumsAreComplete, FlashIsComplete
<1> QED
  BY <1>2, <1>3

LEMMA InstallBeginsStep ==
  ASSUME IInv, InstallBegins
  PROVE  IInv'
<1> DEFINE e == Next_step.on
<1>1. /\ todo # <<>> /\ Next_step.op = "install" /\ etc[e] # Absent
      /\ flash' = [flash EXCEPT ![e] = Partial]
      /\ settled' = [settled EXCEPT ![GroupOf(e)] = FALSE]
      /\ writing' = TRUE
      /\ UNCHANGED <<etc, sums, usable, todo, restorer, complete, shown>>
  BY DEF InstallBegins
<1>2. e \in File /\ todo[1] = Install(e) /\ 1 \in 1..Len(todo)
  BY <1>1, HeadFacts DEF IInv
<1>3. Next_step' = Next_step
  BY <1>1 DEF Next_step
<1> HIDE DEF e
<1>4. GroupOf(e) \in Group /\ e \in Files(GroupOf(e))
  BY <1>2, FileHasGroup
<1>5. FlashType'
  <2>1. Partial \in Content
    BY DEF Content
  <2> QED
    BY <1>1, <1>2, <1>4, <2>1 DEF IInv, FlashType
<1>6. \A f \in Ready : f = e \/ f \in Ready'
  <2> SUFFICES ASSUME NEW f \in Ready, f # e PROVE f \in Ready'
    OBVIOUS
  <2>1. f \in File
    BY DEF Ready
  <2>2. flash'[f] = flash[f]
    BY <1>1, <2>1 DEF IInv, FlashType
  <2> QED
    BY <1>1, <2>1, <2>2 DEF Ready
<1>7. PlanInv'
  <2>1. todo \in Seq(Step)
    BY DEF IInv, PlanInv, Shape
  <2>2. ASSUME NEW i \in 1..Len(todo), NEW g \in Group, todo[i] = Sum(g),
               NEW f \in Files(g)
        PROVE  Before(todo, i, f) \/ f \in Ready'
    <3>1. CASE f = e
      <4>1. i # 1
        BY <1>2, <2>2, StepsDiffer
      <4>2. 1 \in 1..i - 1
        BY <2>1, <4>1
      <4> QED
        BY <1>2, <3>1, <4>2 DEF Before, Puts
    <3>2. CASE f # e
      BY <1>6, <2>2, <3>2 DEF IInv, PlanInv, Covered
    <3> QED
      BY <3>1, <3>2
  <2>3. Covered(todo, Ready')
    BY <2>2 DEF Covered
  <2> QED
    BY <1>1, <2>3 DEF IInv, PlanInv
<1>8. FlashIsComplete'
  <2> SUFFICES ASSUME NEW g \in Group, settled'[g], complete[g] # Absent
               PROVE  /\ sums[g] = complete[g]
                      /\ \A f \in Files(g) : flash'[f] =
                           IF f \in DOMAIN complete[g] THEN complete[g][f] ELSE Absent
    BY <1>1 DEF FlashIsComplete
  <2>1. g # GroupOf(e) /\ settled[g]
    BY <1>1, <1>4 DEF IInv, FlashType
  <2>2. \A f \in Files(g) : f \in File /\ f # e
    BY <1>4, <2>1, FileFacts
  <2>3. \A f \in Files(g) : flash'[f] = flash[f]
    BY <1>1, <2>2 DEF IInv, FlashType
  <2> QED
    BY <2>1, <2>3 DEF IInv, FlashIsComplete
<1>9. WritingInv'
  BY <1>1, <1>3, <1>4 DEF WritingInv, e, IInv, FlashType
<1>10. restorer = "done"
  BY <1>1 DEF IInv, BootFirst
<1>11. BootFirst' /\ BootInv' /\ ShownInv'
  BY <1>1, <1>10 DEF IInv, BootFirst, BootInv, ShownInv, NothingShown
<1> QED
  BY <1>1, <1>5, <1>7, <1>8, <1>9, <1>11 DEF IInv, EtcType, SumsAreComplete

LEMMA InstallEndsStep ==
  ASSUME IInv, InstallEnds
  PROVE  IInv'
<1> DEFINE e == Next_step.on
<1>1. /\ writing /\ Next_step.op = "install"
      /\ flash' = [flash EXCEPT ![e] = etc[e]]
      /\ GoOn(Tail(todo)) /\ writing' = FALSE
      /\ UNCHANGED <<etc, sums, usable, restorer, complete, settled>>
  BY DEF InstallEnds
<1>2. todo # <<>> /\ restorer = "done"
  BY <1>1 DEF IInv, BootFirst
<1>shown. ShownInv' /\ todo' = Tail(todo)
  BY <1>1, <1>2, GoOnShown
<1>3. e \in File /\ Next_step = Install(e)
  BY <1>1, <1>2, HeadFacts DEF IInv
<1>4. etc[e] # Absent /\ ~settled[GroupOf(e)]
  BY <1>1 DEF IInv, WritingInv
<1> HIDE DEF e
<1>5. etc[e] \in Content \cap Savable(e) \cap shown[e]
  BY <1>2, <1>3, <1>4 DEF IInv, EtcType, ShownInv
<1>6. FlashType'
  BY <1>1, <1>3, <1>5 DEF IInv, FlashType
<1>7. todo' # <<>> => e \in Ready' /\ \A f \in Ready : f \in Ready'
  BY <1>1, <1>shown, <1>3, <1>4, <1>5 DEF Ready, IInv, FlashType, GoOn
<1>8. PlanInv'
  <2>1. \A f \in File : Puts(Next_step, f) => f \in Ready \cup {e}
    BY <1>3, SameInstall, StepsDiffer DEF Puts
  <2>2. Shape(Tail(todo)) /\ Covered(Tail(todo), Ready \cup {e})
    BY <1>2, <2>1, ShapeTail, CoveredTail DEF IInv, PlanInv, Next_step
  <2> QED
    BY <1>shown, <1>7, <2>2, CoveredGoesOn
<1>9. FlashIsComplete'
  <2> SUFFICES ASSUME NEW g \in Group, settled[g], complete[g] # Absent
               PROVE  /\ sums[g] = complete[g]
                      /\ \A f \in Files(g) : flash'[f] =
                           IF f \in DOMAIN complete[g] THEN complete[g][f] ELSE Absent
    BY <1>1 DEF FlashIsComplete
  <2>1. \A f \in Files(g) : f \in File /\ f # e
    BY <1>4, FileFacts, GroupOfFile
  <2>2. \A f \in Files(g) : flash'[f] = flash[f]
    BY <1>1, <2>1 DEF IInv, FlashType
  <2> QED
    BY <2>2 DEF IInv, FlashIsComplete
<1>10. BootFirst' /\ WritingInv' /\ BootInv'
  BY <1>1, <1>2, <1>shown DEF IInv, BootFirst, WritingInv, BootInv
<1> QED
  BY <1>1, <1>shown, <1>6, <1>8, <1>9, <1>10 DEF IInv, EtcType, SumsAreComplete

LEMMA SumBeginsStep ==
  ASSUME IInv, SumBegins
  PROVE  IInv'
<1> DEFINE k == Next_step.on
<1>1. /\ todo # <<>> /\ Next_step.op = "sum"
      /\ sums' = [sums EXCEPT ![k] = Partial]
      /\ settled' = [settled EXCEPT ![k] = FALSE]
      /\ writing' = TRUE
      /\ UNCHANGED <<etc, flash, usable, todo, restorer, complete, shown>>
  BY DEF SumBegins
<1>2. k \in Group
  BY <1>1, HeadFacts DEF IInv
<1>4. Next_step' = Next_step
  BY <1>1 DEF Next_step
<1> HIDE DEF k
<1>5. Partial \in Sums(k)
  BY DEF Sums
<1>6. FlashType'
  BY <1>1, <1>2, <1>5 DEF IInv, FlashType, AllSums
<1>7. SumsAreComplete'
  BY <1>1, <1>2 DEF IInv, FlashType, SumsAreComplete
<1>8. FlashIsComplete'
  BY <1>1, <1>2 DEF IInv, FlashType, FlashIsComplete
<1>9. Ready' = Ready
  BY <1>1 DEF Ready
<1>10. PlanInv' /\ WritingInv'
  BY <1>1, <1>4, <1>9 DEF IInv, PlanInv, WritingInv
<1>11. restorer = "done"
  BY <1>1 DEF IInv, BootFirst
<1>12. BootFirst' /\ BootInv' /\ ShownInv'
  BY <1>1, <1>11 DEF IInv, BootFirst, BootInv, ShownInv, NothingShown
<1> QED
  BY <1>1, <1>6, <1>7, <1>8, <1>10, <1>12 DEF IInv, EtcType

LEMMA SumEndsStep ==
  ASSUME IInv, SumEnds
  PROVE  IInv'
<1> DEFINE k == Next_step.on
           made == [f \in Found(k) |-> flash[f]]
<1>1. /\ writing /\ Next_step.op = "sum"
      /\ sums' = [sums EXCEPT ![k] = made]
      /\ complete' = [complete EXCEPT ![k] = sums'[k]]
      /\ settled' = [settled EXCEPT ![k] = TRUE]
      /\ GoOn(Tail(todo)) /\ writing' = FALSE
      /\ UNCHANGED <<etc, flash, usable, restorer>>
  BY DEF SumEnds
<1>2. todo # <<>> /\ restorer = "done"
  BY <1>1 DEF IInv, BootFirst
<1>shown. ShownInv' /\ todo' = Tail(todo)
  BY <1>1, <1>2, GoOnShown
<1>3. k \in Group /\ Next_step = Sum(k)
  BY <1>1, <1>2, HeadFacts DEF IInv
<1>4. made \in Copies(k)
  BY <1>1, <1>2, FoundIsCopy
<1>5. DOMAIN made = Found(k) /\ \A f \in Found(k) : made[f] = flash[f]
  OBVIOUS
<1> HIDE DEF k, made
<1>6. made \in Sums(k) /\ made \in AllSums
  BY <1>3, <1>4 DEF Sums, AllSums
<1>7. sums'[k] = made /\ complete' = [complete EXCEPT ![k] = made]
  BY <1>1, <1>3 DEF IInv, FlashType
<1>8. FlashType'
  <2>1. made # Partial
    BY <1>3, <1>4, MarkerAssumption
  <2> QED
    BY <1>1, <1>3, <1>6, <1>7, <2>1 DEF IInv, FlashType
<1>9. SumsAreComplete'
  BY <1>1, <1>3, <1>7 DEF IInv, FlashType, SumsAreComplete
<1>10. FlashIsComplete'
  <2>1. \A f \in Files(k) :
          flash[f] = IF f \in DOMAIN made THEN made[f] ELSE Absent
    BY <1>5 DEF Found
  <2> QED
    BY <1>1, <1>3, <1>7, <2>1 DEF IInv, FlashType, FlashIsComplete
<1>11. PlanInv'
  <2>1. \A f \in Ready : f \in Ready' \/ todo' = <<>>
    BY <1>1, <1>shown DEF Ready, GoOn
  <2>2. \A f \in File : ~Puts(Next_step, f)
    BY <1>3, StepsDiffer DEF Puts
  <2>3. Shape(Tail(todo)) /\ Covered(Tail(todo), Ready)
    BY <1>2, <2>2, ShapeTail, CoveredTail DEF IInv, PlanInv, Next_step
  <2> QED
    BY <1>shown, <2>1, <2>3, CoveredGoesOn
<1>12. BootFirst' /\ WritingInv' /\ BootInv'
  BY <1>1, <1>2, <1>shown DEF IInv, BootFirst, WritingInv, BootInv
<1> QED
  BY <1>1, <1>shown, <1>8, <1>9, <1>10, <1>11, <1>12 DEF IInv, EtcType

LEMMA EraseBeginsStep ==
  ASSUME IInv, EraseBegins
  PROVE  IInv'
<1>1. PICK gone :
        /\ flash' = [f \in File |-> IF f \in gone THEN Absent ELSE flash[f]]
        /\ sums' = [g \in Group |-> IF g \in gone THEN Absent ELSE sums[g]]
  BY DEF EraseBegins
<1>2. /\ todo # <<>> /\ Next_step = Erase
      /\ usable' \in {usable, TRUE}
      /\ settled' = [g \in Group |-> FALSE]
      /\ writing' = TRUE
      /\ UNCHANGED <<etc, todo, restorer, complete, shown>>
  BY DEF EraseBegins
<1>3. restorer = "done" /\ usable' \in BOOLEAN
  BY <1>2 DEF IInv, BootFirst
<1>4. FlashType'
  <2>1. Absent \in AllSums
    BY DEF AllSums, Sums, Group
  <2>2. \A g \in Group : Absent \in Sums(g)
    BY DEF Sums
  <2> QED
    BY <1>1, <1>2, <2>1, <2>2 DEF IInv, FlashType
<1>5. SumsAreComplete'
  BY <1>1, <1>2 DEF IInv, SumsAreComplete
<1>6. FlashIsComplete'
  BY <1>2 DEF FlashIsComplete
<1>7. PlanInv'
  <2>1. todo \in Seq(Step) /\ Shape(todo)
    BY DEF IInv, PlanInv, Shape
  <2>2. Len(todo) = 1 /\ todo[1] = Erase
    <3>1. Len(todo) \in Nat /\ Len(todo) >= 1 /\ Head(todo) = todo[1]
      BY <1>2, <2>1, TailFacts
    <3> QED
      BY <1>2, <2>1, <3>1 DEF Shape, Next_step
  <2>3. Covered(todo, Ready')
    BY <2>2, StepsDiffer DEF Covered
  <2> QED
    BY <1>2, <2>1, <2>3 DEF PlanInv
<1>8. WritingInv'
  BY <1>2, StepsDiffer DEF WritingInv, Next_step
<1>9. BootFirst' /\ BootInv' /\ ShownInv'
  BY <1>2, <1>3 DEF BootFirst, BootInv, IInv, ShownInv, NothingShown
<1> QED
  BY <1>2, <1>4, <1>5, <1>6, <1>7, <1>8, <1>9 DEF IInv, EtcType

LEMMA EraseEndsStep ==
  ASSUME IInv, EraseEnds
  PROVE  IInv'
<1>1. /\ writing /\ Next_step = Erase
      /\ flash' = [f \in File |-> Absent]
      /\ sums' = [g \in Group |-> Absent]
      /\ usable' = TRUE
      /\ complete' = sums'
      /\ settled' = [g \in Group |-> TRUE]
      /\ GoOn(Tail(todo)) /\ writing' = FALSE
      /\ UNCHANGED <<etc, restorer>>
  BY DEF EraseEnds
<1>2. todo # <<>> /\ restorer = "done"
  BY <1>1 DEF IInv, BootFirst
<1>shown. ShownInv' /\ todo' = Tail(todo)
  BY <1>1, <1>2, GoOnShown
<1>3. FlashType'
  <2>1. Absent \in AllSums
    BY DEF AllSums, Sums, Group
  <2>2. \A g \in Group : Absent \in Sums(g) \ {Partial}
    BY ContentFacts DEF Sums
  <2> QED
    BY <1>1, <2>1, <2>2 DEF FlashType
<1>4. SumsAreComplete' /\ FlashIsComplete'
  BY <1>1 DEF SumsAreComplete, FlashIsComplete
<1>5. PlanInv'
  <2>1. todo \in Seq(Step) /\ Shape(todo)
    BY DEF IInv, PlanInv, Shape
  <2>2. /\ Len(todo) \in Nat /\ Len(todo) >= 1 /\ Head(todo) = todo[1]
        /\ Tail(todo) \in Seq(Step) /\ Len(Tail(todo)) = Len(todo) - 1
    BY <1>2, <2>1, TailFacts
  <2>3. Len(todo) = 1
    BY <1>1, <2>1, <2>2 DEF Shape, Next_step
  <2>4. Tail(todo) = <<>>
    <3>1. Len(Tail(todo)) = 0
      BY <2>2, <2>3
    <3> QED
      BY <2>2, <3>1, EmptySeq
  <2> QED
    BY <1>shown, <2>4, EmptyPlan DEF PlanInv
<1>6. BootFirst' /\ WritingInv' /\ BootInv'
  BY <1>1, <1>2, <1>shown DEF BootFirst, WritingInv, BootInv, Group
<1> QED
  BY <1>1, <1>shown, <1>3, <1>4, <1>5, <1>6 DEF IInv, EtcType

LEMMA FreshEtcType ==
  ASSUME etc = FreshEtc
  PROVE  EtcType
BY ContentFacts, FileFacts, AccountFacts DEF EtcType, FreshEtc

LEMMA PowerLossStep ==
  ASSUME IInv, PowerLoss
  PROVE  IInv'
<1>1. /\ etc' = FreshEtc /\ todo' = <<>> /\ writing' = FALSE
      /\ shown' = NothingShown
      /\ restorer' = "credentials"
      /\ UNCHANGED <<flash, sums, usable, complete, settled>>
  BY DEF PowerLoss, GoOn
<1>2. EtcType'
  BY <1>1, ContentFacts, FileFacts, AccountFacts DEF EtcType, FreshEtc
<1>3. FlashType' /\ SumsAreComplete' /\ FlashIsComplete'
  BY <1>1 DEF IInv, FlashType, SumsAreComplete, FlashIsComplete
<1>4. PlanInv' /\ ShownInv'
  BY <1>1, EmptyPlan DEF PlanInv, ShownInv, NothingShown
<1>5. BootFirst' /\ WritingInv' /\ BootInv'
  BY <1>1 DEF IInv, BootFirst, WritingInv, BootInv, Group
<1> QED
  BY <1>2, <1>3, <1>4, <1>5 DEF IInv

LEMMA InitStep == Init => IInv
<1> SUFFICES ASSUME Init PROVE IInv
  OBVIOUS
<1>1. EtcType
  BY FreshEtcType DEF Init
<1>2. FlashType
  <2>1. Absent \in AllSums
    BY DEF AllSums, Sums, Group
  <2>2. \A g \in Group : Absent \in Sums(g) \ {Partial}
    BY ContentFacts DEF Sums
  <2> QED
    BY <2>1, <2>2 DEF Init, FlashType
<1>3. SumsAreComplete /\ FlashIsComplete
  BY DEF Init, SumsAreComplete, FlashIsComplete
<1>4. PlanInv /\ ShownInv
  BY EmptyPlan DEF Init, PlanInv, ShownInv, NothingShown
<1>5. BootFirst /\ WritingInv /\ BootInv
  BY DEF Init, BootFirst, WritingInv, BootInv, Group
<1> QED
  BY <1>1, <1>2, <1>3, <1>4, <1>5 DEF IInv
-------------------------------------------------------------------------------
\* A step of the system, and a command of the user.

LEMMA SystemKeeps ==
  ASSUME IInv, SystemStep
  PROVE  IInv'
<1>1. CASE \E g \in Group : Restore(g)
  BY <1>1, RestoreStep
<1>2. CASE RestoreSkipped
  BY <1>2, SkippedStep
<1>3. CASE \E f \in File : \E c \in ContentOf(f) : Edit(f, c)
  BY <1>3, EditStep
<1>4. CASE Saver
  BY <1>4, ExpandStep, SkipStep, InstallBeginsStep, InstallEndsStep, SumBeginsStep, SumEndsStep,
     EraseBeginsStep, EraseEndsStep DEF Saver
<1>5. CASE PowerLoss
  BY <1>5, PowerLossStep
<1> QED
  BY <1>1, <1>2, <1>3, <1>4, <1>5 DEF SystemStep

LEMMA StutterKeeps ==
  ASSUME IInv, UNCHANGED vars
  PROVE  IInv'
BY DEF vars, IInv, FlashType, EtcType, BootFirst, SumsAreComplete, FlashIsComplete,
       PlanInv, Ready, ShownInv, NothingShown, WritingInv, Next_step, BootInv, Saved, Restored

\* The partition keeps what its checksums promise, whenever the power fails and
\* whatever is edited while antsdr-persist runs.
THEOREM PersistenceInvariant == Spec => []IInv
<1>1. IInv /\ [Next]_vars => IInv'
  BY SystemKeeps, StartStep, StutterKeeps DEF Next
<1> QED
  BY InitStep, <1>1, PTL DEF Spec

\* Every variable keeps its type: a file is what an editor left, is missing or
\* is cut off.
THEOREM PersistenceTypeCorrect == Spec => []TypeOK
<1>1. IInv => TypeOK
  <2> SUFFICES ASSUME IInv PROVE TypeOK
    OBVIOUS
  <2>1. todo \in Seq(Step)
    BY DEF IInv, PlanInv, Shape
  <2> QED
    BY <2>1 DEF IInv, FlashType, EtcType, BootFirst, ShownInv, TypeOK
<1> QED
  BY <1>1, PersistenceInvariant, PTL

LEMMA RestoreIsWhole ==
  ASSUME IInv, NEW g \in Group, Restore(g), etc' # etc
  PROVE  /\ complete[g] # Absent
         /\ \A f \in Files(g) : IF f \in DOMAIN complete[g] THEN etc'[f] = complete[g][f]
                                ELSE etc'[f] # etc[f] => ~settled[g]
<1>1. Verified(g) /\ etc' = [f \in File |-> IF f \in Found(g) THEN flash[f] ELSE etc[f]]
  BY DEF Restore
<1>2. sums[g] \notin {Absent, Partial} /\ \A f \in DOMAIN sums[g] : flash[f] = sums[g][f]
  BY <1>1 DEF Verified
<1>3. sums[g] = complete[g] /\ complete[g] # Absent
  BY <1>2 DEF IInv, SumsAreComplete
<1>4. complete[g] \in Copies(g)
  BY <1>2, <1>3, SumsAreCopies DEF IInv, FlashType
<1>5. ASSUME NEW f \in Files(g), f \in DOMAIN complete[g]
      PROVE  etc'[f] = complete[g][f]
  <2>1. flash[f] = complete[g][f] /\ complete[g][f] # Absent
    BY <1>2, <1>3, <1>4, <1>5, CopyFacts
  <2>2. f \in Found(g) /\ f \in File
    BY <2>1, FileFacts DEF Found
  <2> QED
    BY <1>1, <2>1, <2>2
<1>6. ASSUME NEW f \in Files(g), f \notin DOMAIN complete[g], etc'[f] # etc[f]
      PROVE  ~settled[g]
  <2>1. f \in Found(g)
    BY <1>1, <1>6, FileFacts
  <2>2. flash[f] # Absent
    BY <2>1 DEF Found
  <2> QED
    BY <1>3, <1>6, <2>2 DEF IInv, FlashIsComplete
<1> QED
  BY <1>3, <1>5, <1>6

\* Of the files a group was last saved with in full, a boot brings back all or none;
\* others of the group only come with them where a later save was cut off.
THEOREM RestoresAllOrNothing == Spec => AllOrNothing
<1>1. IInv /\ [Next]_vars => [\A g \in Group : Restore(g) /\ etc' # etc =>
        /\ complete[g] # Absent
        /\ \A f \in Files(g) : IF f \in DOMAIN complete[g] THEN etc'[f] = complete[g][f]
                               ELSE etc'[f] # etc[f] => ~settled[g]]_vars
  BY RestoreIsWhole
<1> QED
  BY <1>1, PersistenceInvariant, PTL DEF AllOrNothing, Spec

LEMMA OnlyRestoresEnd ==
  ASSUME Next, BootEnds
  PROVE  RestoreSkipped \/ \E g \in Group : Restore(g)
BY DEF BootEnds, Next, SystemStep, Edit, Saver, ExpandKeys, Skip, InstallBegins,
       InstallEnds, SumBegins, SumEnds, EraseBegins, EraseEnds, PowerLoss, Command,
       Starts, GoOn

LEMMA BootEndsWhole ==
  ASSUME IInv, Next, BootEnds, NEW g \in {"credentials", "keys"}, Saved(g)
  PROVE  Restored(g)'
<1>1. PICK h \in Group : Restore(h)
  BY OnlyRestoresEnd DEF RestoreSkipped, Saved
<1>2. restorer = h /\ After(h) = "done" /\ g \in Group
  BY <1>1 DEF Restore, BootEnds, Group
<1>3. CASE h = "credentials"
  BY <1>2, <1>3 DEF After
<1>4. CASE h = "keys"
  <2>1. sums["keys"] = Absent
    BY <1>2, <1>4 DEF After
  <2>2. g = "credentials"
    BY <1>1, <1>4, <2>1, RestoreEffect DEF Group
  <2>3. Restored(g)
    BY <1>2, <1>4, <2>2 DEF IInv, BootInv
  <2> QED
    BY <1>1, <1>2, <1>4, <2>2, <2>3, RestoreKeeps
<1>5. CASE h = "authorized"
  <2>1. Restored(g)
    BY <1>2, <1>5 DEF IInv, BootInv
  <2> QED
    BY <1>1, <1>2, <1>5, <2>1, RestoreKeeps
<1> QED
  BY <1>3, <1>4, <1>5 DEF Group

\* Where host keys are there too, a boot brings back the SSH keys that may log in:
\* what the script loses, it loses with a missing file of host key checksums, and
\* in no other way.
THEOREM AuthorizedWithHostKeys ==
  Spec => [][BootEnds /\ sums["keys"] # Absent
               => (Saved("authorized") => Restored("authorized")')]_vars
<1>1. ASSUME IInv, Next, BootEnds, sums["keys"] # Absent, Saved("authorized")
      PROVE  Restored("authorized")'
  <2>1. PICK h \in Group : Restore(h)
    BY <1>1, OnlyRestoresEnd DEF RestoreSkipped, Saved
  <2>2. restorer = h /\ After(h) = "done"
    BY <1>1, <2>1 DEF Restore, BootEnds
  <2>3. h = "authorized"
    BY <1>1, <2>2 DEF After, Group
  <2> QED
    BY <1>1, <2>1, <2>3, RestoreEffect DEF Group
<1>2. IInv /\ [Next]_vars =>
        [BootEnds /\ sums["keys"] # Absent
           => (Saved("authorized") => Restored("authorized")')]_vars
  BY <1>1
<1> QED
  BY <1>2, PersistenceInvariant, PTL DEF Spec

\* A boot brings back credentials and host keys that were saved in full and not
\* disturbed since, whatever was cut off in the other groups.
THEOREM BootRestoresSaved == Spec => SavedIsRestored
<1>1. IInv /\ [Next]_vars =>
        [BootEnds => \A g \in {"credentials", "keys"} : Saved(g) => Restored(g)']_vars
  BY BootEndsWhole
<1> QED
  BY <1>1, PersistenceInvariant, PTL DEF SavedIsRestored, Spec
-------------------------------------------------------------------------------
\* What the actions do to the copies of SavedGroups.

\* A copy that a boot finds is the last whole one.
LEMMA ReadableIsWhole ==
  ASSUME IInv, NEW g \in Group, Verified(g)
  PROVE  /\ sums[g] = complete[g] /\ complete[g] # Absent
         /\ complete[g] \in Copies(g) /\ DOMAIN complete[g] \subseteq Found(g)
         /\ \A f \in DOMAIN complete[g] : flash[f] = complete[g][f]
<1>1. sums[g] \notin {Absent, Partial} /\ \A f \in DOMAIN sums[g] : flash[f] = sums[g][f]
  BY DEF Verified
<1>2. sums[g] = complete[g] /\ complete[g] \in Copies(g)
  BY <1>1, SumsAreCopies DEF IInv, SumsAreComplete, FlashType
<1>3. ASSUME NEW f \in DOMAIN complete[g] PROVE f \in Found(g)
  <2>1. f \in Files(g) /\ complete[g][f] # Absent
    BY <1>2, CopyFacts
  <2> QED
    BY <1>1, <1>2, <2>1 DEF Found
<1> QED
  BY <1>1, <1>2, <1>3

\* A save runs exactly while contents are recorded.
LEMMA RunningIsHeld ==
  ASSUME IInv
  PROVE  (todo = <<>>) <=> (shown = Groups!Nothing)
<1>1. PICK f \in File : TRUE
  BY FileFacts DEF Group
<1>2. Groups!Nothing = NothingShown /\ NothingShown[f] = {}
  BY DEF Groups!Nothing, NothingShown
<1>3. CASE todo = <<>>
  BY <1>2, <1>3 DEF IInv, ShownInv
<1>4. CASE todo # <<>>
  BY <1>2, <1>4 DEF IInv, ShownInv
<1> QED
  BY <1>3, <1>4

LEMMA GoOnGoesOn ==
  ASSUME NEW s, GoOn(s)
  PROVE  Groups!GoesOn
BY DEF GoOn, NothingShown, Groups!GoesOn, Groups!Nothing

\* Which groups a boot finds, and which are disturbed, is a matter of the flash.
LEMMA FlashKept ==
  ASSUME UNCHANGED <<flash, sums, settled>>
  PROVE  /\ {h \in Group : Verified(h)}' = {h \in Group : Verified(h)}
         /\ {h \in Group : ~settled[h]}' = {h \in Group : ~settled[h]}
<1>1. \A h \in Group : Verified(h)' <=> Verified(h)
  BY DEF Verified
<1> QED
  BY <1>1

LEMMA RestoreBringsBack ==
  ASSUME IInv, NEW g \in Group, Restore(g)
  PROVE  Groups!BringBack(g) \/ UNCHANGED Groups!vars
<1>1. /\ restorer = g
      /\ UNCHANGED <<flash, sums, settled, complete, shown>>
  BY DEF Restore
<1>2. shown = Groups!Nothing
  <2>1. todo = <<>>
    BY <1>1 DEF IInv, BootFirst, Group
  <2> QED
    BY <2>1, RunningIsHeld
<1>3. /\ {h \in Group : Verified(h)}' = {h \in Group : Verified(h)}
      /\ {h \in Group : ~settled[h]}' = {h \in Group : ~settled[h]}
  BY <1>1, FlashKept
<1>4. CASE Verified(g)
  <2>1. /\ complete[g] # Absent /\ complete[g] \in Copies(g)
        /\ DOMAIN complete[g] \subseteq Found(g)
        /\ \A f \in DOMAIN complete[g] : flash[f] = complete[g][f]
    BY <1>4, ReadableIsWhole
  <2>2. PICK rest : rest = Found(g) \ DOMAIN complete[g]
    OBVIOUS
  <2>3. rest \in SUBSET (Files(g) \ DOMAIN complete[g])
    BY <2>2 DEF Found
  <2>4. ASSUME NEW f \in rest PROVE flash[f] \in Content /\ ~settled[g]
    <3>1. f \in Files(g) /\ flash[f] # Absent /\ f \notin DOMAIN complete[g] /\ f \in File
      BY <2>2, FileFacts DEF Found
    <3>2. flash[f] \in Content
      BY <3>1 DEF IInv, FlashType
    <3>3. ~settled[g]
      BY <2>1, <3>1 DEF IInv, FlashIsComplete
    <3> QED
      BY <3>2, <3>3
  <2>5. PICK left : left = [f \in rest |-> flash[f]]
    OBVIOUS
  <2>6. left \in [rest -> Content] /\ \A f \in rest : left[f] = flash[f]
    BY <2>4, <2>5
  <2>7. rest # {} => g \in {h \in Group : ~settled[h]}
    BY <2>4
  <2>8. etc' = [f \in File |-> IF f \in Found(g) THEN flash[f] ELSE etc[f]]
    BY <1>4 DEF Restore
  <2>9. etc' = [f \in File |-> IF f \in rest THEN left[f]
                              ELSE IF f \in Files(g) \cap DOMAIN complete[g]
                                   THEN complete[g][f] ELSE etc[f]]
    <3>1. ASSUME NEW f \in File
          PROVE  (IF f \in Found(g) THEN flash[f] ELSE etc[f])
                   = IF f \in rest THEN left[f]
                     ELSE IF f \in Files(g) \cap DOMAIN complete[g]
                          THEN complete[g][f] ELSE etc[f]
      <4>1. CASE f \in rest
        BY <2>2, <2>6, <4>1
      <4>2. CASE f \in DOMAIN complete[g]
        <5>1. f \in Files(g) /\ f \in Found(g) /\ f \notin rest
          BY <2>1, <2>2, <4>2 DEF Found
        <5> QED
          BY <2>1, <4>2, <5>1
      <4>3. CASE f \notin rest /\ f \notin DOMAIN complete[g]
        BY <2>2, <4>3
      <4> QED
        BY <4>1, <4>2, <4>3
    <3> QED
      BY <2>8, <3>1
  <2> QED
    BY <1>1, <1>2, <1>3, <1>4, <2>3, <2>6, <2>7, <2>9 DEF Groups!BringBack
<1>5. CASE ~Verified(g)
  BY <1>1, <1>3, <1>5 DEF Restore, Groups!vars
<1> QED
  BY <1>4, <1>5

LEMMA EditChanges ==
  ASSUME IInv, NEW f \in File, NEW c \in ContentOf(f), Edit(f, c)
  PROVE  Groups!Change(f)
<1>1. /\ etc' = [etc EXCEPT ![f] = c]
      /\ shown' = IF todo = <<>> THEN shown ELSE [shown EXCEPT ![f] = @ \cup {c}]
      /\ UNCHANGED <<flash, sums, settled, complete>>
  BY DEF Edit
<1>2. c \in Content
  BY ContentFacts
<1>3. /\ {h \in Group : Verified(h)}' = {h \in Group : Verified(h)}
      /\ {h \in Group : ~settled[h]}' = {h \in Group : ~settled[h]}
  BY <1>1, FlashKept
<1> QED
  BY <1>1, <1>2, <1>3, RunningIsHeld DEF Groups!Change

\* A step of antsdr-persist after which a boot finds no copy it did not find before.
LEMMA FewerIsHide ==
  ASSUME IInv, todo # <<>>, \A g \in Group : Verified(g)' => Verified(g),
         \A g \in Group : settled'[g] => settled[g],
         Groups!GoesOn, UNCHANGED <<etc, complete>>
  PROVE  Groups!Hide
<1>1. shown # Groups!Nothing
  BY RunningIsHeld
<1>2. {g \in Group : Verified(g)}' \subseteq {g \in Group : Verified(g)}
  OBVIOUS
<1>3. {g \in Group : ~settled[g]} \subseteq {g \in Group : ~settled[g]}'
  OBVIOUS
<1> QED
  BY <1>1, <1>2, <1>3 DEF Groups!Hide

LEMMA KeptGoesOn ==
  ASSUME UNCHANGED shown
  PROVE  Groups!GoesOn
BY DEF Groups!GoesOn

\* Steps that only change the list of steps.
LEMMA ListHides ==
  ASSUME IInv, todo # <<>>, NEW s, GoOn(s),
         UNCHANGED <<etc, flash, sums, settled, complete>>
  PROVE  Groups!Hide
<1>1. \A g \in Group : Verified(g)' => Verified(g)
  BY DEF Verified
<1> QED
  BY <1>1, GoOnGoesOn, FewerIsHide

LEMMA SkipHides ==
  ASSUME IInv, Skip
  PROVE  Groups!Hide
<1>1. /\ todo # <<>> /\ GoOn(Tail(Tail(todo)))
      /\ UNCHANGED <<etc, flash, sums, settled, complete>>
  BY DEF Skip
<1> QED
  BY <1>1, ListHides

LEMMA ExpandHides ==
  ASSUME IInv, ExpandKeys
  PROVE  Groups!Hide
<1>1. todo # <<>> /\ UNCHANGED <<etc, flash, sums, settled, complete>>
  BY DEF ExpandKeys
<1>2. \E s : GoOn(s)
  BY DEF ExpandKeys
<1> QED
  BY <1>1, <1>2, ListHides

\* A file of another group is none of this group's.
LEMMA InstallKeepsOthers ==
  ASSUME IInv, NEW e \in File, NEW c, flash' = [flash EXCEPT ![e] = c],
         UNCHANGED sums, NEW g \in Group, e \notin Files(g)
  PROVE  Verified(g)' <=> Verified(g)
<1>1. \A f \in Files(g) : flash'[f] = flash[f]
  BY FileFacts DEF IInv, FlashType
<1>2. CASE sums[g] \in {Absent, Partial}
  BY <1>2 DEF Verified
<1>3. CASE sums[g] \notin {Absent, Partial}
  <2>1. DOMAIN sums[g] \subseteq Files(g)
    BY <1>3, SumsAreCopies, CopyFacts DEF IInv, FlashType
  <2> QED
    BY <1>1, <2>1 DEF Verified
<1> QED
  BY <1>2, <1>3

\* A file is written over: what it was may become unreadable, or readable again,
\* where what is written is what the copy has of it.
LEMMA InstallHides ==
  ASSUME IInv, IInv', NEW e \in File, NEW c, flash' = [flash EXCEPT ![e] = c],
         todo # <<>>, \A g \in Group : settled'[g] => settled[g],
         UNCHANGED <<etc, sums, complete>>, Groups!GoesOn
  PROVE  Groups!Hide \/ \E g \in Group : Groups!Reappear(g)
<1>1. PICK k \in Group : e \in Files(k)
  BY FileFacts
<1>2. \A g \in Group : g # k => (Verified(g)' <=> Verified(g))
  <2> SUFFICES ASSUME NEW g \in Group, g # k PROVE Verified(g)' <=> Verified(g)
    OBVIOUS
  <2>1. e \notin Files(g)
    BY <1>1, FileFacts
  <2> QED
    BY <2>1, InstallKeepsOthers
<1>3. CASE Verified(k)'
  <2>1. sums'[k] = complete'[k] /\ sums'[k] # Absent
    BY <1>3 DEF Verified, IInv, SumsAreComplete
  <2>2. complete[k] # Absent
    BY <2>1
  <2>3. {g \in Group : Verified(g)}' = {g \in Group : Verified(g)} \cup {k}
    BY <1>2, <1>3
  <2>4. shown # Groups!Nothing
    BY RunningIsHeld
  <2>5. {g \in Group : ~settled[g]} \subseteq {g \in Group : ~settled[g]}'
    OBVIOUS
  <2>6. Groups!Reappear(k)
    BY <2>2, <2>3, <2>4, <2>5 DEF Groups!Reappear
  <2> QED
    BY <2>6
<1>4. CASE ~Verified(k)'
  <2>1. \A g \in Group : Verified(g)' => Verified(g)
    BY <1>2, <1>4
  <2> QED
    BY <2>1, FewerIsHide
<1> QED
  BY <1>3, <1>4

LEMMA InstallBeginsHides ==
  ASSUME IInv, InstallBegins
  PROVE  Groups!Hide \/ \E g \in Group : Groups!Reappear(g)
<1>1. /\ todo # <<>> /\ flash' = [flash EXCEPT ![Next_step.on] = Partial]
      /\ Next_step.op = "install"
      /\ settled' = [settled EXCEPT ![GroupOf(Next_step.on)] = FALSE]
      /\ UNCHANGED <<etc, sums, complete, shown>>
  BY DEF InstallBegins
<1>2. Next_step.on \in File
  BY <1>1, HeadFacts DEF IInv
<1>3. \A g \in Group : settled'[g] => settled[g]
  BY <1>1 DEF IInv, FlashType
<1>4. IInv'
  BY InstallBeginsStep
<1> QED
  BY <1>1, <1>2, <1>3, <1>4, KeptGoesOn, InstallHides

LEMMA InstallEndsReappears ==
  ASSUME IInv, InstallEnds
  PROVE  Groups!Hide \/ \E g \in Group : Groups!Reappear(g)
<1>1. /\ writing /\ flash' = [flash EXCEPT ![Next_step.on] = etc[Next_step.on]]
      /\ Next_step.op = "install" /\ GoOn(Tail(todo))
      /\ UNCHANGED <<etc, sums, settled, complete>>
  BY DEF InstallEnds
<1>2. todo # <<>>
  BY <1>1 DEF IInv, BootFirst
<1>3. Next_step.on \in File
  BY <1>1, <1>2, HeadFacts DEF IInv
<1>4. \A g \in Group : settled'[g] => settled[g]
  BY <1>1
<1>5. IInv'
  BY InstallEndsStep
<1> QED
  BY <1>1, <1>2, <1>3, <1>4, <1>5, GoOnGoesOn, InstallHides

LEMMA SumBeginsHides ==
  ASSUME IInv, SumBegins
  PROVE  Groups!Hide
<1>1. /\ todo # <<>> /\ sums' = [sums EXCEPT ![Next_step.on] = Partial]
      /\ settled' = [settled EXCEPT ![Next_step.on] = FALSE]
      /\ UNCHANGED <<etc, flash, complete, shown>>
  BY DEF SumBegins
<1>2. ASSUME NEW g \in Group, Verified(g)' PROVE Verified(g)
  <2>1. sums'[g] # Partial
    BY <1>2 DEF Verified
  <2>2. sums'[g] = sums[g]
    BY <1>1, <2>1 DEF IInv, FlashType
  <2> QED
    BY <1>1, <1>2, <2>2 DEF Verified
<1>3. \A g \in Group : settled'[g] => settled[g]
  BY <1>1 DEF IInv, FlashType
<1> QED
  BY <1>1, <1>2, <1>3, KeptGoesOn, FewerIsHide

\* With its checksums a group is put aside, as its files were meanwhile.
LEMMA SumEndsPutsAside ==
  ASSUME IInv, SumEnds
  PROVE  \E g \in Group : Groups!PutAside(g)
<1>1. /\ writing /\ Next_step.op = "sum" /\ GoOn(Tail(todo)) /\ UNCHANGED <<etc, flash>>
      /\ settled' = [settled EXCEPT ![Next_step.on] = TRUE]
  BY DEF SumEnds
<1>2. todo # <<>>
  BY <1>1 DEF IInv, BootFirst
<1>3. PICK k \in Group : k = Next_step.on
  BY <1>1, <1>2, HeadFacts DEF IInv
<1>4. \A f \in Files(k) : \/ flash[f] \in Savable(f) \cap shown[f]
                         \/ Absent \in shown[f]
  BY <1>1, <1>2, <1>3, SumReady DEF IInv
<1>5. PICK made : made = [f \in Found(k) |-> flash[f]]
  OBVIOUS
<1>6. made \in Copies(k)
  BY <1>1, <1>2, <1>3, <1>5, FoundIsCopy
<1>7. DOMAIN made = Found(k) /\ \A f \in Found(k) : made[f] = flash[f]
  BY <1>5
<1>8. made \in [Found(k) -> Content] /\ Found(k) \in SUBSET Files(k)
  BY <1>3, <1>6, <1>7, CopyFacts
<1>9. \A f \in Files(k) : Absent \in shown[f] \/ (f \in Found(k) /\ made[f] \in shown[f])
  <2> SUFFICES ASSUME NEW f \in Files(k), flash[f] \in Savable(f) \cap shown[f]
               PROVE  f \in Found(k) /\ made[f] \in shown[f]
    BY <1>4
  <2>1. f \in File
    BY <1>3, FileFacts
  <2>2. f \in Found(k)
    BY <2>1, ContentFacts DEF Found
  <2> QED
    BY <1>7, <2>2
<1>10. /\ sums'[k] = made /\ complete' = [complete EXCEPT ![k] = made]
       /\ \A g \in Group : g # k => sums'[g] = sums[g]
  BY <1>3, <1>5 DEF SumEnds, IInv, FlashType
<1>11. made \notin {Absent, Partial}
  BY <1>3, <1>6, MarkerAssumption
<1>12. Verified(k)'
  BY <1>1, <1>7, <1>10, <1>11 DEF Verified
<1>13. \A g \in Group : g # k => (Verified(g)' <=> Verified(g))
  BY <1>1, <1>10 DEF Verified
<1>14. {g \in Group : Verified(g)}' = {g \in Group : Verified(g)} \cup {k}
  BY <1>3, <1>12, <1>13
<1>15. {g \in Group : ~settled[g]}' = {g \in Group : ~settled[g]} \ {k}
  BY <1>1, <1>3 DEF IInv, FlashType
<1>16. Groups!GoesOn
  BY <1>1, GoOnGoesOn
<1>17. Groups!PutAside(k)
  <2>1. [g \in Group |-> Files(g)][k] = Files(k)
    OBVIOUS
  <2>2. \E files \in SUBSET Files(k) : \E copy \in [files -> Content] :
          /\ \A f \in Files(k) : Absent \in shown[f] \/ (f \in files /\ copy[f] \in shown[f])
          /\ complete' = [complete EXCEPT ![k] = copy]
    BY <1>8, <1>9, <1>10
  <2> QED
    BY <1>1, <1>14, <1>15, <1>16, <2>1, <2>2 DEF Groups!PutAside
<1> QED
  BY <1>3, <1>17

LEMMA EraseBeginsHides ==
  ASSUME IInv, EraseBegins
  PROVE  Groups!Hide
<1>1. PICK gone :
        /\ flash' = [f \in File |-> IF f \in gone THEN Absent ELSE flash[f]]
        /\ sums' = [g \in Group |-> IF g \in gone THEN Absent ELSE sums[g]]
  BY DEF EraseBegins
<1>2. /\ todo # <<>> /\ UNCHANGED <<etc, complete, shown>>
      /\ settled' = [g \in Group |-> FALSE]
  BY DEF EraseBegins
<1>3. ASSUME NEW g \in Group, Verified(g)' PROVE Verified(g)
  <2>1. /\ sums'[g] \notin {Absent, Partial}
        /\ \A f \in DOMAIN sums'[g] : flash'[f] = sums'[g][f]
    BY <1>3 DEF Verified
  <2>2. sums'[g] = sums[g]
    BY <1>1, <2>1
  <2>3. sums[g] \in Copies(g)
    BY <2>1, <2>2, SumsAreCopies DEF IInv, FlashType
  <2>4. \A f \in DOMAIN sums[g] : flash'[f] # Absent /\ f \in File
    BY <2>1, <2>2, <2>3, CopyFacts, FileFacts
  <2>5. \A f \in DOMAIN sums[g] : flash'[f] = flash[f]
    BY <1>1, <2>4
  <2> QED
    BY <2>1, <2>2, <2>5 DEF Verified
<1>4. \A g \in Group : settled'[g] => settled[g]
  BY <1>2
<1> QED
  BY <1>2, <1>3, <1>4, KeptGoesOn, FewerIsHide

LEMMA EraseEndsClears ==
  ASSUME IInv, EraseEnds
  PROVE  Groups!Clear
<1>1. /\ writing /\ sums' = [g \in Group |-> Absent] /\ complete' = sums'
      /\ settled' = [g \in Group |-> TRUE]
      /\ GoOn(Tail(todo)) /\ UNCHANGED etc
  BY DEF EraseEnds
<1>2. todo # <<>>
  BY <1>1 DEF IInv, BootFirst
<1>3. {g \in Group : Verified(g)}' = {}
  BY <1>1 DEF Verified
<1>4. {g \in Group : ~settled[g]}' = {}
  BY <1>1
<1> QED
  BY <1>1, <1>2, <1>3, <1>4, RunningIsHeld, GoOnGoesOn DEF Groups!Clear

LEMMA PowerLossSwitchesOff ==
  ASSUME PowerLoss
  PROVE  Groups!SwitchOff
<1>1. /\ etc' = FreshEtc /\ shown' = NothingShown
      /\ UNCHANGED <<flash, sums, settled, complete>>
  BY DEF PowerLoss, GoOn
<1>2. /\ {h \in Group : Verified(h)}' = {h \in Group : Verified(h)}
      /\ {h \in Group : ~settled[h]}' = {h \in Group : ~settled[h]}
  BY <1>1, FlashKept
<1> QED
  BY <1>1, <1>2 DEF Groups!SwitchOff, Groups!Nothing, NothingShown

LEMMA CommandBegins ==
  ASSUME IInv, Command
  PROVE  Groups!Begin
<1>1. /\ todo = <<>> /\ shown' = [f \in File |-> {etc[f]}]
      /\ UNCHANGED <<etc, flash, sums, settled, complete>>
  BY DEF Command, Starts
<1>2. /\ {h \in Group : Verified(h)}' = {h \in Group : Verified(h)}
      /\ {h \in Group : ~settled[h]}' = {h \in Group : ~settled[h]}
  BY <1>1, FlashKept
<1> QED
  BY <1>1, <1>2, RunningIsHeld DEF Groups!Begin

LEMMA SystemStepMaps ==
  ASSUME IInv, SystemStep
  PROVE  Groups!Next \/ UNCHANGED Groups!vars
<1>1. CASE \E g \in Group : Restore(g)
  BY <1>1, RestoreBringsBack DEF Groups!Next
<1>2. CASE RestoreSkipped
  <2>1. UNCHANGED <<etc, flash, sums, settled, complete, shown>>
    BY <1>2 DEF RestoreSkipped
  <2>2. /\ {h \in Group : Verified(h)}' = {h \in Group : Verified(h)}
        /\ {h \in Group : ~settled[h]}' = {h \in Group : ~settled[h]}
    BY <2>1, FlashKept
  <2> QED
    BY <2>1, <2>2 DEF Groups!vars
<1>3. CASE \E f \in File : \E c \in ContentOf(f) : Edit(f, c)
  BY <1>3, EditChanges DEF Groups!Next
<1>4. CASE Saver
  <2>1. \/ Groups!Hide \/ Groups!Clear
        \/ \E g \in Group : Groups!Reappear(g) \/ Groups!PutAside(g)
    BY <1>4, ExpandHides, SkipHides, InstallBeginsHides, InstallEndsReappears,
       SumBeginsHides, SumEndsPutsAside, EraseBeginsHides, EraseEndsClears DEF Saver
  <2> QED
    BY <2>1 DEF Groups!Next
<1>5. CASE PowerLoss
  BY <1>5, PowerLossSwitchesOff DEF Groups!Next
<1> QED
  BY <1>1, <1>2, <1>3, <1>4, <1>5 DEF SystemStep

\* antsdr-persist and S15antsdr-persistence implement SavedGroups: a save of a
\* group is one step, of contents its files had while it ran, and a boot brings
\* back the last such save or nothing, whatever is edited or cut off between; host
\* keys that save had not got come with it only after a save that was cut off.
THEOREM PersistenceRefinement == Spec => ImplementsSavedGroups
<1>1. Init => Groups!Init
  <2> SUFFICES ASSUME Init PROVE Groups!Init
    OBVIOUS
  <2>1. {g \in Group : Verified(g)} = {} /\ {g \in Group : ~settled[g]} = {}
    BY DEF Init, Verified
  <2> QED
    BY <2>1 DEF Init, NothingShown, Groups!Init, Groups!Nothing
<1>2. IInv /\ [Next]_vars => [Groups!Next]_(Groups!vars)
  <2>1. ASSUME IInv, Next PROVE [Groups!Next]_(Groups!vars)
    <3>1. CASE SystemStep
      BY <2>1, <3>1, SystemStepMaps
    <3>2. CASE Command
      BY <2>1, <3>2, CommandBegins DEF Groups!Next
    <3> QED
      BY <2>1, <3>1, <3>2 DEF Next
  <2>2. ASSUME UNCHANGED vars PROVE UNCHANGED Groups!vars
    <3>1. /\ {h \in Group : Verified(h)}' = {h \in Group : Verified(h)}
          /\ {h \in Group : ~settled[h]}' = {h \in Group : ~settled[h]}
      BY <2>2, FlashKept DEF vars
    <3> QED
      BY <2>2, <3>1 DEF vars, Groups!vars
  <2> QED
    BY <2>1, <2>2
<1> QED
  BY <1>1, <1>2, PersistenceInvariant, PTL DEF Spec, ImplementsSavedGroups, Groups!Spec
===============================================================================
