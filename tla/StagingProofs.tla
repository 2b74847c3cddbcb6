---------------------------- MODULE StagingProofs ----------------------------
(***************************************************************************)
(* Theorems about Staging, for every set of requests, of Core's files and  *)
(* of names, as long as no name is drawn twice.                            *)
(***************************************************************************)
EXTENDS Staging, TLAPS

Before == {"idle", "mktemp"}
Making == {"write", "unlink", "symlink", "link", "copy"}
Ready == {"submit", "accepted"}

\* What the staged file of a request holds at each stage: the name is its own from
\* mkstemp() on, and complete once the request is ready.
Staged(r) ==
  LET e == disk[name[r]]
  IN /\ pc[r] = "write" => e = File("placeholder")
     /\ pc[r] = "unlink" => e = File("placeholder")
     /\ pc[r] \in {"symlink", "link", "copy", "refused"} => e = Nothing
     /\ pc[r] \in Ready /\ phase[r] # "ended" =>
          \/ form[r] = "inline" /\ e = File(r)
          \/ form[r] = "alias" /\ e \in {Link(source[r]), File(source[r])}
     /\ phase[r] = "ended" => e = Nothing \/ r \in Undeletable

Handled(r) ==
  /\ pc[r] \in Before => name[r] = None
  /\ pc[r] \in Making => name[r] \in Names
  /\ pc[r] = "mktemp" => form[r] \in {"inline", "alias"}
  /\ pc[r] = "write" => form[r] = "inline"
  /\ pc[r] \in Making \ {"write"} => form[r] = "alias"
  /\ pc[r] \in Ready =>
       \/ form[r] \in {"inline", "alias"} /\ name[r] \in Names
       \/ form[r] = "direct" /\ name[r] = None
  /\ pc[r] = "failed" => form[r] = "direct" \/ name[r] \in Names
  /\ pc[r] \notin {"idle", "refused"} /\ form[r] \in {"alias", "direct"} => source[r] \in Blobs
  /\ phase[r] # "none" <=> pc[r] = "accepted"
  /\ phase[r] = "none" => saw[r] = None
  /\ name[r] # None => Staged(r)

Types ==
  /\ disk \in [Paths -> Entries]
  /\ drawn \subseteq Names
  /\ pc \in [Requests -> Pcs]
  /\ form \in [Requests -> {"inline", "alias", "direct", None}]
  /\ source \in [Requests -> Blobs \cup {None}]
  /\ name \in [Requests -> Names \cup {None}]
  /\ phase \in [Requests -> {"none", "queued", "running", "ended"}]
  /\ saw \in [Requests -> Data \cup {"nothing", None}]

\* Names are drawn once, so that no two requests have the same and none can lose
\* its own to another.  CoreBlobsIntact and ReadsWhatWasMeant are not inductive
\* without it: a copy writes through whatever link its name has become.
OwnName ==
  /\ \A r \in Requests : name[r] # None => name[r] \in drawn
  /\ \A r, q \in Requests : name[r] = name[q] /\ name[r] # None => r = q
  /\ \A n \in Names : disk[n] # Nothing => \E r \in Requests : name[r] = n

HandledInv == \A r \in Requests : Handled(r)

Inv == Types /\ OwnName /\ CoreBlobsIntact /\ HandledInv /\ ReadsWhatWasMeant

USE DEF Before, Making, Ready, Pcs, Paths

LEMMA InitInv == Init => Inv
<1>. SUFFICES ASSUME Init PROVE Inv
  OBVIOUS
<1>1. Types
  BY StagingAssumption DEF Init, Types, Entries, Data, File, Nothing
<1>2. OwnName
  BY StagingAssumption DEF Init, OwnName
<1>3. CoreBlobsIntact
  BY DEF Init, CoreBlobsIntact
<1>4. HandledInv
  BY DEF Init, HandledInv, Handled
<1>5. ReadsWhatWasMeant
  BY DEF Init, ReadsWhatWasMeant
<1>. QED
  BY <1>1, <1>2, <1>3, <1>4, <1>5 DEF Inv

\* The path a request opens holds what it means, link or not.
LEMMA OpensItsOwn ==
  ASSUME Inv, NEW r \in Requests, pc[r] = "accepted", phase[r] # "ended"
  PROVE  Exists(Input(r)) /\ Content(Input(r)) = Meant(r)
<1>1. Handled(r)
  BY DEF Inv, HandledInv
<1>2. CASE form[r] = "direct"
  <2>1. source[r] \in Blobs
    BY <1>1, <1>2 DEF Handled
  <2>2. disk[source[r]] = File(source[r])
    BY <2>1 DEF Inv, CoreBlobsIntact
  <2>. QED
    BY <1>2, <2>1, <2>2 DEF Input, Content, Target, Meant, Exists, File, Nothing
<1>3. CASE form[r] = "inline"
  <2>1. name[r] \in Names /\ disk[name[r]] = File(r)
    BY <1>1, <1>3, StagingAssumption DEF Handled, Staged
  <2>. QED
    BY <1>3, <2>1 DEF Input, Content, Target, Meant, Exists, File, Nothing
<1>4. CASE form[r] = "alias"
  <2>1. name[r] \in Names /\ disk[name[r]] \in {Link(source[r]), File(source[r])} /\ source[r] \in Blobs
    BY <1>1, <1>4, StagingAssumption DEF Handled, Staged
  <2>2. disk[source[r]] = File(source[r])
    BY <2>1 DEF Inv, CoreBlobsIntact
  <2>. QED
    BY <1>4, <2>1, <2>2 DEF Input, Content, Target, Meant, Exists, File, Link, Nothing
<1>. QED
  BY <1>1, <1>2, <1>3, <1>4 DEF Handled

-----------------------------------------------------------------------------
(* A step of one request leaves the others alone: it changes at most what  *)
(* its own name holds.                                                     *)

LEMMA OthersKeep ==
  ASSUME Inv, NEW q \in Requests, NEW n, n = None \/ n # name[q],
         \A p \in Paths : p # n => disk'[p] = disk[p],
         pc'[q] = pc[q], form'[q] = form[q], source'[q] = source[q],
         name'[q] = name[q], phase'[q] = phase[q], saw'[q] = saw[q]
  PROVE  Handled(q)'
<1>1. Handled(q)
  BY DEF Inv, HandledInv
<1>2. name[q] # None => name[q] \in Paths /\ name[q] # n
  BY DEF Inv, Types
<1>3. name[q] # None => disk'[name[q]] = disk[name[q]]
  BY <1>2
<1>4. name[q] # None => Staged(q)'
  BY <1>1, <1>3 DEF Handled, Staged, File, Link, Nothing
<1>. QED
  BY <1>1, <1>4 DEF Handled

-----------------------------------------------------------------------------
(* One lemma per action.                                                *)

LEMMA ExceptType ==
  ASSUME NEW S, NEW T, NEW f \in [S -> T], NEW n, NEW e \in T
  PROVE  [f EXCEPT ![n] = e] \in [S -> T]
OBVIOUS

LEMMA ReceiveInv ==
  ASSUME Inv, NEW r \in Requests, Receive(r)
  PROVE  Inv'
<1>. USE DEF Receive, Goto, Job
<1>0. Handled(r) /\ name[r] \in Names \cup {None}
  BY DEF Inv, HandledInv, Types
<1>a. name[r] = None /\ phase[r] = "none" /\ saw[r] = None /\ pc[r] = "idle"
  BY <1>0 DEF Handled
<1>1. Types'
  BY <1>0, <1>a, StagingAssumption DEF Inv, Types, Handled
<1>2. OwnName'
  BY <1>0, <1>a, StagingAssumption DEF Inv, Types, OwnName, Handled
<1>3. CoreBlobsIntact'
  BY <1>0, <1>a, StagingAssumption DEF Inv, Types, CoreBlobsIntact, Handled
<1>4. Handled(r)'
  BY <1>0, <1>a, StagingAssumption DEF Inv, Types, OwnName, Handled, Staged
<1>5. ASSUME NEW q \in Requests, q # r PROVE Handled(q)'
  <2>1. UNCHANGED disk
    OBVIOUS
  <2>. QED
    BY <1>5, <2>1, OthersKeep DEF Inv, Types
<1>6. ReadsWhatWasMeant'
  BY <1>0, <1>a DEF Inv, Types, ReadsWhatWasMeant, Meant, Handled
<1>. QED
  BY <1>1, <1>2, <1>3, <1>4, <1>5, <1>6 DEF Inv, HandledInv

LEMMA MakeTempInv ==
  ASSUME Inv, NEW r \in Requests, MakeTemp(r), ~NamesRecur
  PROVE  Inv'
<1>. USE DEF MakeTemp, Goto, Job, Entries, Data, File, Link, Nothing, Exists
<1>0. Handled(r) /\ name[r] \in Names \cup {None}
  BY DEF Inv, HandledInv, Types
<1>a. name[r] = None /\ phase[r] = "none" /\ saw[r] = None /\ pc[r] = "mktemp" /\ form[r] \in {"inline", "alias"}
  BY <1>0 DEF Handled
<1>b. \E n \in Names \cup {None} :
        /\ n \notin drawn \/ n = None
        /\ \A p \in Paths : p # n => disk'[p] = disk[p]
        /\ \A q \in Requests : q # r => name'[q] = name[q]
  BY StagingAssumption DEF Inv, Types
<1>1. Types'
  BY <1>0, <1>a, StagingAssumption DEF Inv, Types, Handled
<1>2. OwnName'
  BY <1>0, <1>a, StagingAssumption DEF Inv, Types, OwnName, Handled
<1>3. CoreBlobsIntact'
  BY <1>0, <1>a, StagingAssumption DEF Inv, Types, CoreBlobsIntact, Handled
<1>4. Handled(r)'
  BY <1>0, <1>a, StagingAssumption DEF Inv, Types, OwnName, Handled, Staged
<1>5. ASSUME NEW q \in Requests, q # r PROVE Handled(q)'
  <2>1. PICK n \in Names \cup {None} :
          /\ n \notin drawn \/ n = None
          /\ \A p \in Paths : p # n => disk'[p] = disk[p]
          /\ \A i \in Requests : i # r => name'[i] = name[i]
    BY <1>b
  <2>2. n = None \/ n # name[q]
    BY <2>1, StagingAssumption DEF Inv, OwnName
  <2>3. /\ pc'[q] = pc[q] /\ form'[q] = form[q] /\ source'[q] = source[q]
        /\ name'[q] = name[q] /\ phase'[q] = phase[q] /\ saw'[q] = saw[q]
    BY <1>5, <2>1 DEF Inv, Types
  <2>. QED
    BY <2>1, <2>2, <2>3, OthersKeep
<1>6. ReadsWhatWasMeant'
  BY <1>0, <1>a DEF Inv, Types, ReadsWhatWasMeant, Meant, Handled
<1>. QED
  BY <1>1, <1>2, <1>3, <1>4, <1>5, <1>6 DEF Inv, HandledInv

LEMMA WriteInlineInv ==
  ASSUME Inv, NEW r \in Requests, WriteInline(r)
  PROVE  Inv'
<1>. USE DEF WriteInline, Goto, Job, File, Link, Nothing, Exists
<1>0. Handled(r) /\ name[r] \in Names \cup {None}
  BY DEF Inv, HandledInv, Types
<1>a. \A d \in Data : [kind |-> "file", of |-> d] \in Entries
  BY DEF Entries, File
<1>b. r \in Data /\ "partial" \in Data
  BY DEF Data
<1>1. Types'
  <2>0. disk \in [Paths -> Entries]
    BY DEF Inv, Types
  <2>1. \/ disk' = disk
        \/ \E e \in Entries : disk' = [disk EXCEPT ![name[r]] = e]
    <3>1. \/ disk' = disk
          \/ \E d \in Data : disk' = [disk EXCEPT ![name[r]] = [kind |-> "file", of |-> d]]
      BY <1>b
    <3>. QED
      BY <1>a, <3>1, Zenon
  <2>2. disk' \in [Paths -> Entries]
    BY <2>0, <2>1, ExceptType, Zenon
  <2>. QED
    BY <2>2 DEF Inv, Types
<1>2. OwnName'
  BY <1>0, StagingAssumption DEF Inv, Types, OwnName, Handled
<1>3. CoreBlobsIntact'
  BY <1>0, StagingAssumption DEF Inv, Types, CoreBlobsIntact, Handled
<1>4. Handled(r)'
  BY <1>0, StagingAssumption DEF Inv, Types, OwnName, Handled, Staged
<1>5. ASSUME NEW q \in Requests, q # r PROVE Handled(q)'
  <2>1. name[r] = None \/ name[r] # name[q]
    BY <1>5 DEF Inv, OwnName
  <2>. QED
    BY <1>0, <1>5, <2>1, OthersKeep DEF Inv, Types
<1>6. ReadsWhatWasMeant'
  BY <1>0 DEF Inv, Types, ReadsWhatWasMeant, Meant, Handled
<1>. QED
  BY <1>1, <1>2, <1>3, <1>4, <1>5, <1>6 DEF Inv, HandledInv

LEMMA UnlinkTempInv ==
  ASSUME Inv, NEW r \in Requests, UnlinkTemp(r)
  PROVE  Inv'
<1>. USE DEF UnlinkTemp, Goto, Job, Entries, Data, File, Link, Nothing, Exists
<1>0. Handled(r) /\ name[r] \in Names \cup {None}
  BY DEF Inv, HandledInv, Types
<1>1. Types'
  BY <1>0, StagingAssumption DEF Inv, Types, Handled
<1>2. OwnName'
  BY <1>0, StagingAssumption DEF Inv, Types, OwnName, Handled
<1>3. CoreBlobsIntact'
  BY <1>0, StagingAssumption DEF Inv, Types, CoreBlobsIntact, Handled
<1>4. Handled(r)'
  BY <1>0, StagingAssumption DEF Inv, Types, OwnName, Handled, Staged
<1>5. ASSUME NEW q \in Requests, q # r PROVE Handled(q)'
  <2>1. name[r] = None \/ name[r] # name[q]
    BY <1>5 DEF Inv, OwnName
  <2>. QED
    BY <1>0, <1>5, <2>1, OthersKeep DEF Inv, Types
<1>6. ReadsWhatWasMeant'
  BY <1>0 DEF Inv, Types, ReadsWhatWasMeant, Meant, Handled
<1>. QED
  BY <1>1, <1>2, <1>3, <1>4, <1>5, <1>6 DEF Inv, HandledInv

LEMMA SymlinkInv ==
  ASSUME Inv, NEW r \in Requests, Symlink(r)
  PROVE  Inv'
<1>. USE DEF Symlink, LinkAlias, Goto, Job, Entries, Data, File, Link, Nothing, Exists
<1>0. Handled(r) /\ name[r] \in Names \cup {None}
  BY DEF Inv, HandledInv, Types
<1>1. Types'
  BY <1>0, StagingAssumption DEF Inv, Types, Handled
<1>2. OwnName'
  BY <1>0, StagingAssumption DEF Inv, Types, OwnName, Handled
<1>3. CoreBlobsIntact'
  BY <1>0, StagingAssumption DEF Inv, Types, CoreBlobsIntact, Handled
<1>4. Handled(r)'
  BY <1>0, StagingAssumption DEF Inv, Types, OwnName, Handled, Staged
<1>5. ASSUME NEW q \in Requests, q # r PROVE Handled(q)'
  <2>1. name[r] = None \/ name[r] # name[q]
    BY <1>5 DEF Inv, OwnName
  <2>. QED
    BY <1>0, <1>5, <2>1, OthersKeep DEF Inv, Types
<1>6. ReadsWhatWasMeant'
  BY <1>0 DEF Inv, Types, ReadsWhatWasMeant, Meant, Handled
<1>. QED
  BY <1>1, <1>2, <1>3, <1>4, <1>5, <1>6 DEF Inv, HandledInv

LEMMA HardlinkInv ==
  ASSUME Inv, NEW r \in Requests, Hardlink(r)
  PROVE  Inv'
<1>. USE DEF Hardlink, LinkAlias, Goto, Job, Entries, Data, File, Link, Nothing, Exists
<1>0. Handled(r) /\ name[r] \in Names \cup {None}
  BY DEF Inv, HandledInv, Types
<1>1. Types'
  BY <1>0, StagingAssumption DEF Inv, Types, Handled
<1>2. OwnName'
  BY <1>0, StagingAssumption DEF Inv, Types, OwnName, Handled
<1>3. CoreBlobsIntact'
  BY <1>0, StagingAssumption DEF Inv, Types, CoreBlobsIntact, Handled
<1>4. Handled(r)'
  BY <1>0, StagingAssumption DEF Inv, Types, OwnName, Handled, Staged
<1>5. ASSUME NEW q \in Requests, q # r PROVE Handled(q)'
  <2>1. name[r] = None \/ name[r] # name[q]
    BY <1>5 DEF Inv, OwnName
  <2>. QED
    BY <1>0, <1>5, <2>1, OthersKeep DEF Inv, Types
<1>6. ReadsWhatWasMeant'
  BY <1>0 DEF Inv, Types, ReadsWhatWasMeant, Meant, Handled
<1>. QED
  BY <1>1, <1>2, <1>3, <1>4, <1>5, <1>6 DEF Inv, HandledInv

LEMMA CopyInv ==
  ASSUME Inv, NEW r \in Requests, Copy(r)
  PROVE  Inv'
<1>0. Handled(r) /\ name[r] \in Names \cup {None}
  BY DEF Inv, HandledInv, Types
<1>a. pc[r] = "copy" /\ form[r] = "alias" /\ name[r] \in Names /\ source[r] \in Blobs
  BY <1>0 DEF Handled, Copy, Goto
<1>b. disk[name[r]] = Nothing /\ disk[source[r]] = File(source[r])
  BY <1>0, <1>a, StagingAssumption DEF Handled, Staged, Inv, CoreBlobsIntact
<1>c. Target(name[r]) = name[r] /\ Content(source[r]) = source[r] /\ name[r] # source[r]
  BY <1>a, <1>b, StagingAssumption DEF Target, Content, File, Nothing
<1>d. /\ \/ pc' = [pc EXCEPT ![r] = "submit"] /\ disk' = [disk EXCEPT ![name[r]] = File(source[r])]
         \/ pc' = [pc EXCEPT ![r] = "failed"] /\ disk' = [disk EXCEPT ![name[r]] = File("partial")]
      /\ UNCHANGED <<drawn, form, source, name, phase, saw>>
  BY <1>c DEF Copy, Goto, Job
<1>e. File(source[r]) \in Entries /\ File("partial") \in Entries
  BY <1>a DEF Entries, Data
<1>1. Types'
  <2>1. disk' \in [Paths -> Entries]
    BY <1>a, <1>d, <1>e DEF Inv, Types
  <2>. QED
    BY <1>d, <2>1 DEF Inv, Types
<1>2. OwnName'
  BY <1>a, <1>d, StagingAssumption DEF Inv, Types, OwnName
<1>3. CoreBlobsIntact'
  BY <1>a, <1>d, StagingAssumption DEF Inv, Types, CoreBlobsIntact, File
<1>4. Handled(r)'
  <2>1. disk'[name[r]] = File(source[r]) \/ pc'[r] = "failed"
    BY <1>a, <1>d DEF Inv, Types
  <2>2. phase[r] = "none" /\ saw[r] = None
    BY <1>0, <1>a DEF Handled
  <2>3. pc'[r] \in {"submit", "failed"}
    BY <1>d DEF Inv, Types
  <2>4. Staged(r)'
    BY <1>a, <1>d, <2>1, <2>2, <2>3 DEF Staged, File
  <2>. QED
    BY <1>a, <1>d, <2>2, <2>3, <2>4 DEF Handled
<1>5. ASSUME NEW q \in Requests, q # r PROVE Handled(q)'
  <2>1. name[r] # name[q]
    BY <1>5, <1>a, StagingAssumption DEF Inv, OwnName
  <2>2. /\ pc'[q] = pc[q] /\ form'[q] = form[q] /\ source'[q] = source[q]
        /\ name'[q] = name[q] /\ phase'[q] = phase[q] /\ saw'[q] = saw[q]
    BY <1>5, <1>d DEF Inv, Types
  <2>3. \A p \in Paths : p # name[r] => disk'[p] = disk[p]
    BY <1>d DEF Inv, Types
  <2>. QED
    BY <2>1, <2>2, <2>3, OthersKeep
<1>6. ReadsWhatWasMeant'
  BY <1>d DEF Inv, ReadsWhatWasMeant, Meant
<1>. QED
  BY <1>1, <1>2, <1>3, <1>4, <1>5, <1>6 DEF Inv, HandledInv

LEMMA SubmitInv ==
  ASSUME Inv, NEW r \in Requests, Submit(r)
  PROVE  Inv'
<1>. USE DEF Submit, Goto
<1>0. Handled(r) /\ name[r] \in Names \cup {None}
  BY DEF Inv, HandledInv, Types
<1>1. Types'
  BY <1>0, StagingAssumption DEF Inv, Types, Handled
<1>2. OwnName'
  BY <1>0, StagingAssumption DEF Inv, Types, OwnName, Handled
<1>3. CoreBlobsIntact'
  BY <1>0, StagingAssumption DEF Inv, Types, CoreBlobsIntact, Handled
<1>4. Handled(r)'
  BY <1>0, StagingAssumption DEF Inv, Types, OwnName, Handled, Staged
<1>5. ASSUME NEW q \in Requests, q # r PROVE Handled(q)'
  <2>1. UNCHANGED disk
    OBVIOUS
  <2>. QED
    BY <1>5, <2>1, OthersKeep DEF Inv, Types
<1>6. ReadsWhatWasMeant'
  BY <1>0 DEF Inv, Types, ReadsWhatWasMeant, Meant, Handled
<1>. QED
  BY <1>1, <1>2, <1>3, <1>4, <1>5, <1>6 DEF Inv, HandledInv

LEMMA StartInv ==
  ASSUME Inv, NEW r \in Requests, Start(r)
  PROVE  Inv'
<1>. USE DEF Start, Proceed, request
<1>0. Handled(r) /\ name[r] \in Names \cup {None}
  BY DEF Inv, HandledInv, Types
<1>1. Types'
  BY <1>0, StagingAssumption DEF Inv, Types, Handled
<1>2. OwnName'
  BY <1>0, StagingAssumption DEF Inv, Types, OwnName, Handled
<1>3. CoreBlobsIntact'
  BY <1>0, StagingAssumption DEF Inv, Types, CoreBlobsIntact, Handled
<1>4. Handled(r)'
  BY <1>0, StagingAssumption DEF Inv, Types, OwnName, Handled, Staged
<1>5. ASSUME NEW q \in Requests, q # r PROVE Handled(q)'
  <2>1. UNCHANGED disk
    OBVIOUS
  <2>. QED
    BY <1>5, <2>1, OthersKeep DEF Inv, Types
<1>6. ReadsWhatWasMeant'
  BY <1>0 DEF Inv, Types, ReadsWhatWasMeant, Meant, Handled
<1>. QED
  BY <1>1, <1>2, <1>3, <1>4, <1>5, <1>6 DEF Inv, HandledInv

LEMMA OpenInv ==
  ASSUME Inv, NEW r \in Requests, Open(r)
  PROVE  Inv'
<1>. USE DEF Open, request
<1>0. Handled(r) /\ name[r] \in Names \cup {None}
  BY DEF Inv, HandledInv, Types
<1>a. pc[r] = "accepted" /\ phase[r] = "running"
  BY <1>0 DEF Handled
<1>b. saw' = [saw EXCEPT ![r] = Meant(r)]
  BY <1>a, OpensItsOwn
<1>c. Meant(r) \in Data
  BY <1>0, <1>a DEF Meant, Handled, Data
<1>1. Types'
  BY <1>b, <1>c DEF Inv, Types
<1>2. OwnName'
  BY <1>0, StagingAssumption DEF Inv, Types, OwnName, Handled
<1>3. CoreBlobsIntact'
  BY <1>0, StagingAssumption DEF Inv, Types, CoreBlobsIntact, Handled
<1>4. Handled(r)'
  BY <1>0, <1>a DEF Inv, Types, Handled, Staged
<1>5. ASSUME NEW q \in Requests, q # r PROVE Handled(q)'
  <2>1. saw'[q] = saw[q]
    BY <1>5, <1>b DEF Inv, Types
  <2>2. UNCHANGED disk
    OBVIOUS
  <2>. QED
    BY <1>5, <2>1, <2>2, OthersKeep DEF Inv, Types
<1>6. ReadsWhatWasMeant'
  BY <1>b, <1>c DEF Inv, Types, ReadsWhatWasMeant, Meant
<1>. QED
  BY <1>1, <1>2, <1>3, <1>4, <1>5, <1>6 DEF Inv, HandledInv

LEMMA EndInv ==
  ASSUME Inv, NEW r \in Requests, End(r)
  PROVE  Inv'
<1>. USE DEF End, Proceed, request, Deleted, Cleanup, Entries, Data, File, Link, Nothing, Exists
<1>0. Handled(r) /\ name[r] \in Names \cup {None}
  BY DEF Inv, HandledInv, Types
<1>1. Types'
  BY <1>0, StagingAssumption DEF Inv, Types, Handled
<1>2. OwnName'
  BY <1>0, StagingAssumption DEF Inv, Types, OwnName, Handled
<1>3. CoreBlobsIntact'
  BY <1>0, StagingAssumption DEF Inv, Types, CoreBlobsIntact, Handled
<1>4. Handled(r)'
  BY <1>0, StagingAssumption DEF Inv, Types, OwnName, Handled, Staged
<1>5. ASSUME NEW q \in Requests, q # r PROVE Handled(q)'
  <2>1. name[r] = None \/ name[r] # name[q]
    BY <1>5 DEF Inv, OwnName
  <2>2. \A p \in Paths : p # name[r] => disk'[p] = disk[p]
    BY DEF Inv, Types
  <2>3. /\ pc'[q] = pc[q] /\ form'[q] = form[q] /\ source'[q] = source[q]
        /\ name'[q] = name[q] /\ phase'[q] = phase[q] /\ saw'[q] = saw[q]
    BY <1>5 DEF Inv, Types
  <2>. HIDE DEF End, Proceed, request, Deleted, Cleanup, Entries, Data, File, Link, Nothing, Exists
  <2>. QED
    BY <2>1, <2>2, <2>3, OthersKeep
<1>6. ReadsWhatWasMeant'
  BY <1>0 DEF Inv, Types, ReadsWhatWasMeant, Meant, Handled
<1>. QED
  BY <1>1, <1>2, <1>3, <1>4, <1>5, <1>6 DEF Inv, HandledInv

-----------------------------------------------------------------------------
LEMMA NextInv == ASSUME Inv, ~NamesRecur, [Next]_vars PROVE Inv'
<1>1. CASE UNCHANGED vars
  BY <1>1 DEF vars, request, Inv, Types, OwnName, CoreBlobsIntact, HandledInv, Handled,
    Staged, ReadsWhatWasMeant, Meant, File, Link, Nothing
<1>2. ASSUME NEW r \in Requests,
             Receive(r) \/ Handling(r) \/ Start(r) \/ Open(r) \/ End(r)
      PROVE  Inv'
  BY <1>2, ReceiveInv, MakeTempInv, WriteInlineInv, UnlinkTempInv, SymlinkInv,
    HardlinkInv, CopyInv, SubmitInv, StartInv, OpenInv, EndInv DEF Handling
<1>. QED
  BY <1>1, <1>2 DEF Next

\* The inductive invariant: each name in the directory is one request's, which is at
\* the step that left it there.  It holds if mkstemp() never gives one name twice.
THEOREM Invariance == ASSUME ~NamesRecur PROVE Spec => []Inv
<1>. QED
  BY InitInv, NextInv, PTL DEF Spec

-----------------------------------------------------------------------------
(* The theorems.                                                           *)

LEMMA InvImplies ==
  ASSUME Inv
  PROVE  TypeOK /\ CoreBlobsIntact /\ ReadsWhatWasMeant /\ StagedFilesHaveAnOwner
<1>1. TypeOK
  <2>1. ASSUME NEW r \in Requests
        PROVE  /\ name[r] = None => pc[r] \in {"idle", "mktemp", "refused"} \/ form[r] = "direct"
               /\ phase[r] # "none" => pc[r] = "accepted"
    <3>1. Handled(r) /\ pc[r] \in Pcs
      BY DEF Inv, HandledInv, Types
    <3>. QED
      BY <3>1, StagingAssumption DEF Handled
  <2>. QED
    BY <2>1 DEF Inv, Types, TypeOK
<1>2. ASSUME NEW n \in Names, Exists(n)
      PROVE  \E r \in Requests :
               /\ name[r] = n
               /\ pc[r] # "refused"
               /\ phase[r] = "ended" => r \in Undeletable
  <2>1. PICK r \in Requests : name[r] = n
    BY <1>2 DEF Inv, OwnName, Exists
  <2>2. Staged(r)
    BY <2>1, StagingAssumption DEF Inv, HandledInv, Handled
  <2>3. pc[r] # "refused" /\ (phase[r] = "ended" => r \in Undeletable)
    BY <1>2, <2>1, <2>2 DEF Staged, Exists
  <2>. QED
    BY <2>1, <2>3
<1>. QED
  BY <1>1, <1>2 DEF Inv, StagedFilesHaveAnOwner

\* The variables stay in their types and every stage has the file it relies on.
THEOREM TypeCorrect == ASSUME ~NamesRecur PROVE Spec => []TypeOK
BY Invariance, InvImplies, PTL

\* Whatever requests interleave, fail or give up, no file of Core's is removed,
\* replaced or written to.
THEOREM BlobsIntact == ASSUME ~NamesRecur PROVE Spec => []CoreBlobsIntact
BY Invariance, InvImplies, PTL

\* Every conversion that is still waited for reads the bytes of its own request.
THEOREM OwnBytes == ASSUME ~NamesRecur PROVE Spec => []ReadsWhatWasMeant
BY Invariance, InvImplies, PTL

\* Nothing is staged that is not some live request's, a failed one's, or a file of an
\* ended job that the system may refuse to delete.
THEOREM EveryFileOwned == ASSUME ~NamesRecur PROVE Spec => []StagedFilesHaveAnOwner
BY Invariance, InvImplies, PTL
=============================================================================
