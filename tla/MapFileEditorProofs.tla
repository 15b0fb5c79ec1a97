-------------------------- MODULE MapFileEditorProofs -------------------------
(***************************************************************************)
(* What the map file generator saves, for every tree of folders and        *)
(* variables, every text the user types and every session: the saved file  *)
(* says what the tree shows, refers only to history settings that are      *)
(* defined in it, and is the same when it is read and saved again.         *)
(***************************************************************************)
EXTENDS MapFileEditor, SequenceLemmas

-----------------------------------------------------------------------------
(* Paths.                                                                  *)

(* Being a prefix, place by place.                                         *)
LEMMA PrefixByPlaces ==
  ASSUME NEW p \in Seq(Word), NEW q \in Seq(Word)
  PROVE  IsPrefix(p, q) <=> Len(p) <= Len(q) /\ \A k \in 1..Len(p) : p[k] = q[k]
<1>1. Len(p) \in Nat /\ Len(q) \in Nat
  OBVIOUS
<1>2. SubSeq(p, 1, Len(p)) = p
  BY <1>1
<1>3. ASSUME Len(p) <= Len(q)
      PROVE  /\ SubSeq(q, 1, Len(p)) \in Seq(Word)
             /\ Len(SubSeq(q, 1, Len(p))) = Len(p)
             /\ \A k \in 1..Len(p) : SubSeq(q, 1, Len(p))[k] = q[k]
  BY <1>1, <1>3
<1>4. ASSUME Len(p) <= Len(q), \A k \in 1..Len(p) : p[k] = q[k]
      PROVE  p = SubSeq(q, 1, Len(p))
  BY <1>1, <1>3, <1>4, SeqEqual
<1> QED
  BY <1>1, <1>2, <1>3, <1>4 DEF IsPrefix

(* The path of the folder an item is in.                                   *)
LEMMA ParentOfItem ==
  ASSUME NEW i \in Items
  PROVE  /\ i \in Seq(Word) /\ Len(i) \in Nat
         /\ i # Root =>
              /\ Parent(i) \in Dirs /\ Len(i) > 0 /\ Last(i) \in Word
              /\ Len(Parent(i)) = Len(i) - 1
              /\ \A k \in 1..(Len(i) - 1) : Parent(i)[k] = i[k]
              /\ IsPrefix(Parent(i), i) /\ Parent(i) # i
<1>1. i \in Seq(Word) /\ Len(i) \in Nat /\ (i # <<>> => Front(i) \in Dirs)
  BY TreeAssumption DEF Items
<1>2. ASSUME i # <<>>
      PROVE  /\ Len(i) > 0 /\ i[Len(i)] \in Word
             /\ Front(i) \in Seq(Word) /\ Len(Front(i)) = Len(i) - 1
             /\ \A k \in 1..(Len(i) - 1) : Front(i)[k] = i[k]
  <2>1. Len(i) > 0
    BY <1>1, <1>2, EmptySeq
  <2>2. /\ Len(i) - 1 \in Nat /\ Len(i) - 1 <= Len(i) /\ Len(i) \in 1..Len(i)
        /\ i \in Seq(Word)
    BY <1>1, <2>1
  <2>3. ASSUME NEW n \in Nat, n <= Len(i)
        PROVE  /\ SubSeq(i, 1, n) \in Seq(Word) /\ Len(SubSeq(i, 1, n)) = n
               /\ \A k \in 1..n : SubSeq(i, 1, n)[k] = i[k]
    BY <1>1, <2>3
  <2> QED
    <3>1. Front(i) = SubSeq(i, 1, Len(i) - 1)
      BY DEF Front
    <3>2. i[Len(i)] \in Word
      BY <2>2
    <3>3. /\ SubSeq(i, 1, Len(i) - 1) \in Seq(Word)
          /\ Len(SubSeq(i, 1, Len(i) - 1)) = Len(i) - 1
          /\ \A k \in 1..(Len(i) - 1) : SubSeq(i, 1, Len(i) - 1)[k] = i[k]
      BY <2>2, <2>3
    <3> QED
      BY <2>1, <3>1, <3>2, <3>3
<1>3. i # <<>> => IsPrefix(Front(i), i)
  BY <1>1, <1>2, PrefixByPlaces
<1> QED
  BY <1>1, <1>2, <1>3 DEF Parent, Root, Last

(* A proper prefix of an item's path is one of its folder's path.          *)
LEMMA PrefixOfParent ==
  ASSUME NEW p \in Seq(Word), NEW i \in Items, i # Root
  PROVE  IsPrefix(p, i) /\ p # i <=> IsPrefix(p, Parent(i))
<1>1. Parent(i) \in Items /\ i \in Seq(Word) /\ Parent(i) \in Seq(Word)
  BY ParentOfItem DEF Items
<1>2. /\ Len(p) \in Nat /\ Len(i) \in Nat /\ Len(i) > 0
      /\ Len(Parent(i)) = Len(i) - 1
      /\ \A k \in 1..(Len(i) - 1) : Parent(i)[k] = i[k]
  BY ParentOfItem
<1>3. ASSUME IsPrefix(p, i), p # i PROVE IsPrefix(p, Parent(i))
  <2>1. Len(p) <= Len(i) /\ \A k \in 1..Len(p) : p[k] = i[k]
    BY <1>1, <1>3, PrefixByPlaces
  <2>2. Len(p) # Len(i)
    BY <1>1, <1>3, <2>1, SeqEqual
  <2>3. Len(p) <= Len(Parent(i)) /\ \A k \in 1..Len(p) : p[k] = Parent(i)[k]
    BY <1>2, <2>1, <2>2
  <2> QED
    BY <1>1, <2>3, PrefixByPlaces
<1>4. ASSUME IsPrefix(p, Parent(i)) PROVE IsPrefix(p, i) /\ p # i
  <2>1. Len(p) <= Len(i) - 1 /\ \A k \in 1..Len(p) : p[k] = Parent(i)[k]
    BY <1>1, <1>2, <1>4, PrefixByPlaces
  <2>2. Len(p) <= Len(i) /\ Len(p) # Len(i) /\ \A k \in 1..Len(p) : p[k] = i[k]
    BY <1>2, <2>1
  <2> QED
    BY <1>1, <2>2, PrefixByPlaces
<1> QED
  BY <1>3, <1>4

(* Prefixes of the same path that are as long are the same.                *)
LEMMA PrefixByLength ==
  ASSUME NEW p \in Seq(Word), NEW q \in Seq(Word), NEW i \in Seq(Word),
         IsPrefix(p, i), IsPrefix(q, i)
  PROVE  /\ Len(p) \in Nat /\ Len(i) \in Nat /\ Len(p) <= Len(i)
         /\ Len(p) = Len(q) => p = q
         /\ Len(p) <= Len(q) => IsPrefix(p, q)
<1>1. /\ Len(p) \in Nat /\ Len(q) \in Nat /\ Len(i) \in Nat
      /\ Len(p) <= Len(i) /\ \A k \in 1..Len(p) : p[k] = i[k]
      /\ Len(q) <= Len(i) /\ \A k \in 1..Len(q) : q[k] = i[k]
  BY PrefixByPlaces
<1>2. Len(p) = Len(q) => p = q
  BY <1>1, SeqEqual
<1>3. Len(p) <= Len(q) => IsPrefix(p, q)
  BY <1>1, PrefixByPlaces
<1> QED
  BY <1>1, <1>2, <1>3

(* What holds of an item and, with every item below it, of the item's      *)
(* folder holds of all folders above: induction over the path.             *)
LEMMA PathInduction ==
  ASSUME NEW H, NEW i \in Items, i \in H,
         \A j \in Items \ {Root} : j \in H => Parent(j) \in H
  PROVE  \A p \in Seq(Word) : IsPrefix(p, i) => p \in Items /\ p \in H
<1> DEFINE G == {n \in Nat : \A p \in Seq(Word), j \in Items :
                    /\ j \in H /\ IsPrefix(p, j) /\ Len(j) - Len(p) = n
                    => p \in Items /\ p \in H}
<1>1. 0 \in G
  <2> SUFFICES ASSUME NEW p \in Seq(Word), NEW j \in Items, j \in H,
                      IsPrefix(p, j), Len(j) - Len(p) = 0
               PROVE  p = j
    OBVIOUS
  <2>1. j \in Seq(Word) /\ Len(j) \in Nat /\ Len(p) \in Nat
    BY ParentOfItem
  <2> QED
    BY <2>1, PrefixByPlaces, SeqEqual
<1>2. ASSUME NEW n \in Nat, n \in G PROVE n + 1 \in G
  <2> SUFFICES ASSUME NEW p \in Seq(Word), NEW j \in Items, j \in H,
                      IsPrefix(p, j), Len(j) - Len(p) = n + 1
               PROVE  p \in Items /\ p \in H
    OBVIOUS
  <2>1. Len(p) \in Nat /\ Len(j) \in Nat /\ p # j
    BY ParentOfItem
  <2>2. j # Root
    BY <2>1 DEF Root
  <2>3. IsPrefix(p, Parent(j)) /\ Parent(j) \in Items /\ Parent(j) \in H
    BY <2>1, <2>2, PrefixOfParent, ParentOfItem DEF Items
  <2>4. Len(Parent(j)) - Len(p) = n
    BY <2>1, <2>2, ParentOfItem
  <2> QED
    BY <1>2, <2>3, <2>4
<1> HIDE DEF G
<1>3. \A n \in Nat : n \in G
  BY <1>1, <1>2, Induction
<1> SUFFICES ASSUME NEW p \in Seq(Word), IsPrefix(p, i)
             PROVE  p \in Items /\ p \in H
  OBVIOUS
<1>4. Len(i) - Len(p) \in Nat
  <2>1. i \in Seq(Word) /\ Len(i) \in Nat /\ Len(p) \in Nat
    BY ParentOfItem
  <2>2. Len(p) <= Len(i)
    BY <2>1, PrefixByPlaces
  <2> QED
    BY <2>1, <2>2
<1> QED
  BY <1>3, <1>4 DEF G

(* Everything above an item is a folder.                                   *)
LEMMA AboveIsFolder ==
  ASSUME NEW i \in Items, NEW p \in Seq(Word), IsPrefix(p, i)
  PROVE  p \in Items /\ (p # i => p \in Dirs)
<1>1. \A q \in Seq(Word) : IsPrefix(q, i) => q \in Items
  <2>1. \A j \in Items \ {Root} : j \in Items => Parent(j) \in Items
    BY ParentOfItem DEF Items
  <2> QED
    BY <2>1, PathInduction
<1>2. ASSUME p # i PROVE p \in Dirs
  <2>1. i # Root
    <3>1. Len(p) \in Nat /\ Len(<<>>) = 0 /\ <<>> \in Seq(Word)
      OBVIOUS
    <3>2. i = <<>> => Len(p) <= 0
      BY <3>1, PrefixByPlaces
    <3>3. Len(p) <= 0 => p = <<>>
      BY <3>1, EmptySeq
    <3> QED
      BY <1>2, <3>2, <3>3 DEF Root
  <2>2. IsPrefix(p, Parent(i)) /\ Parent(i) \in Dirs
    BY <1>2, <2>1, PrefixOfParent, ParentOfItem
  <2>3. \A j \in Items \ {Root} : j \in Dirs => Parent(j) \in Dirs
    BY ParentOfItem
  <2>4. Parent(i) \in Items
    BY <2>2 DEF Items
  <2> QED
    BY <2>2, <2>3, <2>4, PathInduction
<1> QED
  BY <1>1, <1>2

-----------------------------------------------------------------------------
(* The inductive invariant.                                                *)

(* The types of what the user sets on an item, of the server settings, of  *)
(* a row, and of a generator: the file saved last is that of a generator   *)
(* whose root folder was neither renamed nor moved.                        *)
Text == Word \cup {None}
ItemType ==
  [exclude: {"unset", "yes", "no"}, history: Text, newName: Text,
   newDestination: Dirs \cup {None}, newDescription: Text]
EncryptionType ==
  [enabled: BOOLEAN, certs: {"none", "some", "all"}, unsecure: BOOLEAN]
ConfigType ==
  [folder: Text, about: Word, port: Text, void: BOOLEAN, lds: BOOLEAN,
   address: Text, login: BOOLEAN, user: Text, password: Text,
   encryption: EncryptionType]
RowType == [check: BOOLEAN, history: Text, enabled: BOOLEAN,
            offers: SUBSET Word]
GuiType == [folder: Word, about: Word, port: Word, user: Word,
            password: Word, void: BOOLEAN, login: BOOLEAN,
            encryption: BOOLEAN]
RootStays(its) == its[Root].newName = None /\ its[Root].newDestination = None
Generators ==
  {gen \in [items: [Items -> ItemType], config: ConfigType,
            settings: SUBSET Word] :
     RootStays(gen.items) /\ IsFiniteSet(gen.settings)}

EditorTypes ==
  /\ items \in [Items -> ItemType] /\ config \in ConfigType
  /\ names \in Seq(Word)
  /\ own \subseteq DOMAIN names /\ histories \subseteq DOMAIN names
  /\ rows \in [Items -> RowType] /\ gui \in GuiType /\ top \in Items
  /\ renamed \in BOOLEAN /\ forced \in BOOLEAN /\ skipped \in BOOLEAN

(* What the items, rows and the file say of histories is defined in the    *)
(* settings beside them.                                                   *)
HistoriesDefined ==
  /\ \A i \in Items : items[i].history \in Generator.settings \cup {None}
  /\ \A i \in Items : rows[i].offers \subseteq Generator.settings
  /\ file # None => HistoriesOf(file) \subseteq file.settings

(* A row offers what the row above it offers.                              *)
OffersNest ==
  \A i \in Items \ {Root} : rows[Parent(i)].offers \subseteq rows[i].offers

(* A row shows what is set on its item.                                    *)
ChecksShown ==
  \A i \in Items : i \in Vars \/ Children(i) # {} =>
    (rows[i].check <=> items[i].exclude = "yes")
HistoriesShown == \A i \in Items : items[i].history = rows[i].history

(* Below a row with a history every row has the same and is switched off.  *)
HistoriesHandedDown(rs) ==
  \A i \in Items \ {Root} : rs[Parent(i)].history # None =>
    rs[i].history = rs[Parent(i)].history /\ ~rs[i].enabled

(* The editor's inductive invariant.  What refers to histories is in step  *)
(* until a setting is renamed, and the items follow the rows until a row   *)
(* is set while it is switched off or a setting of a file is skipped.      *)
SavedByGenerator == file # None => \E gen \in Generators : file = MapFileOf(gen)
TypeIInv == EditorTypes /\ RootStays(items) /\ SavedByGenerator
Defined == ~renamed => HistoriesDefined
Shown == ~renamed /\ ~forced /\ ~skipped
           => HistoriesShown /\ HistoriesHandedDown(rows)
EditorIInv == TypeIInv /\ Defined /\ OffersNest /\ ChecksShown /\ Shown

-----------------------------------------------------------------------------
(* What is written and read.                                               *)

EntryType == [source: Seq(Word) \ {<<>>}, history: Text, description: Text,
              name: Text, destination: Dirs \cup {None}]

(* A saved entry never names the root folder.                              *)
LEMMA SourceTypes ==
  /\ \A d \in Dirs : FolderSource(d) \in Seq(Word) \ {<<>>}
  /\ \A v \in Vars : PvSource(v) \in Seq(Word) \ {<<>>}
<1>1. \A p \in Items : /\ p \in Seq(Word) /\ Stray(p) \in Seq(Word)
                       /\ Stray(p) # <<>> /\ (p \in Vars => p # Root)
  <2> SUFFICES ASSUME NEW p \in Items
               PROVE  /\ p \in Seq(Word) /\ Stray(p) \in Seq(Word)
                      /\ Stray(p) # <<>> /\ (p \in Vars => p # Root)
    OBVIOUS
  <2>0. "/root" \in Word
    BY DEF Word
  <2>1. p \in Seq(Word) /\ <<"/root">> \in Seq(Word) /\ Len(<<"/root">>) = 1
    BY <2>0, ParentOfItem
  <2>2. <<"/root">> \o p \in Seq(Word) /\ Len(<<"/root">> \o p) = 1 + Len(p)
        /\ Len(p) \in Nat
    BY <2>1, ConcatLookup
  <2>3. <<"/root">> \o p # <<>>
    BY <2>2
  <2> QED
    BY <2>1, <2>2, <2>3, TreeAssumption DEF Stray, Root
<1> QED
  BY <1>1 DEF FolderSource, PvSource, Items, Root

(* Types of the entries of a saved file.                                   *)
LEMMA EntryTypes ==
  ASSUME NEW its \in [Items -> ItemType], RootStays(its)
  PROVE  /\ FolderEntries(its) \subseteq EntryType
         /\ PvEntries(its) \subseteq EntryType
         /\ \A e \in Described(its) : e.description \in Text /\ e.folder # Root
<1>0. \A i \in Items : /\ its[i].history \in Text /\ its[i].newName \in Text
                       /\ its[i].newDestination \in Dirs \cup {None}
                       /\ its[i].newDescription \in Text
                       /\ OwnHistory(its, i) \in Text
  BY DEF ItemType, OwnHistory, Text
<1>1. ASSUME NEW d \in Dirs PROVE FolderEntry(its, d) \in EntryType
  <2>0. d \in Items /\ (d # Root => Parent(d) \in Dirs /\ Last(d) \in Word)
    BY ParentOfItem DEF Items
  <2> DEFINE e == FolderEntry(its, d)
  <2>1. e.source \in Seq(Word) \ {<<>>}
    BY SourceTypes DEF FolderEntry
  <2>2. e.history \in Text /\ e.description \in Text
    BY <1>0, <2>0 DEF FolderEntry, Text
  <2>3. e.name \in Text
    BY <1>0, <2>0 DEF FolderEntry, Text
  <2>4. e.destination \in Dirs \cup {None}
    BY <1>0, <2>0 DEF FolderEntry, RootStays, Given
  <2>5. e = [source |-> e.source, history |-> e.history,
             description |-> e.description, name |-> e.name,
             destination |-> e.destination]
    BY DEF FolderEntry
  <2> HIDE DEF e
  <2> QED
    BY <2>1, <2>2, <2>3, <2>4, <2>5 DEF EntryType, e
<1>2. ASSUME NEW v \in Vars PROVE PvEntry(its, v) \in EntryType
  <2>0. v \in Items /\ v # Root /\ Last(v) \in Word
    BY ParentOfItem, TreeAssumption DEF Items, Root
  <2> DEFINE e == PvEntry(its, v)
  <2>1. e.source \in Seq(Word) \ {<<>>}
    BY SourceTypes DEF PvEntry
  <2>2. e.history \in Text /\ e.description \in Text
    BY <1>0, <2>0 DEF PvEntry
  <2>3. e.name \in Text /\ e.destination \in Dirs \cup {None}
    BY <1>0, <2>0 DEF PvEntry, Text
  <2>5. e = [source |-> e.source, history |-> e.history,
             description |-> e.description, name |-> e.name,
             destination |-> e.destination]
    BY DEF PvEntry
  <2> HIDE DEF e
  <2> QED
    BY <2>1, <2>2, <2>3, <2>5 DEF EntryType, e
<1>3. ASSUME NEW e \in Described(its) PROVE e.description \in Text /\ e.folder # Root
  <2>1. PICK d \in Dirs : e = [folder |-> FolderSource(d),
                               description |-> its[d].newDescription]
    BY DEF Described
  <2> QED
    BY <1>0, <2>1, SourceTypes DEF Items, Root
<1> QED
  BY <1>1, <1>2, <1>3 DEF FolderEntries, PvEntries

(* The entry that is found for an item is one with the item as its source. *)
LEMMA EntryFound ==
  ASSUME NEW entries, NEW i
  PROVE  \/ EntryOf(entries, i) = None
         \/ EntryOf(entries, i) \in entries /\ EntryOf(entries, i).source = i
BY DEF EntryOf

(* Without such an entry none is found, and the only one is found.         *)
LEMMA EntryMissing ==
  ASSUME NEW entries, NEW i, \A e \in entries : e.source # i
  PROVE  EntryOf(entries, i) = None
BY DEF EntryOf

(* The only entry of a source is the one that is found.                    *)
LEMMA EntryUnique ==
  ASSUME NEW entries, NEW i, NEW e \in entries, e.source = i,
         \A o \in entries : o.source = i => o = e
  PROVE  EntryOf(entries, i) = e
BY DEF EntryOf

(* An entry of a file is something.                                        *)
LEMMA EntryIsSome == ASSUME NEW e \in EntryType PROVE e # None
<1>1. e \in [source: Seq(Word), history: Word \cup {None},
             description: Word \cup {None}, name: Word \cup {None},
             destination: Seq(Word) \cup {None}]
  <2>1. Dirs \subseteq Seq(Word)
    BY TreeAssumption
  <2> QED
    BY <2>1 DEF EntryType, Text
<1> QED
  BY <1>1, NoneAssumption

(* Reading an entry of a folder, a description, an entry of a variable and *)
(* an exclusion gives an item, whose history is the one it had or the      *)
(* entry's.                                                                *)
LEMMA ReadFolderType ==
  ASSUME NEW item \in ItemType, NEW d \in Dirs, NEW e, e = None \/ e \in EntryType
  PROVE  /\ ReadFolder(item, d, e) \in ItemType
         /\ ReadFolder(item, d, e).exclude = item.exclude
         /\ ReadFolder(item, d, e).history \in {item.history}
                 \cup (IF e = None THEN {} ELSE {e.history} \ {None})
<1>0. Root \in Dirs
  BY TreeAssumption DEF Root
<1>1. CASE e = None
  BY <1>1 DEF ReadFolder
<1>2. CASE e # None
  <2> e \in EntryType
    BY <1>2
  <2>1. /\ Or(e.history, item.history) \in Text /\ Or(e.name, item.newName) \in Text
        /\ item.newName \in Text
        /\ e.description \in Text /\ e.destination \in Dirs \cup {None}
        /\ Or(e.history, item.history) \in {item.history} \cup ({e.history} \ {None})
    BY DEF EntryType, ItemType, Or
  <2> DEFINE name == IF d # Root /\ e.name = Last(d) THEN item.newName
                                                    ELSE Or(e.name, item.newName)
             dest == IF e.destination \notin {None, Root, Parent(d)}
                       THEN e.destination ELSE Root
  <2>2. name \in Text /\ dest \in Dirs \cup {None}
    BY <1>0, <2>1
  <2>3. ReadFolder(item, d, e) \in
          {[item EXCEPT !.history = Or(e.history, item.history)],
           [item EXCEPT !.history = Or(e.history, item.history),
                        !.newDescription = e.description,
                        !.newName = name, !.newDestination = dest]}
    BY <1>2 DEF ReadFolder
  <2> HIDE DEF name, dest
  <2> QED
    BY <1>2, <2>1, <2>2, <2>3 DEF ItemType
<1> QED
  BY <1>1, <1>2

(* A description that is read changes nothing but the description.         *)
LEMMA ReadDescriptionType ==
  ASSUME NEW item \in ItemType, NEW d, NEW described,
         \A e \in described : e.description \in Text
  PROVE  /\ ReadDescription(item, d, described) \in ItemType
         /\ ReadDescription(item, d, described).exclude = item.exclude
         /\ ReadDescription(item, d, described).history = item.history
         /\ ReadDescription(item, d, described).newName = item.newName
         /\ ReadDescription(item, d, described).newDestination = item.newDestination
<1> DEFINE found == {e \in described : e.folder = d}
           e1 == CHOOSE e \in found : TRUE
<1>1. CASE found = {}
  BY <1>1 DEF ReadDescription
<1>2. CASE found # {}
  <2>1. e1 \in found
    BY <1>2
  <2>2. ReadDescription(item, d, described) =
          [item EXCEPT !.newDescription = e1.description]
    BY <1>2 DEF ReadDescription
  <2> HIDE DEF e1
  <2> QED
    BY <2>1, <2>2 DEF ItemType
<1> QED
  BY <1>1, <1>2

(* The entry of a variable leaves the mark as it is, and brings a history  *)
(* only if it has one.                                                     *)
LEMMA ReadPvType ==
  ASSUME NEW item \in ItemType, NEW v, NEW e, e = None \/ e \in EntryType
  PROVE  /\ ReadPv(item, v, e) \in ItemType
         /\ ReadPv(item, v, e).exclude = item.exclude
         /\ ReadPv(item, v, e).history \in {item.history}
                 \cup (IF e = None THEN {} ELSE {e.history} \ {None})
<1>0. Root \in Dirs
  BY TreeAssumption DEF Root
<1>1. CASE e = None
  BY <1>1 DEF ReadPv
<1>2. CASE e # None
  <2> e \in EntryType
    BY <1>2
  <2>1. /\ Or(e.history, item.history) \in Text
        /\ e.description \in Text /\ e.name \in Text
        /\ e.destination \in Dirs \cup {None}
        /\ Or(e.history, item.history) \in {item.history} \cup ({e.history} \ {None})
    BY DEF EntryType, ItemType, Or
  <2> DEFINE toRoot == e.destination = None /\ e.name = Last(v)
             name == IF toRoot THEN None ELSE e.name
             dest == IF toRoot THEN Root ELSE e.destination
  <2>2. name \in Text /\ dest \in Dirs \cup {None}
    BY <1>0, <2>1 DEF Text
  <2>3. ReadPv(item, v, e) =
           [item EXCEPT !.history = Or(e.history, item.history),
                        !.newDescription = e.description,
                        !.newName = name, !.newDestination = dest]
    BY <1>2 DEF ReadPv
  <2> HIDE DEF name, dest, toRoot
  <2> QED
    BY <1>2, <2>1, <2>2, <2>3 DEF ItemType
<1> QED
  BY <1>1, <1>2

(* An exclusion that is read can only set the mark.                        *)
LEMMA ReadExcludeType ==
  ASSUME NEW item \in ItemType, NEW i, NEW k, NEW excludes
  PROVE  /\ ReadExclude(item, i, k, excludes) \in ItemType
         /\ ReadExclude(item, i, k, excludes).history = item.history
         /\ ReadExclude(item, i, k, excludes).newName = item.newName
         /\ ReadExclude(item, i, k, excludes).newDestination = item.newDestination
         /\ ReadExclude(item, i, k, excludes).newDescription = item.newDescription
         /\ ReadExclude(item, i, k, excludes).exclude \in {"yes", item.exclude}
BY DEF ReadExclude, ItemType

(* An item that is reset keeps its exclusion and history only.             *)
LEMMA ResetItem ==
  ASSUME NEW its \in [Items -> ItemType], NEW i \in Items
  PROVE  /\ Reset(its)[i] \in ItemType
         /\ Reset(its)[i].exclude = its[i].exclude
         /\ Reset(its)[i].history = its[i].history
         /\ Reset(its)[i].newName = None
         /\ Reset(its)[i].newDestination = None
         /\ Reset(its)[i].newDescription = None
<1>1. Reset(its)[i] = [its[i] EXCEPT !.newName = None, !.newDestination = None,
                                     !.newDescription = None]
  BY DEF Reset
<1> QED
  BY <1>1 DEF ItemType, Text

(* The entry read for an item is an entry of the file.                     *)
LEMMA EntryRead ==
  ASSUME NEW gen \in Generators, NEW i
  PROVE  /\ LET e == EntryOf(FolderEntries(gen.items), i)
            IN  e = None \/ (e \in EntryType /\ e \in FolderEntries(gen.items)
                                             /\ e.source = i)
         /\ LET e == EntryOf(PvEntries(gen.items), i)
            IN  e = None \/ (e \in EntryType /\ e \in PvEntries(gen.items)
                                             /\ e.source = i)
<1>1. gen.items \in [Items -> ItemType] /\ RootStays(gen.items)
  BY DEF Generators
<1> QED
  BY <1>1, EntryFound, EntryTypes

(* Reading a saved file gives items of the tree, leaves the root where it  *)
(* is, and adds no history that the file does not give.                    *)
LEMMA ReadItemsType ==
  ASSUME NEW its \in [Items -> ItemType], NEW gen \in Generators, NEW f,
         f = MapFileOf(gen)
  PROVE  /\ ReadItems(its, f) \in [Items -> ItemType]
         /\ RootStays(ReadItems(its, f))
         /\ \A i \in Items : ReadItems(its, f)[i].history
                               \in {its[i].history} \cup HistoriesOf(f)
<1>0. /\ f.folders = FolderEntries(gen.items) /\ f.described = Described(gen.items)
      /\ f.pvs = PvEntries(gen.items)
      /\ gen.items \in [Items -> ItemType] /\ RootStays(gen.items)
  BY DEF MapFileOf, Generators
<1>1. ASSUME NEW i \in Items
      PROVE  /\ ReadItem(Reset(its), i, f) \in ItemType
             /\ ReadItem(Reset(its), i, f).history \in {its[i].history} \cup HistoriesOf(f)
             /\ i = Root => /\ ReadItem(Reset(its), i, f).newName = None
                            /\ ReadItem(Reset(its), i, f).newDestination = None
  <2> DEFINE item == Reset(its)[i]
  <2>0. item \in ItemType /\ item.history = its[i].history
        /\ item.newName = None /\ item.newDestination = None
    BY ResetItem
  <2>1. CASE i \in Dirs
    <3> DEFINE e == EntryOf(f.folders, i)
               a == ReadFolder(item, i, e)
               b == ReadDescription(a, i, f.described)
               c == ReadExclude(b, i, "folder", f.excludes)
    <3>1. e = None \/ (e \in EntryType /\ e \in f.folders /\ e.source = i)
      BY <1>0, EntryRead
    <3>2. /\ a \in ItemType
          /\ a.history \in {item.history} \cup (IF e = None THEN {} ELSE {e.history} \ {None})
      BY <2>0, <2>1, <3>1, ReadFolderType
    <3>3. \A o \in f.described : o.description \in Text
      BY <1>0, EntryTypes
    <3>4. i = Root => e = None
      BY <3>1 DEF EntryType, Root
    <3>5. i = Root => a = item
      BY <3>4 DEF ReadFolder
    <3>6. ReadItem(Reset(its), i, f) = c
      BY <2>1 DEF ReadItem
    <3> HIDE DEF a, e, item
    <3>7. b \in ItemType /\ b.history = a.history
          /\ b.newName = a.newName /\ b.newDestination = a.newDestination
      BY <3>2, <3>3, ReadDescriptionType
    <3> HIDE DEF b
    <3>8. c \in ItemType /\ c.history = b.history
          /\ c.newName = b.newName /\ c.newDestination = b.newDestination
      BY <3>7, ReadExcludeType
    <3> HIDE DEF c
    <3>9. a.history \in {its[i].history} \cup HistoriesOf(f)
      BY <2>0, <3>1, <3>2 DEF HistoriesOf
    <3> QED
      BY <2>0, <3>5, <3>6, <3>7, <3>8, <3>9
  <2>2. CASE i \notin Dirs
    <3> DEFINE e == EntryOf(f.pvs, i)
               a == ReadPv(item, i, e)
               c == ReadExclude(a, i, "variable", f.excludes)
    <3>1. e = None \/ (e \in EntryType /\ e \in f.pvs /\ e.source = i)
      BY <1>0, EntryRead
    <3>2. /\ a \in ItemType
          /\ a.history \in {item.history} \cup (IF e = None THEN {} ELSE {e.history} \ {None})
      BY <2>0, <2>2, <3>1, ReadPvType
    <3>3. ReadItem(Reset(its), i, f) = c /\ i # Root
      BY <2>2, TreeAssumption DEF ReadItem, Root
    <3> HIDE DEF a, e, item
    <3>4. c \in ItemType /\ c.history = a.history
      BY <3>2, ReadExcludeType
    <3> HIDE DEF c
    <3>5. a.history \in {its[i].history} \cup HistoriesOf(f)
      BY <2>0, <3>1, <3>2 DEF HistoriesOf
    <3> QED
      BY <3>3, <3>4, <3>5
  <2> QED
    BY <2>1, <2>2
<1>2. \A i \in Items : ReadItems(its, f)[i] = ReadItem(Reset(its), i, f)
  BY DEF ReadItems
<1>3. Root \in Items
  BY TreeAssumption DEF Items, Root
<1>4. ReadItems(its, f) \in [Items -> ItemType]
  BY <1>1 DEF ReadItems
<1> QED
  BY <1>1, <1>2, <1>3, <1>4 DEF RootStays

-----------------------------------------------------------------------------
(* Types.                                                                  *)

(* The elements of a finite set, each once, in some order.                 *)
LEMMA SetToSeqLists ==
  ASSUME NEW T, NEW S, S \subseteq T, IsFiniteSet(S)
  PROVE  /\ SetToSeq(S) \in Seq(T) /\ Len(SetToSeq(S)) \in Nat
         /\ {SetToSeq(S)[k] : k \in 1..Len(SetToSeq(S))} = S
         /\ \A j, k \in 1..Len(SetToSeq(S)) : SetToSeq(S)[j] = SetToSeq(S)[k] => j = k
<1> DEFINE n == Cardinality(S)
           q == SetToSeq(S)
<1>1. n \in Nat /\ ExistsBijection(1..n, S)
  BY FS_CardinalityType
<1>2. PICK g : g \in Injection(1..n, S)
  BY <1>1 DEF ExistsBijection, Bijection
<1>3. q \in Injection(1..n, S)
  <2>1. \E h \in [1..n -> S] : IsInjective(h)
    BY <1>2 DEF Injection
  <2>2. q = CHOOSE h \in [1..n -> S] : IsInjective(h)
    BY DEF SetToSeq
  <2> QED
    BY <2>1, <2>2 DEF Injection
<1>4. Cardinality(1..n) = n
  BY <1>1, FS_Interval
<1>5. q \in Surjection(1..n, S)
  BY <1>3, <1>4, FS_Injection
<1> HIDE DEF n, q
<1>6. q \in [1..n -> S] /\ \A x \in S : \E k \in 1..n : q[k] = x
  BY <1>5 DEF Surjection
<1>7. q \in Seq(T) /\ Len(q) = n
  BY <1>1, <1>6
<1>8. \A j, k \in 1..n : q[j] = q[k] => j = k
  BY <1>3 DEF Injection, IsInjective
<1> QED
  BY <1>1, <1>6, <1>7, <1>8 DEF q

(* The names of the settings of the generator.                             *)
SettingsOf(ns, ids) == {ns[s] : s \in ids}

(* They are finitely many names.                                           *)
LEMMA SettingsAreWords ==
  ASSUME NEW ns \in Seq(Word), NEW ids, ids \subseteq DOMAIN ns
  PROVE  SettingsOf(ns, ids) \subseteq Word /\ IsFiniteSet(SettingsOf(ns, ids))
<1>1. SettingsOf(ns, ids) \subseteq Range(ns)
  BY DEF SettingsOf, Range
<1> QED
  BY <1>1, RangeIsFinite, FS_Subset

(* Adding a setting and loading a file add to the list of names.           *)
LEMMA AddedSettings ==
  ASSUME NEW ns \in Seq(Word), NEW ids, ids \subseteq DOMAIN ns, NEW more \in Seq(Word)
  PROVE  /\ ns \o more \in Seq(Word)
         /\ ids \cup (Len(ns) + 1)..Len(ns \o more) \subseteq DOMAIN (ns \o more)
         /\ DOMAIN ns \subseteq DOMAIN (ns \o more)
         /\ SettingsOf(ns \o more, ids \cup (Len(ns) + 1)..Len(ns \o more))
              = SettingsOf(ns, ids) \cup {more[k] : k \in 1..Len(more)}
         /\ \A s \in DOMAIN ns : (ns \o more)[s] = ns[s]
<1> DEFINE all == ns \o more
           new == (Len(ns) + 1)..Len(all)
<1>1. /\ all \in Seq(Word) /\ Len(all) = Len(ns) + Len(more)
      /\ Len(ns) \in Nat /\ Len(more) \in Nat
      /\ \A k \in 1..Len(ns) : all[k] = ns[k]
      /\ \A k \in 1..Len(more) : all[Len(ns) + k] = more[k]
  BY ConcatLookup
<1>2. DOMAIN ns = 1..Len(ns) /\ DOMAIN all = 1..Len(all)
  BY <1>1
<1> HIDE DEF all
<1>3. ids \cup new \subseteq DOMAIN all /\ DOMAIN ns \subseteq DOMAIN all
  BY <1>1, <1>2
<1>4. {all[s] : s \in ids} = {ns[s] : s \in ids}
  BY <1>1, <1>2
<1>5. {all[s] : s \in new} = {more[k] : k \in 1..Len(more)}
  <2>1. ASSUME NEW k \in 1..Len(more)
        PROVE  Len(ns) + k \in new /\ all[Len(ns) + k] = more[k]
    BY <1>1
  <2>2. ASSUME NEW s \in new
        PROVE  s - Len(ns) \in 1..Len(more) /\ all[s] = more[s - Len(ns)]
    <3>1. s - Len(ns) \in 1..Len(more) /\ s = Len(ns) + (s - Len(ns))
      BY <1>1
    <3> QED
      BY <1>1, <3>1
  <2> HIDE DEF new
  <2>3. {all[s] : s \in new} \subseteq {more[k] : k \in 1..Len(more)}
    BY <2>2
  <2>4. {more[k] : k \in 1..Len(more)} \subseteq {all[s] : s \in new}
    BY <2>1
  <2> QED
    BY <2>3, <2>4
<1>6. SettingsOf(all, ids \cup new) = {all[s] : s \in ids} \cup {all[s] : s \in new}
  BY DEF SettingsOf
<1> QED
  BY <1>1, <1>2, <1>3, <1>4, <1>5, <1>6 DEF SettingsOf, all

(* What the generator holds is of the right kind.                          *)
LEMMA GeneratorType ==
  ASSUME EditorTypes, RootStays(items)
  PROVE  Generator \in Generators /\ Generator.settings = SettingsOf(names, own)
<1>1. SettingsOf(names, own) \subseteq Word /\ IsFiniteSet(SettingsOf(names, own))
  BY SettingsAreWords DEF EditorTypes
<1>2. Generator = [items |-> items, config |-> config,
                   settings |-> SettingsOf(names, own)]
  BY DEF Generator, SettingsOf
<1> QED
  BY <1>1, <1>2 DEF Generators, EditorTypes

(* The rows of a filled tree.                                              *)
LEMMA FilledTreeType ==
  ASSUME NEW its \in [Items -> ItemType]
  PROVE  FilledTree(its) \in [Items -> RowType]
BY DEF FilledTree, FilledRow, RowType, ItemType, Text

(* A row that takes a history and an item that stores what its row shows.  *)
LEMMA RowTypes ==
  ASSUME NEW its \in [Items -> ItemType], NEW rs \in [Items -> RowType]
  PROVE  /\ \A i : \A name \in Text : SetHistory(rs, i, name) \in [Items -> RowType]
         /\ \A new \in [Items -> RowType] :
              /\ StoreHistory(its, rs, new) \in [Items -> ItemType]
              /\ \A i \in Items :
                   LET item == StoreHistory(its, rs, new)[i] IN
                   /\ item.exclude = its[i].exclude
                   /\ item.newName = its[i].newName
                   /\ item.newDestination = its[i].newDestination
                   /\ item.newDescription = its[i].newDescription
                   /\ item.history = IF new[i].history # rs[i].history
                                       THEN new[i].history ELSE its[i].history
<1>2. ASSUME NEW i, NEW name \in Text
      PROVE  SetHistory(rs, i, name) \in [Items -> RowType]
  <2> DEFINE hit == Reached(i, {j \in Items : /\ rs[j].history # name
                                             /\ Offered(rs, j, name)})
  <2>1. ASSUME NEW j \in Items, NEW h \in Text, NEW en \in BOOLEAN
        PROVE  [rs[j] EXCEPT !.history = h, !.enabled = en] \in RowType
    BY DEF RowType
  <2>2. ASSUME NEW j \in Items
        PROVE  /\ (IF j \in hit THEN name ELSE rs[j].history) \in Text
               /\ (IF j # i /\ j \in Below(i) /\ Parent(j) \in hit
                     THEN name = None ELSE rs[j].enabled) \in BOOLEAN
    <3> HIDE DEF hit
    <3>1. rs[j].history \in Text /\ rs[j].enabled \in BOOLEAN
      BY DEF RowType
    <3> QED
      BY <3>1, Zenon
  <2> DEFINE row(j) ==
               [rs[j] EXCEPT
                  !.history = IF j \in hit THEN name ELSE rs[j].history,
                  !.enabled = IF j # i /\ j \in Below(i) /\ Parent(j) \in hit
                                THEN name = None ELSE rs[j].enabled]
  <2>3. SetHistory(rs, i, name) = [j \in Items |-> row(j)]
    BY Zenon DEF SetHistory
  <2>4. \A j \in Items : row(j) \in RowType
    <3> HIDE DEF hit
    <3> QED
      BY <2>1, <2>2, Zenon
  <2> HIDE DEF row, hit
  <2> QED
    BY <2>3, <2>4
<1>3. ASSUME NEW new \in [Items -> RowType], NEW i \in Items
      PROVE  LET item == StoreHistory(its, rs, new)[i] IN
             /\ item \in ItemType
             /\ item.exclude = its[i].exclude
             /\ item.newName = its[i].newName
             /\ item.newDestination = its[i].newDestination
             /\ item.newDescription = its[i].newDescription
             /\ item.history = IF new[i].history # rs[i].history
                                 THEN new[i].history ELSE its[i].history
  <2>1. StoreHistory(its, rs, new)[i] =
          IF new[i].history # rs[i].history
            THEN [its[i] EXCEPT !.history = new[i].history] ELSE its[i]
    BY DEF StoreHistory
  <2> QED
    BY <2>1 DEF ItemType, RowType
<1>4. \A new \in [Items -> RowType] : StoreHistory(its, rs, new) \in [Items -> ItemType]
  BY <1>3 DEF StoreHistory
<1> QED
  BY <1>2, <1>3, <1>4

(* Reading the server settings.                                            *)
LEMMA ReadConfigType ==
  ASSUME NEW c \in ConfigType, NEW d \in ConfigType
  PROVE  ReadConfig(c, CreateConfig(d)) \in ConfigType
<1> DEFINE f == CreateConfig(d)
           r == ReadConfig(c, f)
<1>0. /\ \A t \in Text : Attribute(t) \in Text
      /\ \A t, u \in Text : Or(t, u) \in Text
      /\ None \in Text
  BY DEF Attribute, Or, Text
<1>1. /\ f.folder \in Text /\ f.about \in Word /\ f.port \in Text
      /\ f.void \in BOOLEAN /\ f.lds \in Text
      /\ (f.login # None => f.login[1] \in Text /\ f.login[2] \in Text)
      /\ (f.security # None => f.security \in EncryptionType)
  <2>1. /\ d.folder \in Text /\ d.about \in Word /\ d.port \in Text
        /\ d.void \in BOOLEAN /\ d.address \in Text
        /\ d.user \in Text /\ d.password \in Text /\ d.encryption \in EncryptionType
    BY DEF ConfigType
  <2> QED
    BY <1>0, <2>1 DEF CreateConfig
<1>2. /\ c.folder \in Text /\ c.about \in Word /\ c.port \in Text
      /\ c.void \in BOOLEAN /\ c.lds \in BOOLEAN /\ c.address \in Text
      /\ c.encryption \in EncryptionType
  BY DEF ConfigType
<1> HIDE DEF f
<1>3. /\ r.folder \in Text /\ r.about \in Word /\ r.port \in Text
      /\ r.void \in BOOLEAN /\ r.lds \in BOOLEAN /\ r.address \in Text
      /\ r.login \in BOOLEAN /\ r.user \in Text /\ r.password \in Text
  BY <1>0, <1>1, <1>2 DEF ReadConfig
<1>4. r.encryption \in EncryptionType
  BY <1>1, <1>2 DEF ReadConfig, EncryptionType, FreshEncryption
<1>5. r = [folder |-> r.folder, about |-> r.about, port |-> r.port,
           void |-> r.void, lds |-> r.lds, address |-> r.address,
           login |-> r.login, user |-> r.user, password |-> r.password,
           encryption |-> r.encryption]
  BY DEF ReadConfig
<1> HIDE DEF r
<1>6. r \in ConfigType
  BY <1>3, <1>4, <1>5 DEF ConfigType
<1> QED
  BY <1>6 DEF r, f

(* What loading the file does.                                             *)
Loads(f, offers, its) ==
  /\ its = ReadItems(items, f)
  /\ config' = ReadConfig(config, f.config)
  /\ offers \subseteq Generator.settings \cup f.settings
  /\ skipped' = (skipped \/ offers # Generator.settings \cup f.settings)
  /\ rows' = LoadedRows(its, offers)
  /\ items' = StoreHistory(its, FilledTree(its), rows')

(* A load reads a file that some generator has written; afterwards the     *)
(* settings are those it had and those of the file.                        *)
LEMMA LoadFacts ==
  ASSUME TypeIInv, LoadMapFile
  PROVE  /\ \E gen \in Generators : file = MapFileOf(gen)
         /\ \E offers : Loads(file, offers, ReadItems(items, file))
         /\ names' \in Seq(Word) /\ own' \subseteq DOMAIN names'
         /\ histories' \subseteq DOMAIN names'
         /\ SettingsOf(names', own') = Generator.settings \cup file.settings
<1>1. PICK gen \in Generators : file = MapFileOf(gen)
  BY DEF LoadMapFile, TypeIInv, SavedByGenerator
<1> DEFINE read == ParseMapFile(Generator, file)
           new == SetToSeq(read.settings \ Generator.settings)
           objects == names \o new
           all == own \cup (Len(names) + 1)..Len(objects)
           offers == read.settings \ {names[s] : s \in histories}
<1>2. /\ names' = objects /\ own' = all
      /\ histories' = histories \cup
           {s \in all : /\ objects[s] \in offers
                        /\ \A t \in all : objects[t] = objects[s] => s <= t}
      /\ config' = read.config
      /\ skipped' = (skipped \/ offers # read.settings)
      /\ rows' = LoadedRows(read.items, offers)
      /\ items' = StoreHistory(read.items, FilledTree(read.items), rows')
  BY DEF LoadMapFile
<1>3. /\ read.settings = Generator.settings \cup file.settings
      /\ read.items = ReadItems(items, file)
      /\ read.config = ReadConfig(config, file.config)
  BY DEF ParseMapFile, Generator
<1>4. /\ Generator.settings = SettingsOf(names, own)
      /\ Generator.settings \subseteq Word
      /\ file.settings \subseteq Word /\ IsFiniteSet(file.settings)
  <2>1. Generator \in Generators /\ Generator.settings = SettingsOf(names, own)
    BY GeneratorType DEF TypeIInv
  <2>2. file.settings = gen.settings
    BY <1>1 DEF MapFileOf
  <2>3. \A g \in Generators : g.settings \subseteq Word /\ IsFiniteSet(g.settings)
    BY DEF Generators
  <2> QED
    BY <1>1, <2>1, <2>2, <2>3
<1>5. /\ new \in Seq(Word)
      /\ {new[k] : k \in 1..Len(new)} = read.settings \ Generator.settings
  <2>1. read.settings \ Generator.settings \subseteq file.settings
    BY <1>3
  <2>2. IsFiniteSet(read.settings \ Generator.settings)
    BY <1>4, <2>1, FS_Subset
  <2>3. read.settings \ Generator.settings \subseteq Word
    BY <1>4, <2>1
  <2> HIDE DEF read
  <2> QED
    BY <2>2, <2>3, SetToSeqLists
<1> HIDE DEF new, read
<1>6. /\ objects \in Seq(Word) /\ all \subseteq DOMAIN objects
      /\ DOMAIN names \subseteq DOMAIN objects
      /\ SettingsOf(objects, all) = SettingsOf(names, own)
                                      \cup {new[k] : k \in 1..Len(new)}
  BY <1>5, AddedSettings DEF TypeIInv, EditorTypes
<1>7. SettingsOf(names', own') = Generator.settings \cup file.settings
  <2> HIDE DEF objects, all
  <2> QED
    BY <1>2, <1>3, <1>4, <1>5, <1>6
<1>8. histories' \subseteq DOMAIN names'
  <2> HIDE DEF objects
  <2> QED
    BY <1>2, <1>6 DEF TypeIInv, EditorTypes
<1>9. offers \subseteq read.settings
  OBVIOUS
<1>10. Loads(file, offers, ReadItems(items, file))
  <2> HIDE DEF offers
  <2> QED
    BY <1>2, <1>3, <1>9 DEF Loads
<1> QED
  BY <1>1, <1>2, <1>6, <1>7, <1>8, <1>10

(* Types of what is loaded.                                                *)
LEMMA LoadedTypes ==
  ASSUME TypeIInv, LoadMapFile
  PROVE  /\ ReadItems(items, file) \in [Items -> ItemType]
         /\ RootStays(ReadItems(items, file))
         /\ \A i \in Items : ReadItems(items, file)[i].history
                               \in {items[i].history} \cup HistoriesOf(file)
         /\ rows' \in [Items -> RowType] /\ items' \in [Items -> ItemType]
         /\ config' \in ConfigType
<1>1. PICK gen \in Generators : file = MapFileOf(gen)
  BY LoadFacts
<1>2. PICK offers : Loads(file, offers, ReadItems(items, file))
  BY LoadFacts
<1>3. items \in [Items -> ItemType] /\ config \in ConfigType
  BY DEF TypeIInv, EditorTypes
<1> DEFINE its == ReadItems(items, file)
<1>4. /\ its \in [Items -> ItemType] /\ RootStays(its)
      /\ \A i \in Items : its[i].history \in {items[i].history} \cup HistoriesOf(file)
  BY <1>1, <1>3, ReadItemsType
<1>5. offers \subseteq Word
  <2>1. Generator.settings \subseteq Word /\ gen.settings \subseteq Word
    BY GeneratorType DEF TypeIInv, Generators
  <2> QED
    BY <1>1, <1>2, <2>1 DEF Loads, MapFileOf
<1> HIDE DEF its
<1>6. LoadedRows(its, offers) \in [Items -> RowType]
  <2>1. \A i \in Items : LoadedHistory(its, offers, i) \in Text
    BY <1>5 DEF LoadedHistory, Text
  <2>2. ASSUME NEW i \in Items
        PROVE  [check |-> its[i].exclude = "yes",
                history |-> LoadedHistory(its, offers, i),
                enabled |-> i = Root \/ LoadedHistory(its, offers, Parent(i)) = None,
                offers |-> offers] \in RowType
    BY <1>5, <2>1 DEF RowType
  <2> QED
    BY <2>2 DEF LoadedRows
<1>7. rows' \in [Items -> RowType]
  BY <1>2, <1>6 DEF Loads, its
<1>8. items' \in [Items -> ItemType]
  <2>1. items' = StoreHistory(its, FilledTree(its), rows')
    BY <1>2 DEF Loads, its
  <2>2. FilledTree(its) \in [Items -> RowType]
    BY <1>4, FilledTreeType
  <2>3. \A rs \in [Items -> RowType], new \in [Items -> RowType] :
           StoreHistory(its, rs, new) \in [Items -> ItemType]
    BY <1>4, RowTypes
  <2> QED
    BY <1>7, <2>1, <2>2, <2>3
<1>9. config' \in ConfigType
  <2>1. config' = ReadConfig(config, CreateConfig(gen.config)) /\ gen.config \in ConfigType
    BY <1>1, <1>2 DEF Loads, MapFileOf, Generators
  <2> QED
    BY <1>3, <2>1, ReadConfigType
<1> QED
  BY <1>4, <1>7, <1>8, <1>9 DEF its


-----------------------------------------------------------------------------
(* The steps, sorted by what they leave alone.                             *)

(* A cell of a row is edited.                                              *)
EditStep ==
  /\ \E i \in Items, item \in ItemType :
       /\ items' = [items EXCEPT ![i] = item]
       /\ item.exclude = items[i].exclude /\ item.history = items[i].history
       /\ i = Root => item.newName = None /\ item.newDestination = None
  /\ UNCHANGED <<config, own, names, histories, rows, gui, top, file, renamed,
                 forced, skipped>>

(* A server setting is changed.                                            *)
SettingsStep ==
  /\ config' \in ConfigType /\ gui' \in GuiType
  /\ UNCHANGED <<items, own, names, histories, rows, top, file, renamed,
                 forced, skipped>>

(* Another XML file is opened, or the program started again.               *)
FreshStep ==
  /\ items' = Fresh.items /\ config' = Fresh.config /\ own' = {}
  /\ rows' = FilledTree(Fresh.items) /\ top' = Root
  /\ forced' = FALSE /\ skipped' = FALSE
  /\ names' \in Seq(Word) /\ histories' \subseteq DOMAIN names'
  /\ gui' \in GuiType
  /\ UNCHANGED <<file, renamed>>

(* Editing a cell.                                                         *)
LEMMA EditSteps ==
  ASSUME EditorTypes, RootStays(items), NEW i \in Items,
         (i # Root /\ (Rename(i) \/ Move(i) \/ MoveBack(i))) \/ Describe(i)
  PROVE  EditStep
<1>1. items \in [Items -> ItemType] /\ items[i] \in ItemType
  BY DEF EditorTypes
<1>2. ASSUME NEW item \in ItemType, items' = [items EXCEPT ![i] = item],
             item.exclude = items[i].exclude, item.history = items[i].history,
             i = Root => item.newName = None /\ item.newDestination = None,
             UNCHANGED <<config, own, names, histories, rows, gui, top, file,
                         renamed, forced, skipped>>
      PROVE  EditStep
  BY <1>2 DEF EditStep
<1>3. CASE i # Root /\ Rename(i)
  <2>1. PICK name \in Names \cup {"", None} : EditItem(i, "newName", name)
    BY <1>3 DEF Rename
  <2>2. name \in Text
    BY TextsAssumption DEF Text, Word
  <2>3. items' = [items EXCEPT ![i] = [items[i] EXCEPT !.newName = name]]
    BY <1>1, <2>1 DEF EditItem
  <2>4. [items[i] EXCEPT !.newName = name] \in ItemType
    BY <1>1, <2>2 DEF ItemType
  <2> QED
    BY <1>1, <1>2, <1>3, <2>1, <2>3, <2>4 DEF EditItem, ItemType
<1>4. CASE i # Root /\ Move(i)
  <2>1. PICK d \in Dirs : EditItem(i, "newDestination", d)
    BY <1>4 DEF Move
  <2>3. items' = [items EXCEPT ![i] = [items[i] EXCEPT !.newDestination = d]]
    BY <1>1, <2>1 DEF EditItem
  <2>4. [items[i] EXCEPT !.newDestination = d] \in ItemType
    BY <1>1 DEF ItemType
  <2> QED
    BY <1>1, <1>2, <1>4, <2>1, <2>3, <2>4 DEF EditItem, ItemType
<1>5. CASE i # Root /\ MoveBack(i)
  <2>1. EditItem(i, "newDestination", None)
    BY <1>5 DEF MoveBack
  <2>3. items' = [items EXCEPT ![i] = [items[i] EXCEPT !.newDestination = None]]
    BY <1>1, <2>1 DEF EditItem
  <2>4. [items[i] EXCEPT !.newDestination = None] \in ItemType
    BY <1>1 DEF ItemType
  <2> QED
    BY <1>1, <1>2, <1>5, <2>1, <2>3, <2>4 DEF EditItem, ItemType
<1>6. CASE Describe(i)
  <2>1. PICK text \in Texts \cup {None} : EditItem(i, "newDescription", text)
    BY <1>6 DEF Describe
  <2>2. text \in Text
    BY TextsAssumption DEF Text
  <2>3. items' = [items EXCEPT ![i] = [items[i] EXCEPT !.newDescription = text]]
    BY <1>1, <2>1 DEF EditItem
  <2>4. [items[i] EXCEPT !.newDescription = text] \in ItemType
    BY <1>1, <2>2 DEF ItemType
  <2>5. /\ [items[i] EXCEPT !.newDescription = text].newName = items[i].newName
        /\ [items[i] EXCEPT !.newDescription = text].newDestination
             = items[i].newDestination
        /\ [items[i] EXCEPT !.newDescription = text].exclude = items[i].exclude
        /\ [items[i] EXCEPT !.newDescription = text].history = items[i].history
    BY <1>1 DEF ItemType
  <2> QED
    BY <1>2, <2>1, <2>3, <2>4, <2>5 DEF EditItem, RootStays
<1> QED
  BY <1>3, <1>4, <1>5, <1>6

(* The text fields copied into the server settings and filled from them.   *)
LEMMA FieldTypes ==
  ASSUME EditorTypes, NEW g \in GuiType, NEW c \in ConfigType
  PROVE  Copied(g) \in ConfigType /\ FillConfig(c) \in GuiType
<1>1. config \in ConfigType /\ gui \in GuiType
  BY DEF EditorTypes
<1>2. Copied(g) = [folder |-> g.folder, about |-> g.about, port |-> g.port,
                   void |-> g.void, lds |-> config.lds,
                   address |-> config.address, login |-> config.login,
                   user |-> g.user, password |-> g.password,
                   encryption |-> config.encryption]
  BY <1>1 DEF Copied, ConfigType, TextFields
<1>3. FillConfig(c) =
        [folder |-> Or(c.folder, gui.folder), about |-> Or(c.about, gui.about),
         port |-> Or(c.port, gui.port), user |-> Or(c.user, gui.user),
         password |-> Or(c.password, gui.password),
         void |-> Or(c.void, gui.void), login |-> c.login,
         encryption |-> c.encryption.enabled]
  BY <1>1 DEF FillConfig, GuiType
<1>4. /\ g.folder \in Word /\ g.about \in Word /\ g.port \in Word
      /\ g.user \in Word /\ g.password \in Word /\ g.void \in BOOLEAN
      /\ gui.folder \in Word /\ gui.about \in Word /\ gui.port \in Word
      /\ gui.user \in Word /\ gui.password \in Word /\ gui.void \in BOOLEAN
  BY <1>1 DEF GuiType
<1>5. /\ config.lds \in BOOLEAN /\ config.address \in Text
      /\ config.login \in BOOLEAN /\ config.encryption \in EncryptionType
      /\ c.folder \in Text /\ c.about \in Word /\ c.port \in Text
      /\ c.user \in Text /\ c.password \in Text /\ c.void \in BOOLEAN
      /\ c.login \in BOOLEAN /\ c.encryption.enabled \in BOOLEAN
  BY <1>1 DEF ConfigType, EncryptionType
<1>6. \A t \in Text, w \in Word : Or(t, w) \in Word
  BY DEF Or, Text
<1>7. Or(c.void, gui.void) \in BOOLEAN
  BY <1>4, <1>5 DEF Or
<1>8. Copied(g) \in ConfigType
  BY <1>2, <1>4, <1>5 DEF ConfigType, Text
<1>9. FillConfig(c) \in GuiType
  BY <1>3, <1>4, <1>5, <1>6, <1>7 DEF GuiType, Text
<1> QED
  BY <1>8, <1>9

(* Changing a server setting.                                              *)
LEMMA SettingsSteps ==
  ASSUME EditorTypes,
         \/ \E field \in TextFields \ {"void"}, text \in Texts \cup {""} :
              ~(field = "port" /\ text = "") /\ EditText(field, text)
         \/ \E on \in BOOLEAN : EditText("void", on)
         \/ EnableLogin \/ EnableEncryption
         \/ \E certs \in {"some", "all"}, unsecure \in BOOLEAN :
              ConfigureEncryption(certs, unsecure)
         \/ \E register \in BOOLEAN, address \in Texts :
              ConfigureLds(register, address)
  PROVE  SettingsStep
<1>1. config \in ConfigType /\ gui \in GuiType
      /\ config.encryption \in EncryptionType /\ gui.encryption \in BOOLEAN
  BY DEF EditorTypes, ConfigType, GuiType
<1>2. \A text \in Texts \cup {""} : text \in Word
  BY TextsAssumption DEF Word
<1>3. ASSUME NEW field \in TextFields \ {"void"}, NEW text \in Texts \cup {""},
             EditText(field, text)
      PROVE  SettingsStep
  <2>1. text \in Word
    BY <1>2
  <2>2. [gui EXCEPT ![field] = text] \in GuiType
    BY <1>1, <2>1 DEF GuiType, TextFields
  <2> QED
    BY <1>1, <1>3, <2>2, FieldTypes DEF EditText, SettingsStep
<1>4. ASSUME NEW on \in BOOLEAN, EditText("void", on) PROVE SettingsStep
  <2>1. [gui EXCEPT !["void"] = on] \in GuiType
    BY <1>1 DEF GuiType
  <2> QED
    BY <1>1, <1>4, <2>1, FieldTypes DEF EditText, SettingsStep
<1>5. CASE EnableLogin
  <2>1. /\ [gui EXCEPT !.login = ~@] \in GuiType
        /\ [config EXCEPT !.login = ~gui.login] \in ConfigType
    BY <1>1 DEF GuiType, ConfigType
  <2> QED
    BY <1>5, <2>1 DEF EnableLogin, SetConfig, SettingsStep
<1>6. ASSUME NEW e \in EncryptionType
      PROVE  [config EXCEPT !.encryption = e] \in ConfigType
  BY <1>1 DEF ConfigType
<1>7. CASE EnableEncryption
  <2>1. /\ [gui EXCEPT !.encryption = ~@] \in GuiType
        /\ [config.encryption EXCEPT !.enabled = ~gui.encryption] \in EncryptionType
    BY <1>1 DEF GuiType, EncryptionType
  <2>2. [config EXCEPT !.encryption.enabled = ~gui.encryption]
          = [config EXCEPT !.encryption =
               [config.encryption EXCEPT !.enabled = ~gui.encryption]]
    BY <1>1 DEF ConfigType
  <2>3. [config EXCEPT !.encryption.enabled = ~gui.encryption] \in ConfigType
    BY <1>6, <2>1, <2>2
  <2> QED
    BY <1>7, <2>1, <2>3 DEF EnableEncryption, SetConfig, SettingsStep
<1>8. ASSUME NEW certs \in {"some", "all"}, NEW unsecure \in BOOLEAN,
             ConfigureEncryption(certs, unsecure)
      PROVE  SettingsStep
  <2> DEFINE e == [config.encryption EXCEPT !.certs = certs, !.unsecure = unsecure]
             c == [config EXCEPT !.encryption.certs = certs,
                                 !.encryption.unsecure = unsecure]
  <2>1. e \in EncryptionType
    BY <1>1 DEF EncryptionType
  <2>2. c = [config EXCEPT !.encryption = e]
    BY <1>1 DEF ConfigType, EncryptionType
  <2>3. c \in ConfigType
    BY <1>6, <2>1, <2>2
  <2> HIDE DEF e
  <2> QED
    BY <1>1, <1>8, <2>3 DEF ConfigureEncryption, SetConfig, SettingsStep
<1>9. ASSUME NEW register \in BOOLEAN, NEW address \in Texts,
             ConfigureLds(register, address)
      PROVE  SettingsStep
  <2>1. address \in Text
    BY <1>2 DEF Text
  <2>2. [config EXCEPT !.lds = register, !.address = address] \in ConfigType
    BY <1>1, <2>1 DEF ConfigType
  <2> QED
    BY <1>1, <1>9, <2>2 DEF ConfigureLds, SetConfig, SettingsStep
<1> QED
  BY <1>3, <1>4, <1>5, <1>7, <1>8, <1>9

(* A fresh generator is one of the right kind.                             *)
LEMMA FreshTypes ==
  /\ Fresh \in Generators /\ Fresh.items \in [Items -> ItemType]
  /\ Fresh.config \in ConfigType /\ FreshGui \in GuiType
  /\ Root \in Dirs /\ Root \in Items /\ FilledTree(Fresh.items) \in [Items -> RowType]
<1>1. "" \in Word /\ "default" \in Word
  BY DEF Word
<1>2. FreshItem \in ItemType
  BY DEF FreshItem, ItemType, Text
<1>3. FreshConfig \in ConfigType
  BY <1>1 DEF FreshConfig, ConfigType, Text, FreshEncryption, EncryptionType
<1>4. Root \in Dirs /\ Root \in Items
  BY TreeAssumption DEF Root, Items
<1>5. Fresh.items \in [Items -> ItemType] /\ RootStays(Fresh.items)
      /\ Fresh.config \in ConfigType /\ Fresh.settings = {}
  BY <1>2, <1>3, <1>4 DEF Fresh, RootStays, FreshItem
<1>6. Fresh = [items |-> Fresh.items, config |-> Fresh.config,
               settings |-> Fresh.settings]
  BY DEF Fresh
<1>7. Fresh \in Generators
  BY <1>5, <1>6, FS_EmptySet DEF Generators
<1>8. FreshGui \in GuiType
  BY <1>1 DEF FreshGui, GuiType
<1> QED
  BY <1>4, <1>5, <1>7, <1>8, FilledTreeType

(* Beginning anew.                                                         *)
LEMMA FreshSteps ==
  ASSUME EditorTypes, OpenFile \/ Restart
  PROVE  FreshStep
<1>1. gui \in GuiType /\ names \in Seq(Word) /\ histories \subseteq DOMAIN names
  BY DEF EditorTypes
<1>2. CASE OpenFile
  BY <1>1, <1>2 DEF OpenFile, FreshStep
<1>3. CASE Restart
  <2>1. <<>> \in Seq(Word) /\ {} \subseteq DOMAIN <<>>
    OBVIOUS
  <2> QED
    BY <1>3, <2>1, FreshTypes DEF Restart, FreshStep
<1> QED
  BY <1>2, <1>3

(* The steps of the editor.                                                *)
StepCases ==
  \/ \E i \in Items : ToggleExclude(i)
  \/ \E i \in Items, name \in Text : ChooseHistory(i, name)
  \/ \E s \in DOMAIN names : UseForInputs(s)
  \/ \E name \in Word : AddSetting(name)
  \/ \E s \in DOMAIN names, name \in Word : RenameSetting(s, name)
  \/ \E i \in Items : Scroll(i)
  \/ EditStep \/ SettingsStep \/ SaveFile \/ FreshStep \/ LoadMapFile
  \/ UNCHANGED state

(* Every step is one of these.                                             *)
LEMMA EditorSteps ==
  ASSUME EditorTypes, RootStays(items), [Next]_vars
  PROVE  StepCases
<1>1. SettingNames \subseteq Word /\ Names \subseteq Word
  BY TextsAssumption DEF SettingNames
<1>2. ASSUME NEW i \in Items, NEW name \in SettingNames \cup {None},
             ChooseHistory(i, name)
      PROVE  StepCases
  BY <1>1, <1>2 DEF StepCases, Text
<1>3. ASSUME NEW name \in SettingNames, AddSetting(name) PROVE StepCases
  BY <1>1, <1>3 DEF StepCases
<1>4. ASSUME NEW s \in DOMAIN names, NEW name \in Names, RenameSetting(s, name)
      PROVE  StepCases
  BY <1>1, <1>4 DEF StepCases
<1>5. ASSUME NEW i \in Items,
             (i # Root /\ (Rename(i) \/ Move(i) \/ MoveBack(i))) \/ Describe(i)
      PROVE  StepCases
  BY <1>5, EditSteps DEF StepCases
<1>6. SettingsStep \/ OpenFile \/ Restart \/ UNCHANGED vars => StepCases
  BY FreshSteps DEF StepCases, vars
<1> QED
  BY <1>2, <1>3, <1>4, <1>5, <1>6, SettingsSteps DEF Next, StepCases

-----------------------------------------------------------------------------
(* Types.                                                                  *)

(* A row's own mark and those below it.                                    *)
LEMMA ToggledTypes ==
  ASSUME EditorTypes, NEW i \in Items, ToggleExclude(i)
  PROVE  /\ rows' \in [Items -> RowType] /\ items' \in [Items -> ItemType]
         /\ \A j \in Items :
              /\ items'[j].history = items[j].history
              /\ items'[j].newName = items[j].newName
              /\ items'[j].newDestination = items[j].newDestination
              /\ rows'[j].history = rows[j].history
              /\ rows'[j].enabled = rows[j].enabled
              /\ rows'[j].offers = rows[j].offers
              /\ j \in Vars \/ Children(j) # {} =>
                   \/ rows'[j] = rows[j] /\ items'[j] = items[j]
                   \/ rows'[j].check <=> items'[j].exclude = "yes"
<1> DEFINE checked == ~rows[i].check
           hit == Reached(i, {j \in Items : rows[j].check # checked})
<1>1. /\ rows' = [j \in Items |-> IF j \in hit
                                    THEN [rows[j] EXCEPT !.check = checked]
                                    ELSE rows[j]]
      /\ items' = [j \in Items |->
                     IF j \in hit /\ (j \in Vars \/ Children(j) # {})
                       THEN [items[j] EXCEPT !.exclude =
                                               IF checked THEN "yes" ELSE "no"]
                       ELSE items[j]]
  BY Zenon DEF ToggleExclude
<1>2. /\ rows \in [Items -> RowType] /\ items \in [Items -> ItemType]
      /\ checked \in BOOLEAN
  BY DEF EditorTypes
<1> HIDE DEF checked, hit
<1>3. ASSUME NEW j \in Items
      PROVE  /\ [rows[j] EXCEPT !.check = checked] \in RowType
             /\ [rows[j] EXCEPT !.check = checked].check = checked
             /\ [rows[j] EXCEPT !.check = checked].history = rows[j].history
             /\ [rows[j] EXCEPT !.check = checked].enabled = rows[j].enabled
             /\ [rows[j] EXCEPT !.check = checked].offers = rows[j].offers
             /\ rows[j] \in RowType
  BY <1>2 DEF RowType
<1>4. ASSUME NEW j \in Items, NEW x \in {"unset", "yes", "no"}
      PROVE  /\ [items[j] EXCEPT !.exclude = x] \in ItemType
             /\ [items[j] EXCEPT !.exclude = x].exclude = x
             /\ [items[j] EXCEPT !.exclude = x].history = items[j].history
             /\ [items[j] EXCEPT !.exclude = x].newName = items[j].newName
             /\ [items[j] EXCEPT !.exclude = x].newDestination
                  = items[j].newDestination
             /\ items[j] \in ItemType
  BY <1>2 DEF ItemType
<1> DEFINE x == IF checked THEN "yes" ELSE "no"
<1>5. x \in {"unset", "yes", "no"} /\ (checked <=> x = "yes")
  BY <1>2
<1>6. /\ \A j \in hit \cap Items : rows'[j] = [rows[j] EXCEPT !.check = checked]
      /\ \A j \in Items \ hit : rows'[j] = rows[j]
      /\ \A j \in Items : j \in hit /\ (j \in Vars \/ Children(j) # {})
                          => items'[j] = [items[j] EXCEPT !.exclude = x]
      /\ \A j \in Items : ~(j \in hit /\ (j \in Vars \/ Children(j) # {}))
                          => items'[j] = items[j]
  BY <1>1
<1>7. rows' \in [Items -> RowType]
  BY <1>1, <1>3
<1> HIDE DEF x
<1>8. ASSUME NEW j \in Items PROVE items'[j] \in ItemType
  <2>1. [items[j] EXCEPT !.exclude = x] \in ItemType /\ items[j] \in ItemType
    BY <1>4, <1>5
  <2> QED
    BY <1>6, <2>1
<1>9. items' \in [Items -> ItemType]
  BY <1>1, <1>8
<1>10. ASSUME NEW j \in Items
       PROVE  /\ items'[j].history = items[j].history
              /\ items'[j].newName = items[j].newName
              /\ items'[j].newDestination = items[j].newDestination
              /\ rows'[j].history = rows[j].history
              /\ rows'[j].enabled = rows[j].enabled
              /\ rows'[j].offers = rows[j].offers
              /\ j \in Vars \/ Children(j) # {} =>
                   \/ rows'[j] = rows[j] /\ items'[j] = items[j]
                   \/ rows'[j].check <=> items'[j].exclude = "yes"
  <2>1. /\ items'[j].history = items[j].history
        /\ items'[j].newName = items[j].newName
        /\ items'[j].newDestination = items[j].newDestination
    <3>1. /\ [items[j] EXCEPT !.exclude = x].history = items[j].history
          /\ [items[j] EXCEPT !.exclude = x].newName = items[j].newName
          /\ [items[j] EXCEPT !.exclude = x].newDestination
               = items[j].newDestination
      BY <1>4, <1>5
    <3>2. items'[j] \in {items[j], [items[j] EXCEPT !.exclude = x]}
      BY <1>6
    <3> QED
      BY <3>1, <3>2
  <2>2. /\ rows'[j].history = rows[j].history
        /\ rows'[j].enabled = rows[j].enabled
        /\ rows'[j].offers = rows[j].offers
    <3>1. /\ [rows[j] EXCEPT !.check = checked].history = rows[j].history
          /\ [rows[j] EXCEPT !.check = checked].enabled = rows[j].enabled
          /\ [rows[j] EXCEPT !.check = checked].offers = rows[j].offers
      BY <1>3
    <3>2. rows'[j] \in {rows[j], [rows[j] EXCEPT !.check = checked]}
      BY <1>6
    <3> QED
      BY <3>1, <3>2
  <2>3. CASE j \in hit
    <3>1. rows'[j].check = checked
      BY <1>3, <1>6, <2>3
    <3>2. j \in Vars \/ Children(j) # {} => items'[j].exclude = x
      <4>1. [items[j] EXCEPT !.exclude = x].exclude = x
        BY <1>4, <1>5
      <4>2. j \in Vars \/ Children(j) # {}
            => items'[j] = [items[j] EXCEPT !.exclude = x]
        BY <1>6, <2>3
      <4> QED
        BY <4>1, <4>2
    <3> QED
      BY <1>5, <2>1, <2>2, <3>1, <3>2
  <2>4. CASE j \notin hit
    BY <1>6, <2>1, <2>2, <2>4
  <2> QED
    BY <2>3, <2>4
<1> QED
  BY <1>7, <1>9, <1>10

(* A row that takes another history.                                       *)
LEMMA ChosenTypes ==
  ASSUME EditorTypes, NEW i \in Items, NEW name \in Text, ChooseHistory(i, name)
  PROVE  rows' \in [Items -> RowType] /\ items' \in [Items -> ItemType]
<1>1. rows' = SetHistory(rows, i, name) /\ items' = StoreHistory(items, rows, rows')
  BY DEF ChooseHistory
<1>2. rows \in [Items -> RowType] /\ items \in [Items -> ItemType]
  BY DEF EditorTypes
<1>3. rows' \in [Items -> RowType]
  BY <1>1, <1>2, RowTypes
<1> QED
  BY <1>1, <1>2, <1>3, RowTypes

(* The rows of the inputs.                                                 *)
LEMMA InputTypes ==
  ASSUME EditorTypes, NEW s \in DOMAIN names, UseForInputs(s)
  PROVE  rows' \in [Items -> RowType] /\ items' \in [Items -> ItemType]
<1> DEFINE name == names[s]
           hit == {v \in Inputs : IsPrefix(top, v) /\ Offered(rows, v, name)}
<1>1. /\ rows' = [i \in Items |->
                    IF i \in hit THEN [rows[i] EXCEPT !.history = name]
                                 ELSE rows[i]]
      /\ items' = StoreHistory(items, rows, rows')
  BY DEF UseForInputs
<1>2. rows \in [Items -> RowType] /\ items \in [Items -> ItemType]
      /\ name \in Text
  <2>1. names[s] \in Word
    BY DEF EditorTypes
  <2> QED
    BY <2>1 DEF EditorTypes, Text
<1> HIDE DEF name, hit
<1>3. \A i \in Items : [rows[i] EXCEPT !.history = name] \in RowType
  BY <1>2 DEF RowType
<1>4. rows' \in [Items -> RowType]
  BY <1>1, <1>2, <1>3
<1> QED
  BY <1>1, <1>2, <1>4, RowTypes

(* The rows that offer a new setting.                                      *)
LEMMA AddedTypes ==
  ASSUME EditorTypes, NEW name \in Word, AddSetting(name)
  PROVE  /\ rows' \in [Items -> RowType] /\ names' \in Seq(Word)
         /\ own' \subseteq DOMAIN names' /\ histories' \subseteq DOMAIN names'
         /\ SettingsOf(names', own') = SettingsOf(names, own) \cup {name}
         /\ \A i \in Items :
              /\ rows'[i].check = rows[i].check
              /\ rows'[i].history = rows[i].history
              /\ rows'[i].enabled = rows[i].enabled
              /\ rows'[i].offers = IF IsPrefix(top, i)
                                     THEN rows[i].offers \cup {name}
                                     ELSE rows[i].offers
<1>1. /\ names' = Append(names, name)
      /\ own' = own \cup {Len(names) + 1}
      /\ histories' = histories \cup {Len(names) + 1}
      /\ rows' = [i \in Items |->
                    IF IsPrefix(top, i)
                      THEN [rows[i] EXCEPT !.offers = @ \cup {name}] ELSE rows[i]]
  BY DEF AddSetting
<1>2. /\ rows \in [Items -> RowType] /\ names \in Seq(Word)
      /\ own \subseteq DOMAIN names /\ histories \subseteq DOMAIN names
  BY DEF EditorTypes
<1>3. \A i \in Items :
        /\ rows'[i].check = rows[i].check
        /\ rows'[i].history = rows[i].history
        /\ rows'[i].enabled = rows[i].enabled
        /\ rows'[i].offers = IF IsPrefix(top, i) THEN rows[i].offers \cup {name}
                                                 ELSE rows[i].offers
  BY <1>1, <1>2 DEF RowType
<1>4. rows' \in [Items -> RowType]
  <2>1. \A i \in Items : [rows[i] EXCEPT !.offers = @ \cup {name}] \in RowType
    BY <1>2 DEF RowType
  <2> QED
    BY <1>1, <1>2, <2>1
<1>5. /\ names' \in Seq(Word) /\ Len(names) \in Nat
      /\ DOMAIN names = 1..Len(names) /\ DOMAIN names' = 1..(Len(names) + 1)
      /\ names'[Len(names) + 1] = name
      /\ \A s \in DOMAIN names : names'[s] = names[s]
  BY <1>1, <1>2
<1>6. SettingsOf(names', own') = SettingsOf(names, own) \cup {name}
  BY <1>1, <1>2, <1>5 DEF SettingsOf
<1>7. own' \subseteq DOMAIN names' /\ histories' \subseteq DOMAIN names'
  BY <1>1, <1>2, <1>5
<1> QED
  BY <1>3, <1>4, <1>5, <1>6, <1>7

(* Types, and the file saved last, are kept.                               *)
LEMMA TypesInit == Init => TypeIInv
<1> SUFFICES ASSUME Init PROVE TypeIInv
  OBVIOUS
<1>1. EditorTypes
  <2>1. <<>> \in Seq(Word)
    OBVIOUS
  <2> QED
    BY <2>1, FreshTypes DEF Init, EditorTypes
<1>2. RootStays(items) /\ SavedByGenerator
  BY FreshTypes DEF Init, RootStays, Fresh, FreshItem, SavedByGenerator
<1> QED
  BY <1>1, <1>2 DEF TypeIInv

(* Every action keeps the types.                                           *)
LEMMA TypesNext == TypeIInv /\ [Next]_vars => TypeIInv'
<1> SUFFICES ASSUME TypeIInv, [Next]_vars PROVE TypeIInv'
  OBVIOUS
<1>0. EditorTypes /\ RootStays(items) /\ SavedByGenerator
      /\ Root \in Items /\ items \in [Items -> ItemType]
  BY FreshTypes DEF TypeIInv, EditorTypes
<1>1. ASSUME NEW i \in Items, ToggleExclude(i) PROVE TypeIInv'
  <2>1. rows' \in [Items -> RowType] /\ items' \in [Items -> ItemType]
        /\ items'[Root].newName = items[Root].newName
        /\ items'[Root].newDestination = items[Root].newDestination
    BY <1>0, <1>1, ToggledTypes
  <2>2. RootStays(items)'
    BY <1>0, <2>1 DEF RootStays
  <2> QED
    BY <1>0, <1>1, <2>1, <2>2
    DEF ToggleExclude, TypeIInv, EditorTypes, SavedByGenerator
<1>2. ASSUME NEW i \in Items, NEW name \in Text, ChooseHistory(i, name)
      PROVE  TypeIInv'
  <2>1. rows' \in [Items -> RowType] /\ items' \in [Items -> ItemType]
    BY <1>0, <1>2, ChosenTypes
  <2>2. RootStays(items)'
    BY <1>0, <1>2, <2>1, RowTypes DEF ChooseHistory, RootStays, EditorTypes
  <2> QED
    BY <1>0, <1>2, <2>1, <2>2
    DEF ChooseHistory, TypeIInv, EditorTypes, SavedByGenerator
<1>3. ASSUME NEW s \in DOMAIN names, UseForInputs(s) PROVE TypeIInv'
  <2>1. rows' \in [Items -> RowType] /\ items' \in [Items -> ItemType]
    BY <1>0, <1>3, InputTypes
  <2>2. items' = StoreHistory(items, rows, rows') /\ forced' \in BOOLEAN
        /\ UNCHANGED <<config, own, names, histories, gui, top, file, renamed, skipped>>
    BY <1>0, <1>3 DEF UseForInputs, EditorTypes
  <2>3. RootStays(items)'
    BY <1>0, <2>1, <2>2, RowTypes DEF RootStays, EditorTypes
  <2> QED
    BY <1>0, <2>1, <2>2, <2>3 DEF TypeIInv, EditorTypes, SavedByGenerator
<1>4. ASSUME NEW name \in Word, AddSetting(name) PROVE TypeIInv'
  <2>1. /\ rows' \in [Items -> RowType] /\ names' \in Seq(Word)
        /\ own' \subseteq DOMAIN names' /\ histories' \subseteq DOMAIN names'
    BY <1>0, <1>4, AddedTypes
  <2>2. UNCHANGED <<items, config, gui, top, file, renamed, forced, skipped>>
    BY <1>4 DEF AddSetting
  <2> QED
    BY <1>0, <2>1, <2>2 DEF TypeIInv, EditorTypes, RootStays, SavedByGenerator
<1>5. ASSUME NEW s \in DOMAIN names, NEW name \in Word, RenameSetting(s, name)
      PROVE  TypeIInv'
  <2>1. /\ names' = [names EXCEPT ![s] = name] /\ renamed' = TRUE
        /\ UNCHANGED <<items, config, own, histories, rows, gui, top, file,
                       forced, skipped>>
    BY <1>5 DEF RenameSetting
  <2>2. names' \in Seq(Word) /\ DOMAIN names' = DOMAIN names
    BY <1>0, <2>1 DEF EditorTypes
  <2> QED
    BY <1>0, <2>1, <2>2 DEF TypeIInv, EditorTypes, RootStays, SavedByGenerator
<1>6. ASSUME NEW i \in Items, Scroll(i) PROVE TypeIInv'
  BY <1>0, <1>6 DEF Scroll, TypeIInv, EditorTypes, RootStays, SavedByGenerator
<1>7. CASE EditStep
  <2>1. PICK i \in Items, item \in ItemType :
          /\ items' = [items EXCEPT ![i] = item]
          /\ i = Root => item.newName = None /\ item.newDestination = None
    BY <1>7 DEF EditStep
  <2>2. items' \in [Items -> ItemType] /\ RootStays(items)'
    BY <1>0, <2>1 DEF RootStays
  <2> QED
    BY <1>0, <1>7, <2>2 DEF EditStep, TypeIInv, EditorTypes, SavedByGenerator
<1>8. CASE SettingsStep
  BY <1>0, <1>8 DEF SettingsStep, TypeIInv, EditorTypes, RootStays, SavedByGenerator
<1>9. CASE SaveFile
  <2>1. Generator \in Generators /\ file' = MapFileOf(Generator)
    BY <1>0, <1>9, GeneratorType DEF SaveFile
  <2>2. SavedByGenerator'
    BY <2>1 DEF SavedByGenerator
  <2> QED
    BY <1>0, <1>9, <2>2 DEF SaveFile, TypeIInv, EditorTypes, RootStays
<1>10. CASE FreshStep
  <2>1. RootStays(Fresh.items)
    BY FreshTypes DEF Generators
  <2>2. EditorTypes'
    BY <1>0, <1>10, FreshTypes DEF FreshStep, EditorTypes
  <2> QED
    BY <1>0, <1>10, <2>1, <2>2 DEF FreshStep, TypeIInv, RootStays, SavedByGenerator
<1>11. CASE LoadMapFile
  <2>1. /\ names' \in Seq(Word) /\ own' \subseteq DOMAIN names'
        /\ histories' \subseteq DOMAIN names'
    BY <1>11, LoadFacts
  <2>2. /\ rows' \in [Items -> RowType] /\ items' \in [Items -> ItemType]
        /\ config' \in ConfigType
    BY <1>11, LoadedTypes
  <2>3. /\ top' = Root /\ gui' = FillConfig(config')
        /\ UNCHANGED <<file, renamed, forced>>
    BY <1>11 DEF LoadMapFile
  <2>4. gui' \in GuiType /\ skipped' \in BOOLEAN
    <3>1. PICK offers : Loads(file, offers, ReadItems(items, file))
      BY <1>11, LoadFacts
    <3>2. gui \in GuiType
      BY <1>0 DEF EditorTypes
    <3> QED
      BY <1>0, <2>2, <2>3, <3>1, <3>2, FieldTypes DEF Loads, EditorTypes
  <2>5. RootStays(items)'
    <3>1. PICK offers : Loads(file, offers, ReadItems(items, file))
      BY <1>11, LoadFacts
    <3> DEFINE its == ReadItems(items, file)
    <3>2. its \in [Items -> ItemType] /\ RootStays(its)
          /\ items' = StoreHistory(its, FilledTree(its), rows')
      BY <1>11, <3>1, LoadedTypes DEF Loads
    <3> HIDE DEF its
    <3>3. FilledTree(its) \in [Items -> RowType]
      BY <3>2, FilledTreeType
    <3> QED
      BY <1>0, <2>2, <3>2, <3>3, RowTypes DEF RootStays
  <2> QED
    BY <1>0, <2>1, <2>2, <2>3, <2>4, <2>5 DEF TypeIInv, EditorTypes, SavedByGenerator
<1>12. CASE UNCHANGED state
  BY <1>0, <1>12 DEF state, TypeIInv, EditorTypes, RootStays, SavedByGenerator
<1>13. StepCases
  BY <1>0, EditorSteps
<1> QED
  BY <1>1, <1>2, <1>3, <1>4, <1>5, <1>6, <1>7, <1>8, <1>9, <1>10, <1>11,
     <1>12, <1>13 DEF StepCases

(* What a row shows after a row takes a history.                           *)
Takes(rs, i, name) ==
  Reached(i, {j \in Items : rs[j].history # name /\ Offered(rs, j, name)})

(* A choice in one row reaches those rows, switches off what is below      *)
(* them, and changes nothing else (setCurrentText).                        *)
LEMMA RowAfterChoice ==
  ASSUME NEW rs \in [Items -> RowType], NEW i, NEW name, NEW j \in Items
  PROVE  LET row == SetHistory(rs, i, name)[j] IN
         /\ row.check = rs[j].check /\ row.offers = rs[j].offers
         /\ row.history = IF j \in Takes(rs, i, name) THEN name ELSE rs[j].history
         /\ row.enabled = IF /\ j # i /\ j \in Below(i)
                             /\ Parent(j) \in Takes(rs, i, name)
                            THEN name = None ELSE rs[j].enabled
<1> DEFINE hit == Takes(rs, i, name)
           h == IF j \in hit THEN name ELSE rs[j].history
           en == IF j # i /\ j \in Below(i) /\ Parent(j) \in hit
                   THEN name = None ELSE rs[j].enabled
<1>1. SetHistory(rs, i, name)[j] = [rs[j] EXCEPT !.history = h, !.enabled = en]
  BY Zenon DEF SetHistory, Takes
<1> HIDE DEF h, en
<1>2. LET row == [rs[j] EXCEPT !.history = h, !.enabled = en] IN
      /\ row.check = rs[j].check /\ row.offers = rs[j].offers
      /\ row.history = h /\ row.enabled = en
  BY DEF RowType
<1>3. LET row == SetHistory(rs, i, name)[j] IN
      /\ row.check = rs[j].check /\ row.offers = rs[j].offers
      /\ row.history = h /\ row.enabled = en
  BY <1>1, <1>2
<1> QED
  BY <1>3, Zenon DEF h, en

(* Every row that takes it offers it.                                      *)
LEMMA TakersOffer ==
  ASSUME NEW rs, NEW i \in Items, NEW name, Offered(rs, i, name),
         NEW j \in Takes(rs, i, name)
  PROVE  j \in Items /\ Offered(rs, j, name) /\ (j # i => j \in Below(i))
<1>1. ASSUME j # i PROVE j \in Items /\ Offered(rs, j, name) /\ j \in Below(i)
  <2>1. /\ j \in Below(i)
        /\ \A k \in Below(i) : IsPrefix(k, j) =>
             k \in {m \in Items : rs[m].history # name /\ Offered(rs, m, name)}
    BY <1>1 DEF Takes, Reached
  <2>2. j \in Seq(Word) /\ j \in Items
    BY <2>1, ParentOfItem DEF Below
  <2>3. IsPrefix(j, j)
    BY <2>2, PrefixByPlaces
  <2> QED
    BY <2>1, <2>2, <2>3
<1> QED
  BY <1>1

(* What an item and its row have after a choice.                           *)
LEMMA AfterChoice ==
  ASSUME EditorTypes, NEW i \in Items, NEW name \in Text, ChooseHistory(i, name),
         NEW j \in Items
  PROVE  /\ rows'[j].check = rows[j].check /\ rows'[j].offers = rows[j].offers
         /\ rows'[j].history = IF j \in Takes(rows, i, name) THEN name
                                                             ELSE rows[j].history
         /\ rows'[j].enabled = IF /\ j # i /\ j \in Below(i)
                                  /\ Parent(j) \in Takes(rows, i, name)
                                 THEN name = None ELSE rows[j].enabled
         /\ items'[j].exclude = items[j].exclude
         /\ items'[j].history = IF rows'[j].history # rows[j].history
                                  THEN rows'[j].history ELSE items[j].history
         /\ j \in Takes(rows, i, name) => Offered(rows, j, name)
<1>1. /\ rows' = SetHistory(rows, i, name) /\ items' = StoreHistory(items, rows, rows')
      /\ Offered(rows, i, name)
  BY DEF ChooseHistory
<1>2. rows \in [Items -> RowType] /\ items \in [Items -> ItemType]
      /\ rows' \in [Items -> RowType]
  BY ChosenTypes DEF EditorTypes
<1>3. /\ items'[j].exclude = items[j].exclude
      /\ items'[j].history = IF rows'[j].history # rows[j].history
                               THEN rows'[j].history ELSE items[j].history
  BY <1>1, <1>2, RowTypes
<1>4. j \in Takes(rows, i, name) => Offered(rows, j, name)
  BY <1>1, TakersOffer
<1>5. /\ rows'[j].check = rows[j].check /\ rows'[j].offers = rows[j].offers
      /\ rows'[j].history = IF j \in Takes(rows, i, name) THEN name
                                                          ELSE rows[j].history
      /\ rows'[j].enabled = IF /\ j # i /\ j \in Below(i)
                               /\ Parent(j) \in Takes(rows, i, name)
                              THEN name = None ELSE rows[j].enabled
  <2>1. LET row == SetHistory(rows, i, name)[j] IN
        /\ row.check = rows[j].check /\ row.offers = rows[j].offers
        /\ row.history = IF j \in Takes(rows, i, name) THEN name ELSE rows[j].history
        /\ row.enabled = IF /\ j # i /\ j \in Below(i)
                            /\ Parent(j) \in Takes(rows, i, name)
                           THEN name = None ELSE rows[j].enabled
    BY <1>2, RowAfterChoice
  <2>2. rows'[j] = SetHistory(rows, i, name)[j]
    BY <1>1
  <2> QED
    BY <2>1, <2>2, Zenon
<1> QED
  BY <1>3, <1>4, <1>5

(* The inputs that the switch for all inputs reaches.                      *)
Switched(s) == {v \in Inputs : IsPrefix(top, v) /\ Offered(rows, v, names[s])}

(* The switch for all inputs chooses the history in these rows and stores  *)
(* it with their items.                                                    *)
LEMMA AfterInputs ==
  ASSUME EditorTypes, NEW s \in DOMAIN names, UseForInputs(s), NEW j \in Items
  PROVE  /\ rows'[j].check = rows[j].check /\ rows'[j].offers = rows[j].offers
         /\ rows'[j].enabled = rows[j].enabled
         /\ rows'[j].history = IF j \in Switched(s) THEN names[s]
                                                    ELSE rows[j].history
         /\ items'[j].exclude = items[j].exclude
         /\ items'[j].history = IF rows'[j].history # rows[j].history
                                  THEN rows'[j].history ELSE items[j].history
         /\ ~forced' => ~forced /\ \A v \in Switched(s) :
                           rows[v].enabled \/ rows[v].history = names[s]
<1>1. /\ rows' = [i \in Items |->
                    IF i \in Switched(s) THEN [rows[i] EXCEPT !.history = names[s]]
                                         ELSE rows[i]]
      /\ items' = StoreHistory(items, rows, rows')
      /\ forced' = (forced \/ \E v \in Switched(s) : /\ ~rows[v].enabled
                                                    /\ rows[v].history # names[s])
  BY DEF UseForInputs, Switched
<1>2. rows \in [Items -> RowType] /\ items \in [Items -> ItemType]
      /\ rows' \in [Items -> RowType]
  BY InputTypes DEF EditorTypes
<1>3. /\ items'[j].exclude = items[j].exclude
      /\ items'[j].history = IF rows'[j].history # rows[j].history
                               THEN rows'[j].history ELSE items[j].history
  <2>1. items' = StoreHistory(items, rows, rows')
    BY <1>1
  <2> QED
    BY <1>2, <2>1, RowTypes
<1>4. LET row == [rows[j] EXCEPT !.history = names[s]] IN
      /\ row.check = rows[j].check /\ row.offers = rows[j].offers
      /\ row.enabled = rows[j].enabled /\ row.history = names[s]
  BY <1>2 DEF RowType
<1>5. /\ rows'[j].check = rows[j].check /\ rows'[j].offers = rows[j].offers
      /\ rows'[j].enabled = rows[j].enabled
      /\ rows'[j].history = IF j \in Switched(s) THEN names[s] ELSE rows[j].history
  <2>1. rows'[j] = IF j \in Switched(s) THEN [rows[j] EXCEPT !.history = names[s]]
                                        ELSE rows[j]
    BY <1>1
  <2> QED
    BY <1>4, <2>1
<1> QED
  BY <1>1, <1>3, <1>5

(* What an item and its row have after a file is loaded.                   *)
LoadShows(its, offers) ==
  /\ Loads(file, offers, its)
  /\ offers \subseteq SettingsOf(names', own')
  /\ \A j \in Items :
       /\ its[j].history \in {items[j].history} \cup HistoriesOf(file)
       /\ rows'[j].check <=> items'[j].exclude = "yes"
       /\ rows'[j].offers = offers
       /\ rows'[j].history = LoadedHistory(its, offers, j)
       /\ rows'[j].enabled <=>
            j = Root \/ LoadedHistory(its, offers, Parent(j)) = None
       /\ items'[j].history = IF rows'[j].history # None
                                THEN rows'[j].history ELSE its[j].history

(* A load leaves such rows and items.                                      *)
LEMMA AfterLoad ==
  ASSUME TypeIInv, LoadMapFile
  PROVE  \E offers : \E its \in [Items -> ItemType] : LoadShows(its, offers)
<1> DEFINE its == ReadItems(items, file)
<1>1. /\ its \in [Items -> ItemType]
      /\ \A i \in Items : its[i].history \in {items[i].history} \cup HistoriesOf(file)
      /\ rows' \in [Items -> RowType]
  BY LoadedTypes
<1>2. PICK offers : Loads(file, offers, its)
  BY LoadFacts
<1>3. SettingsOf(names', own') = Generator.settings \cup file.settings
  BY LoadFacts
<1> HIDE DEF its
<1>4. /\ rows' = LoadedRows(its, offers)
      /\ items' = StoreHistory(its, FilledTree(its), rows')
      /\ offers \subseteq SettingsOf(names', own')
  BY <1>2, <1>3 DEF Loads
<1>5. FilledTree(its) \in [Items -> RowType]
  BY <1>1, FilledTreeType
<1>6. ASSUME NEW j \in Items
      PROVE  /\ rows'[j].check <=> items'[j].exclude = "yes"
             /\ rows'[j].offers = offers
             /\ rows'[j].history = LoadedHistory(its, offers, j)
             /\ rows'[j].enabled <=>
                  j = Root \/ LoadedHistory(its, offers, Parent(j)) = None
             /\ items'[j].history = IF rows'[j].history # None
                                      THEN rows'[j].history ELSE its[j].history
  <2>1. rows'[j] = [check |-> its[j].exclude = "yes",
                    history |-> LoadedHistory(its, offers, j),
                    enabled |-> j = Root \/ LoadedHistory(its, offers, Parent(j)) = None,
                    offers |-> offers]
    BY <1>4 DEF LoadedRows
  <2>2. /\ items'[j].exclude = its[j].exclude
        /\ items'[j].history = IF rows'[j].history # FilledTree(its)[j].history
                                 THEN rows'[j].history ELSE its[j].history
    BY <1>1, <1>4, <1>5, RowTypes
  <2>3. FilledTree(its)[j].history = None
    BY DEF FilledTree, FilledRow
  <2>4. /\ rows'[j].check <=> its[j].exclude = "yes"
        /\ rows'[j].offers = offers
        /\ rows'[j].history = LoadedHistory(its, offers, j)
        /\ rows'[j].enabled <=>
             j = Root \/ LoadedHistory(its, offers, Parent(j)) = None
    <3> DEFINE check == its[j].exclude = "yes"
               en == j = Root \/ LoadedHistory(its, offers, Parent(j)) = None
    <3>1. rows'[j] = [check |-> check, history |-> LoadedHistory(its, offers, j),
                      enabled |-> en, offers |-> offers]
      BY <2>1
    <3> HIDE DEF check, en
    <3>2. /\ rows'[j].check = check /\ rows'[j].enabled = en
          /\ rows'[j].offers = offers
          /\ rows'[j].history = LoadedHistory(its, offers, j)
      BY <3>1
    <3> QED
      BY <3>2, Zenon DEF check, en
  <2> QED
    BY <2>2, <2>3, <2>4
<1>7. LoadShows(its, offers)
  BY <1>1, <1>2, <1>4, <1>6 DEF LoadShows
<1> QED
  BY <1>1, <1>7

-----------------------------------------------------------------------------
(* Every history has its setting.                                          *)

(* A file gives no history that the items have not.                        *)
LEMMA SavedHistories ==
  ASSUME NEW gen, NEW S, \A i \in Items : gen.items[i].history \in S \cup {None}
  PROVE  /\ HistoriesOf(MapFileOf(gen)) \subseteq S
         /\ MapFileOf(gen).settings = gen.settings
<1> DEFINE f == MapFileOf(gen)
<1>1. \A i \in Items : OwnHistory(gen.items, i) \in S \cup {None}
  BY DEF OwnHistory
<1>2. f.pvs = PvEntries(gen.items) /\ f.folders = FolderEntries(gen.items)
      /\ f.settings = gen.settings
  BY DEF MapFileOf
<1>3. \A e \in PvEntries(gen.items) : e.history \in S \cup {None}
  BY <1>1 DEF PvEntries, PvEntry, Items
<1>4. \A e \in FolderEntries(gen.items) : e.history \in S \cup {None}
  BY <1>1 DEF FolderEntries, FolderEntry, Items
<1> HIDE DEF f
<1>5. HistoriesOf(f) \subseteq S
  BY <1>2, <1>3, <1>4 DEF HistoriesOf
<1> QED
  BY <1>2, <1>5 DEF f

(* The settings of the generator, and what refers to them.                 *)
LEMMA DefinedInit == Init => Defined
<1> SUFFICES ASSUME Init PROVE HistoriesDefined
  BY DEF Defined
<1>1. \A i \in Items : items[i].history = None /\ rows[i].offers = {}
  BY DEF Init, Fresh, FreshItem, FilledTree, FilledRow
<1>2. file = None
  BY DEF Init
<1> QED
  BY <1>1, <1>2 DEF HistoriesDefined

(* Every action leaves a setting beside whatever refers to it.             *)
LEMMA DefinedNext == TypeIInv /\ Defined /\ [Next]_vars => Defined'
<1> SUFFICES ASSUME TypeIInv, Defined, [Next]_vars, ~renamed'
             PROVE  HistoriesDefined'
  BY DEF Defined
<1> DEFINE S == SettingsOf(names, own)
<1>0. EditorTypes /\ RootStays(items) /\ items \in [Items -> ItemType]
  BY DEF TypeIInv, EditorTypes
<1>1. Generator.settings = S /\ Generator'.settings = S' /\ Generator.items = items
  BY DEF Generator, SettingsOf
<1>2. ASSUME ~renamed
      PROVE  /\ \A i \in Items : items[i].history \in S \cup {None}
             /\ \A i \in Items : rows[i].offers \subseteq S
             /\ file # None => HistoriesOf(file) \subseteq file.settings
  BY <1>1, <1>2 DEF Defined, HistoriesDefined
<1>3. ASSUME \A i \in Items : items'[i].history \in S' \cup {None},
             \A i \in Items : rows'[i].offers \subseteq S',
             file' # None => HistoriesOf(file') \subseteq file'.settings
      PROVE  HistoriesDefined'
  BY <1>1, <1>3 DEF HistoriesDefined
<1>4. ASSUME UNCHANGED <<names, own, file, renamed>>,
             \A i \in Items : rows'[i].offers = rows[i].offers,
             \A i \in Items : items'[i].history \in {items[i].history, None}
                                                      \cup rows[i].offers
      PROVE  HistoriesDefined'
  <2>1. S' = S /\ ~renamed
    BY <1>4 DEF SettingsOf
  <2> HIDE DEF S
  <2> QED
    BY <1>2, <1>3, <1>4, <2>1
<1>5. ASSUME NEW i \in Items, ToggleExclude(i) PROVE HistoriesDefined'
  <2>2. \A j \in Items : /\ items'[j].history = items[j].history
                         /\ rows'[j].offers = rows[j].offers
    BY <1>0, <1>5, ToggledTypes
  <2>3. UNCHANGED <<names, own, file, renamed>>
    BY <1>5 DEF ToggleExclude
  <2> QED
    BY <1>4, <2>2, <2>3
<1>6. ASSUME NEW i \in Items, NEW name \in Text, ChooseHistory(i, name)
      PROVE  HistoriesDefined'
  <2>1. UNCHANGED <<names, own, file, renamed>>
    BY <1>6 DEF ChooseHistory
  <2>2. \A j \in Items : rows'[j].offers = rows[j].offers
    BY <1>0, <1>6, AfterChoice
  <2>3. \A j \in Items : items'[j].history \in {items[j].history, None}
                                                 \cup rows[j].offers
    BY <1>0, <1>6, AfterChoice DEF Offered
  <2> QED
    BY <1>4, <2>1, <2>2, <2>3
<1>7. ASSUME NEW s \in DOMAIN names, UseForInputs(s) PROVE HistoriesDefined'
  <2>1. UNCHANGED <<names, own, file, renamed>>
    BY <1>7 DEF UseForInputs
  <2>2. \A j \in Items : rows'[j].offers = rows[j].offers
    BY <1>0, <1>7, AfterInputs
  <2>3. \A j \in Items : items'[j].history \in {items[j].history, None}
                                                 \cup rows[j].offers
    BY <1>0, <1>7, AfterInputs DEF Offered, Switched
  <2> QED
    BY <1>4, <2>1, <2>2, <2>3
<1>8. ASSUME NEW name \in Word, AddSetting(name) PROVE HistoriesDefined'
  <2>1. S' = S \cup {name} /\ \A j \in Items : rows'[j].offers \subseteq
                                                  rows[j].offers \cup {name}
    BY <1>0, <1>8, AddedTypes
  <2>2. UNCHANGED <<items, file, renamed>>
    BY <1>8 DEF AddSetting
  <2> HIDE DEF S
  <2> QED
    BY <1>2, <1>3, <2>1, <2>2
<1>9. ASSUME NEW s \in DOMAIN names, NEW name \in Word, RenameSetting(s, name)
      PROVE  HistoriesDefined'
  BY <1>9 DEF RenameSetting
<1>10. ASSUME NEW i \in Items, Scroll(i) PROVE HistoriesDefined'
  BY <1>4, <1>10 DEF Scroll
<1>11. CASE EditStep
  <2>1. UNCHANGED <<rows, names, own, file, renamed>>
    BY <1>11 DEF EditStep
  <2>2. PICK i \in Items, item \in ItemType :
          items' = [items EXCEPT ![i] = item] /\ item.history = items[i].history
    BY <1>11 DEF EditStep
  <2>3. \A j \in Items : items'[j].history = items[j].history
    BY <1>0, <2>2
  <2> QED
    BY <1>4, <2>1, <2>3
<1>12. CASE SettingsStep
  BY <1>4, <1>12 DEF SettingsStep
<1>13. CASE SaveFile
  <2>1. file' = MapFileOf(Generator) /\ UNCHANGED <<items, rows, names, own, renamed>>
    BY <1>13 DEF SaveFile
  <2>2. HistoriesOf(file') \subseteq S /\ file'.settings = S
    BY <1>1, <1>2, <2>1, SavedHistories
  <2>3. S' = S
    BY <2>1 DEF SettingsOf
  <2> HIDE DEF S
  <2> QED
    BY <1>2, <1>3, <2>1, <2>2, <2>3
<1>14. CASE FreshStep
  <2>1. \A j \in Items : items'[j].history = None /\ rows'[j].offers = {}
    BY <1>14 DEF FreshStep, Fresh, FreshItem, FilledTree, FilledRow
  <2>2. UNCHANGED <<file, renamed>>
    BY <1>14 DEF FreshStep
  <2> QED
    BY <1>2, <1>3, <2>1, <2>2
<1>15. CASE LoadMapFile
  <2>1. UNCHANGED <<file, renamed>> /\ file # None
    BY <1>15 DEF LoadMapFile
  <2>2. S' = S \cup file.settings
    BY <1>1, <1>15, LoadFacts
  <2>3. PICK offers : \E its \in [Items -> ItemType] : LoadShows(its, offers)
    BY <1>15, AfterLoad
  <2>5. PICK its \in [Items -> ItemType] : LoadShows(its, offers)
    BY <2>3
  <2>6. \A j : LoadedHistory(its, offers, j) \in offers \cup {None}
    BY DEF LoadedHistory
  <2>7. offers \subseteq S' /\ \A j \in Items : rows'[j].offers = offers
    BY <2>5 DEF LoadShows
  <2>8. \A j \in Items : items'[j].history \in offers \cup {items[j].history}
                                                  \cup HistoriesOf(file)
    BY <2>5, <2>6 DEF LoadShows
  <2> HIDE DEF S
  <2>9. \A j \in Items : items'[j].history \in S' \cup {None}
    BY <1>2, <2>1, <2>2, <2>7, <2>8
  <2> QED
    BY <1>2, <1>3, <2>1, <2>7, <2>9
<1>16. CASE UNCHANGED state
  BY <1>4, <1>16 DEF state
<1>17. StepCases
  BY <1>0, EditorSteps
<1> QED
  BY <1>5, <1>6, <1>7, <1>8, <1>9, <1>10, <1>11, <1>12, <1>13, <1>14, <1>15,
     <1>16, <1>17 DEF StepCases

-----------------------------------------------------------------------------
(* Offers and marks.                                                       *)

(* At the start no row offers a setting.                                   *)
LEMMA NestInit == Init => OffersNest
<1> SUFFICES ASSUME Init, NEW i \in Items \ {Root}
             PROVE  rows[Parent(i)].offers \subseteq rows[i].offers
  BY DEF OffersNest
<1>1. Parent(i) \in Items
  BY ParentOfItem DEF Items
<1> QED
  BY <1>1 DEF Init, FilledTree, FilledRow

(* No action lets a row offer less than the row above it.                  *)
LEMMA NestNext == TypeIInv /\ OffersNest /\ [Next]_vars => OffersNest'
<1> SUFFICES ASSUME TypeIInv, OffersNest, [Next]_vars PROVE OffersNest'
  OBVIOUS
<1>0. EditorTypes /\ RootStays(items)
  BY DEF TypeIInv
<1>1. \A i \in Items \ {Root} : Parent(i) \in Items
  BY ParentOfItem DEF Items
<1>2. ASSUME \A i \in Items : rows'[i].offers = rows[i].offers
      PROVE  OffersNest'
  BY <1>1, <1>2 DEF OffersNest
<1>3. ASSUME NEW offers, \A i \in Items : rows'[i].offers = offers
      PROVE  OffersNest'
  BY <1>1, <1>3 DEF OffersNest
<1>4. ASSUME NEW i \in Items, ToggleExclude(i) PROVE OffersNest'
  BY <1>0, <1>2, <1>4, ToggledTypes
<1>5. ASSUME NEW i \in Items, NEW name \in Text, ChooseHistory(i, name)
      PROVE  OffersNest'
  <2>1. \A j \in Items : rows'[j].offers = rows[j].offers
    BY <1>0, <1>5, AfterChoice
  <2> QED
    BY <1>2, <2>1
<1>6. ASSUME NEW s \in DOMAIN names, UseForInputs(s) PROVE OffersNest'
  <2>1. \A j \in Items : rows'[j].offers = rows[j].offers
    BY <1>0, <1>6, AfterInputs
  <2> QED
    BY <1>2, <2>1
<1>7. ASSUME NEW name \in Word, AddSetting(name) PROVE OffersNest'
  <2> SUFFICES ASSUME NEW i \in Items \ {Root}
               PROVE  rows'[Parent(i)].offers \subseteq rows'[i].offers
    BY DEF OffersNest
  <2>1. \A j \in Items : rows'[j].offers = IF IsPrefix(top, j)
                                             THEN rows[j].offers \cup {name}
                                             ELSE rows[j].offers
    BY <1>0, <1>7, AddedTypes
  <2>2. top \in Seq(Word)
    BY <1>0, ParentOfItem DEF EditorTypes
  <2>3. IsPrefix(top, Parent(i)) => IsPrefix(top, i)
    BY <2>2, PrefixOfParent
  <2>4. rows[Parent(i)].offers \subseteq rows[i].offers
    BY DEF OffersNest
  <2> QED
    BY <1>1, <2>1, <2>3, <2>4
<1>8. ASSUME UNCHANGED rows PROVE OffersNest'
  BY <1>2, <1>8
<1>9. UNCHANGED state \/ EditStep \/ SettingsStep \/ SaveFile
      \/ (\E i \in Items : Scroll(i))
      \/ (\E s \in DOMAIN names, name \in Word : RenameSetting(s, name))
      => UNCHANGED rows
  BY DEF state, EditStep, SettingsStep, SaveFile, Scroll, RenameSetting
<1>10. CASE FreshStep
  BY <1>3, <1>10 DEF FreshStep, FilledTree, FilledRow
<1>11. CASE LoadMapFile
  <2>1. PICK offers : \E its \in [Items -> ItemType] : LoadShows(its, offers)
    BY <1>11, AfterLoad
  <2> QED
    BY <1>3, <2>1 DEF LoadShows
<1>12. StepCases
  BY <1>0, EditorSteps
<1> QED
  BY <1>4, <1>5, <1>6, <1>7, <1>8, <1>9, <1>10, <1>11, <1>12 DEF StepCases

(* At the start every box shows the mark of its item.                      *)
LEMMA ChecksInit == Init => ChecksShown
<1> SUFFICES ASSUME Init, NEW i \in Items PROVE rows[i].check <=> items[i].exclude = "yes"
  BY DEF ChecksShown
<1>1. items[i].exclude = "unset" /\ rows[i].check = (items[i].exclude = "yes")
  BY DEF Init, FilledTree, FilledRow, Fresh, FreshItem
<1> QED
  BY <1>1

(* Every action changes a box together with the mark of its item.          *)
LEMMA ChecksNext == TypeIInv /\ ChecksShown /\ [Next]_vars => ChecksShown'
<1> SUFFICES ASSUME TypeIInv, ChecksShown, [Next]_vars,
                    NEW i \in Items, i \in Vars \/ Children(i) # {}
             PROVE  rows'[i].check <=> items'[i].exclude = "yes"
  BY DEF ChecksShown
<1>0. EditorTypes /\ RootStays(items) /\ items \in [Items -> ItemType]
      /\ (rows[i].check <=> items[i].exclude = "yes")
  BY DEF TypeIInv, EditorTypes, ChecksShown
<1> DEFINE BoxTold == rows'[i].check <=> items'[i].exclude = "yes"
<1>1. ASSUME rows'[i].check = rows[i].check, items'[i].exclude = items[i].exclude
      PROVE  BoxTold
  BY <1>0, <1>1
<1>2. ASSUME NEW j \in Items, ToggleExclude(j) PROVE BoxTold
  <2>1. \/ rows'[i] = rows[i] /\ items'[i] = items[i]
        \/ rows'[i].check <=> items'[i].exclude = "yes"
    BY <1>0, <1>2, ToggledTypes
  <2> QED
    BY <1>1, <2>1
<1>3. ASSUME NEW j \in Items, NEW name \in Text, ChooseHistory(j, name) PROVE BoxTold
  BY <1>0, <1>1, <1>3, AfterChoice
<1>4. ASSUME NEW s \in DOMAIN names, UseForInputs(s) PROVE BoxTold
  BY <1>0, <1>1, <1>4, AfterInputs
<1>5. ASSUME NEW name \in Word, AddSetting(name) PROVE BoxTold
  <2>1. rows'[i].check = rows[i].check
    BY <1>0, <1>5, AddedTypes
  <2> QED
    BY <1>1, <1>5, <2>1 DEF AddSetting
<1>6. CASE EditStep
  <2>1. PICK j \in Items, item \in ItemType :
          items' = [items EXCEPT ![j] = item] /\ item.exclude = items[j].exclude
    BY <1>6 DEF EditStep
  <2>2. items'[i].exclude = items[i].exclude
    BY <1>0, <2>1
  <2> QED
    BY <1>1, <1>6, <2>2 DEF EditStep
<1>7. UNCHANGED state \/ SettingsStep \/ SaveFile
      \/ (\E j \in Items : Scroll(j))
      \/ (\E s \in DOMAIN names, name \in Word : RenameSetting(s, name))
      => UNCHANGED <<rows, items>>
  BY DEF state, SettingsStep, SaveFile, Scroll, RenameSetting
<1>8. UNCHANGED <<rows, items>> => BoxTold
  BY <1>1
<1>9. CASE FreshStep
  <2>1. items'[i].exclude = "unset" /\ rows'[i].check = ("unset" = "yes")
    BY <1>9 DEF FreshStep, FilledTree, FilledRow, Fresh, FreshItem
  <2> QED
    BY <2>1
<1>10. CASE LoadMapFile
  <2>1. PICK offers : \E its \in [Items -> ItemType] : LoadShows(its, offers)
    BY <1>10, AfterLoad
  <2> QED
    BY <2>1 DEF LoadShows
<1>11. StepCases
  BY <1>0, EditorSteps
<1> QED
  BY <1>2, <1>3, <1>4, <1>5, <1>6, <1>7, <1>8, <1>9, <1>10, <1>11 DEF StepCases

(* A folder with an item below it has children.                            *)
LEMMA HasChildren ==
  ASSUME NEW i \in Items, NEW d \in Seq(Word), IsPrefix(d, i), d # i
  PROVE  Children(d) # {}
<1> DEFINE n == Len(d) + 1
           p == SubSeq(i, 1, n)
<1>1. i \in Seq(Word) /\ Len(i) \in Nat /\ Len(d) \in Nat
  BY ParentOfItem
<1>2. Len(d) <= Len(i) /\ \A k \in 1..Len(d) : d[k] = i[k]
  BY <1>1, PrefixByPlaces
<1>3. Len(d) # Len(i)
  BY <1>1, <1>2, SeqEqual
<1>4. n \in Nat /\ n <= Len(i)
  BY <1>1, <1>2, <1>3
<1>5. p \in Seq(Word) /\ Len(p) = n /\ \A k \in 1..n : p[k] = i[k]
  BY <1>1, <1>4
<1> HIDE DEF p
<1>6. IsPrefix(p, i)
  BY <1>1, <1>4, <1>5, PrefixByPlaces
<1>7. p \in Items /\ p # Root
  <2>1. p # <<>>
    BY <1>1, <1>5
  <2> QED
    BY <1>5, <1>6, <2>1, AboveIsFolder DEF Root
<1>8. /\ Parent(p) \in Seq(Word) /\ Len(Parent(p)) = n - 1
      /\ \A k \in 1..(n - 1) : Parent(p)[k] = p[k]
  <2>1. Parent(p) \in Items
    BY <1>7, ParentOfItem DEF Items
  <2> QED
    BY <1>5, <1>7, <2>1, ParentOfItem
<1>9. Parent(p) = d
  <2>1. Len(Parent(p)) = Len(d) /\ \A k \in 1..Len(d) : Parent(p)[k] = d[k]
    BY <1>1, <1>2, <1>5, <1>8
  <2> QED
    BY <1>1, <1>8, <2>1, SeqEqual
<1> QED
  BY <1>7, <1>9 DEF Children

(* What the tree shows of exclusions is what is saved.                     *)
LEMMA ExclusionsFollow ==
  ASSUME EditorTypes, ChecksShown PROVE ExclusionsSavedAsShown
<1> SUFFICES ASSUME NEW v \in Vars
             PROVE  /\ Excluded(MapFileOf(Generator), v) =>
                         \E i \in Above(v) \cup {v} : rows[i].check
                    /\ /\ rows[v].check /\ ~rows[Root].check
                       /\ \A d \in Above(v) : items[d].exclude # "no"
                       => Excluded(MapFileOf(Generator), v)
  BY DEF ExclusionsSavedAsShown
<1>0. /\ items \in [Items -> ItemType] /\ rows \in [Items -> RowType]
      /\ v \in Items /\ v # Root /\ v \in Seq(Word) /\ Root \in Dirs /\ Root \in Items
  BY ParentOfItem, FreshTypes, TreeAssumption DEF EditorTypes, Items, Root
<1>1. MapFileOf(Generator).excludes = Excludes(items)
  BY DEF MapFileOf, Generator
<1>2. ASSUME NEW p \in Items, IsPrefix(p, v)
      PROVE  rows[p].check <=> items[p].exclude = "yes"
  <2>1. p \in Seq(Word)
    BY ParentOfItem
  <2>2. p # v => Children(p) # {}
    BY <1>0, <1>2, <2>1, HasChildren
  <2> QED
    BY <2>2 DEF ChecksShown
<1>3. ASSUME Excluded(MapFileOf(Generator), v)
      PROVE  \E i \in Above(v) \cup {v} : rows[i].check
  <2>1. PICK e \in Excludes(items) : IF e.kind = "folder" THEN IsPrefix(e.source, v)
                                                         ELSE e.source = v
    BY <1>1, <1>3 DEF Excluded
  <2>2. ASSUME NEW d \in Dirs, ExcludeWritten(items, d), IsPrefix(FolderSource(d), v)
        PROVE  d \in Above(v) /\ rows[d].check
    <3>1. d \in Items
      BY DEF Items
    <3>2. d # Root
      <4>1. ASSUME d = Root PROVE FALSE
        <5>1. FolderSource(d) = <<"/root">> \o <<>>
          BY <4>1 DEF FolderSource, Stray, Root
        <5>2. "/root" \in Word
          BY DEF Word
        <5>3. <<"/root">> \o <<>> = <<"/root">> /\ <<"/root">> \in Seq(Word)
          BY <5>2
        <5>4. <<"/root">> \in Items
          BY <1>0, <2>2, <5>1, <5>3, AboveIsFolder
        <5> QED
          BY <5>4, TreeAssumption DEF Items
      <4> QED
        BY <4>1
    <3>3. IsPrefix(d, v) /\ items[d].exclude = "yes"
      BY <2>2, <3>2 DEF FolderSource, ExcludeWritten
    <3>4. rows[d].check
      BY <1>2, <3>1, <3>3
    <3> QED
      BY <3>3, <3>4 DEF Above
  <2>3. ASSUME NEW w \in Vars, ExcludeWritten(items, w), w = v PROVE rows[v].check
    <3>1. items[v].exclude = "yes"
      BY <2>3 DEF ExcludeWritten
    <3> QED
      BY <1>0, <3>1 DEF ChecksShown
  <2> QED
    BY <2>1, <2>2, <2>3 DEF Excludes
<1>4. ASSUME rows[v].check, ~rows[Root].check,
             \A d \in Above(v) : items[d].exclude # "no"
      PROVE  Excluded(MapFileOf(Generator), v)
  <2> DEFINE T == {n \in Nat : \E p \in Items : /\ IsPrefix(p, v) /\ Len(p) = n
                                               /\ items[p].exclude = "yes"}
  <2>1. IsPrefix(v, v) /\ Len(v) \in Nat
    BY <1>0, PrefixByPlaces
  <2>2. Len(v) \in T
    BY <1>0, <1>2, <1>4, <2>1
  <2>3. PICK n \in T : \A m \in T : n <= m
    BY <2>2, LeastElement
  <2>4. PICK p \in Items : IsPrefix(p, v) /\ Len(p) = n /\ items[p].exclude = "yes"
    BY <2>3
  <2>5. p # Root
    BY <1>0, <1>2, <1>4, <2>4
  <2>6. /\ Parent(p) \in Dirs /\ Len(Parent(p)) = n - 1 /\ n - 1 \in Nat
        /\ IsPrefix(Parent(p), p) /\ p \in Seq(Word)
    BY <2>4, <2>5, ParentOfItem
  <2>7. IsPrefix(Parent(p), v)
    <3>1. Parent(p) \in Seq(Word) /\ Parent(p) \in Items
      BY <2>6, ParentOfItem DEF Items
    <3> QED
      BY <1>0, <2>4, <2>6, <3>1, PrefixByPlaces
  <2>8. items[Parent(p)].exclude # "yes"
    <3>1. n - 1 \notin T
      BY <2>3, <2>6
    <3> QED
      BY <2>6, <2>7, <3>1 DEF Items
  <2>9. ExcludeWritten(items, p)
    <3>1. items[Parent(p)].exclude \in {"unset", "yes", "no"}
      BY <1>0, <2>6 DEF ItemType, Items
    <3>2. items[Parent(p)].exclude # "no"
      BY <1>4, <2>6, <2>7 DEF Above
    <3> QED
      BY <2>4, <2>6, <2>8, <3>1, <3>2 DEF ExcludeWritten, ExcludeActive
  <2>10. CASE p \in Dirs
    <3> DEFINE e == [kind |-> "folder", source |-> p]
    <3>1. e \in Excludes(items)
      BY <2>5, <2>9, <2>10 DEF Excludes, FolderSource
    <3> QED
      BY <1>1, <2>4, <3>1 DEF Excluded
  <2>11. CASE p \notin Dirs
    <3>1. p = v
      BY <1>0, <2>4, <2>6, <2>11, AboveIsFolder
    <3> DEFINE e == [kind |-> "variable", source |-> v]
    <3>2. e \in Excludes(items)
      BY <2>9, <3>1 DEF Excludes
    <3> QED
      BY <1>1, <3>2 DEF Excluded
  <2> QED
    BY <2>10, <2>11
<1> QED
  BY <1>3, <1>4

-----------------------------------------------------------------------------
(* Loading forgets what was edited.                                        *)

(* The places and descriptions that are read do not depend on anything     *)
(* else of the item.                                                       *)
SamePlace(a, b) == /\ a.newName = b.newName
                   /\ a.newDestination = b.newDestination
                   /\ a.newDescription = b.newDescription

(* Items that agree in their places agree in them after the entry of a     *)
(* folder was read into both,                                              *)
LEMMA SameFolder ==
  ASSUME NEW a \in ItemType, NEW b \in ItemType, SamePlace(a, b), NEW d, NEW e
  PROVE  SamePlace(ReadFolder(a, d, e), ReadFolder(b, d, e))
<1>1. CASE e = None
  BY <1>1 DEF ReadFolder
<1>2. CASE e # None /\ e.name = None /\ e.destination = None /\ e.description = None
  <2>1. \A h : SamePlace([a EXCEPT !.history = h], a) /\ SamePlace([b EXCEPT !.history = h], b)
    BY DEF SamePlace, ItemType
  <2>2. /\ ReadFolder(a, d, e) = [a EXCEPT !.history = Or(e.history, a.history)]
        /\ ReadFolder(b, d, e) = [b EXCEPT !.history = Or(e.history, b.history)]
    BY <1>2 DEF ReadFolder
  <2>3. /\ SamePlace([a EXCEPT !.history = Or(e.history, a.history)], a)
        /\ SamePlace([b EXCEPT !.history = Or(e.history, b.history)], b)
    BY <2>1
  <2>4. SamePlace(ReadFolder(a, d, e), a) /\ SamePlace(ReadFolder(b, d, e), b)
    BY <2>2, <2>3
  <2> QED
    BY <2>4 DEF SamePlace
<1>3. CASE e # None /\ ~(e.name = None /\ e.destination = None /\ e.description = None)
  <2>1. ASSUME NEW c \in ItemType
        PROVE  LET r == ReadFolder(c, d, e) IN
               /\ r.newDescription = e.description
               /\ r.newName = IF d # Root /\ e.name = Last(d) THEN c.newName
                                                              ELSE Or(e.name, c.newName)
               /\ r.newDestination = IF e.destination \notin {None, Root, Parent(d)}
                                       THEN e.destination ELSE Root
    <3> DEFINE h == Or(e.history, c.history)
               n == IF d # Root /\ e.name = Last(d) THEN c.newName
                                                    ELSE Or(e.name, c.newName)
               t == IF e.destination \notin {None, Root, Parent(d)}
                      THEN e.destination ELSE Root
    <3>1. ReadFolder(c, d, e) = [c EXCEPT !.history = h, !.newDescription = e.description,
                                          !.newName = n, !.newDestination = t]
      BY <1>3 DEF ReadFolder
    <3> HIDE DEF h, n, t
    <3>2. LET r == ReadFolder(c, d, e) IN
          r.newDescription = e.description /\ r.newName = n /\ r.newDestination = t
      BY <3>1 DEF ItemType
    <3> QED
      BY <3>2 DEF n, t
  <2> QED
    BY <2>1 DEF SamePlace
<1> QED
  BY <1>1, <1>2, <1>3

(* after a description was,                                                *)
LEMMA SameDescription ==
  ASSUME NEW a \in ItemType, NEW b \in ItemType, SamePlace(a, b), NEW d, NEW described
  PROVE  SamePlace(ReadDescription(a, d, described), ReadDescription(b, d, described))
<1> DEFINE found == {e \in described : e.folder = d}
           t == (CHOOSE e \in found : TRUE).description
<1>1. \A c \in ItemType :
        ReadDescription(c, d, described) =
          IF found = {} THEN c ELSE [c EXCEPT !.newDescription = t]
  BY DEF ReadDescription
<1> HIDE DEF found, t
<1>2. SamePlace([a EXCEPT !.newDescription = t], [b EXCEPT !.newDescription = t])
  BY DEF SamePlace, ItemType
<1> QED
  BY <1>1, <1>2

(* after the entry of a variable was,                                      *)
LEMMA SamePv ==
  ASSUME NEW a \in ItemType, NEW b \in ItemType, SamePlace(a, b), NEW v, NEW e
  PROVE  SamePlace(ReadPv(a, v, e), ReadPv(b, v, e))
<1> DEFINE toRoot == e.destination = None /\ e.name = Last(v)
           n == IF toRoot THEN None ELSE e.name
           t == IF toRoot THEN Root ELSE e.destination
<1>1. \A c \in ItemType :
        ReadPv(c, v, e) =
          IF e = None THEN c
          ELSE [c EXCEPT !.history = Or(e.history, @), !.newDescription = e.description,
                         !.newName = n, !.newDestination = t]
  BY DEF ReadPv
<1> HIDE DEF n, t
<1>2. CASE e # None
  <2> DEFINE r(c) == [c EXCEPT !.history = Or(e.history, @),
                               !.newDescription = e.description,
                               !.newName = n, !.newDestination = t]
  <2>1. ReadPv(a, v, e) = r(a) /\ ReadPv(b, v, e) = r(b)
    BY <1>1, <1>2
  <2>2. \A c \in ItemType : /\ r(c).newName = n /\ r(c).newDestination = t
                            /\ r(c).newDescription = e.description
    BY DEF ItemType
  <2> HIDE DEF r
  <2> QED
    BY <2>1, <2>2 DEF SamePlace
<1> QED
  BY <1>1, <1>2

(* and so after all that is read for an item.                              *)
LEMMA SameItem ==
  ASSUME NEW gen \in Generators, NEW f, f = MapFileOf(gen), NEW i \in Items,
         NEW xs, NEW ys, xs[i] \in ItemType, ys[i] \in ItemType,
         SamePlace(xs[i], ys[i])
  PROVE  SamePlace(ReadItem(xs, i, f), ReadItem(ys, i, f))
<1>0. /\ f.folders = FolderEntries(gen.items) /\ f.described = Described(gen.items)
      /\ f.pvs = PvEntries(gen.items)
      /\ gen.items \in [Items -> ItemType] /\ RootStays(gen.items)
  BY DEF MapFileOf, Generators
<1>1. CASE i \in Dirs
  <2> DEFINE e == EntryOf(f.folders, i)
             a(c) == ReadFolder(c, i, e)
             b(c) == ReadDescription(a(c), i, f.described)
  <2>1. e = None \/ e \in EntryType
    BY <1>0, EntryRead
  <2> HIDE DEF e
  <2>2. \A c \in ItemType : a(c) \in ItemType
    BY <1>1, <2>1, ReadFolderType
  <2>3. SamePlace(a(xs[i]), a(ys[i]))
    BY SameFolder
  <2> HIDE DEF a
  <2>4. \A o \in f.described : o.description \in Text
    BY <1>0, EntryTypes
  <2>5. \A c \in ItemType : b(c) \in ItemType
    BY <2>2, <2>4, ReadDescriptionType
  <2>6. SamePlace(b(xs[i]), b(ys[i]))
    BY <2>2, <2>3, SameDescription
  <2> HIDE DEF b
  <2>7. \A c \in ItemType :
          SamePlace(ReadExclude(b(c), i, "folder", f.excludes), b(c))
    BY <2>5, ReadExcludeType DEF SamePlace
  <2>8. /\ ReadItem(xs, i, f) = ReadExclude(b(xs[i]), i, "folder", f.excludes)
        /\ ReadItem(ys, i, f) = ReadExclude(b(ys[i]), i, "folder", f.excludes)
    BY <1>1 DEF ReadItem, a, b, e
  <2>9. SamePlace(ReadItem(xs, i, f), b(xs[i])) /\ SamePlace(ReadItem(ys, i, f), b(ys[i]))
    BY <2>7, <2>8
  <2> QED
    BY <2>6, <2>9 DEF SamePlace
<1>2. CASE i \notin Dirs
  <2> DEFINE e == EntryOf(f.pvs, i)
             a(c) == ReadPv(c, i, e)
  <2>1. e = None \/ e \in EntryType
    BY <1>0, EntryRead
  <2> HIDE DEF e
  <2>2. \A c \in ItemType : a(c) \in ItemType
    BY <2>1, ReadPvType
  <2>3. SamePlace(a(xs[i]), a(ys[i]))
    BY SamePv
  <2> HIDE DEF a
  <2>4. \A c \in ItemType :
          SamePlace(ReadExclude(a(c), i, "variable", f.excludes), a(c))
    BY <2>2, ReadExcludeType DEF SamePlace
  <2>5. /\ ReadItem(xs, i, f) = ReadExclude(a(xs[i]), i, "variable", f.excludes)
        /\ ReadItem(ys, i, f) = ReadExclude(a(ys[i]), i, "variable", f.excludes)
    BY <1>2 DEF ReadItem, a, e
  <2>6. SamePlace(ReadItem(xs, i, f), a(xs[i])) /\ SamePlace(ReadItem(ys, i, f), a(ys[i]))
    BY <2>4, <2>5
  <2> QED
    BY <2>3, <2>6 DEF SamePlace
<1> QED
  BY <1>1, <1>2

(* What a load leaves is what a fresh generator reads.                     *)
LEMMA LoadForgets ==
  ASSUME TypeIInv, LoadMapFile
  PROVE  LET fresh == ParseMapFile(Fresh, file) IN
         /\ \A i \in Items, field \in {"newName", "newDestination",
                                       "newDescription"} :
              items'[i][field] = fresh.items[i][field]
         /\ \A field \in {"login", "user", "password"} :
              config'[field] = fresh.config[field]
         /\ config'.encryption.enabled = fresh.config.encryption.enabled
         /\ config'.encryption.certs = fresh.config.encryption.certs
<1> DEFINE its == ReadItems(items, file)
           fresh == ParseMapFile(Fresh, file)
<1>1. PICK gen \in Generators : file = MapFileOf(gen)
  BY LoadFacts
<1>2. PICK offers : Loads(file, offers, its)
  BY LoadFacts
<1>3. items \in [Items -> ItemType] /\ Fresh.items \in [Items -> ItemType]
  BY FreshTypes DEF TypeIInv, EditorTypes
<1>4. /\ fresh.items = ReadItems(Fresh.items, file)
      /\ fresh.config = ReadConfig(Fresh.config, file.config)
  BY DEF ParseMapFile
<1>5. ASSUME NEW i \in Items PROVE SamePlace(its[i], fresh.items[i])
  <2>1. /\ its[i] = ReadItem(Reset(items), i, file)
        /\ fresh.items[i] = ReadItem(Reset(Fresh.items), i, file)
    BY <1>4 DEF ReadItems
  <2>2. /\ Reset(items)[i] \in ItemType /\ Reset(Fresh.items)[i] \in ItemType
        /\ SamePlace(Reset(items)[i], Reset(Fresh.items)[i])
    BY <1>3, ResetItem DEF SamePlace
  <2> HIDE DEF its, fresh
  <2>3. SamePlace(ReadItem(Reset(items), i, file), ReadItem(Reset(Fresh.items), i, file))
    BY <1>1, <2>2, SameItem
  <2> QED
    BY <2>1, <2>3
<1>6. ASSUME NEW i \in Items PROVE SamePlace(items'[i], its[i])
  <2>1. its \in [Items -> ItemType] /\ rows' \in [Items -> RowType]
        /\ items' = StoreHistory(its, FilledTree(its), rows')
    BY <1>2, LoadedTypes DEF Loads
  <2> HIDE DEF its
  <2>2. FilledTree(its) \in [Items -> RowType]
    BY <2>1, FilledTreeType
  <2> QED
    BY <2>1, <2>2, RowTypes DEF SamePlace
<1> HIDE DEF its
<1>7. \A i \in Items, field \in {"newName", "newDestination", "newDescription"} :
        items'[i][field] = fresh.items[i][field]
  <2> HIDE DEF fresh
  <2> QED
    BY <1>5, <1>6 DEF SamePlace
<1>8. config' = ReadConfig(config, file.config)
  BY <1>2 DEF Loads
<1>9. /\ \A field \in {"login", "user", "password"} :
           config'[field] = fresh.config[field]
      /\ config'.encryption.enabled = fresh.config.encryption.enabled
      /\ config'.encryption.certs = fresh.config.encryption.certs
  BY <1>4, <1>8 DEF ReadConfig
<1> QED
  BY <1>7, <1>9

-----------------------------------------------------------------------------
(* Histories.                                                              *)

(* A choice reaches a row and passes to all below it that differ.          *)
LEMMA TakesBelow ==
  ASSUME NEW rs, NEW i \in Items, NEW name, NEW j \in Items \ {Root}
  PROVE  LET hit == Takes(rs, i, name) IN
         /\ Parent(j) \in hit =>
              /\ j # i /\ j \in Below(i)
              /\ rs[j].history # name /\ Offered(rs, j, name) => j \in hit
         /\ j \in hit /\ j # i => Parent(j) \in hit
<1> DEFINE hit == Takes(rs, i, name)
           p == Parent(j)
           changing == {m \in Items : rs[m].history # name /\ Offered(rs, m, name)}
<1>1. hit = {i} \cup {m \in Below(i) :
                        \A k \in Below(i) : IsPrefix(k, m) => k \in changing}
  BY DEF Takes, Reached
<1>2. /\ p \in Items /\ p \in Seq(Word) /\ j \in Seq(Word) /\ i \in Seq(Word)
      /\ IsPrefix(p, j) /\ p # j
  BY ParentOfItem DEF Items
<1>3. \A k \in Items : IsPrefix(k, j) /\ k # j <=> IsPrefix(k, p)
  BY ParentOfItem, PrefixOfParent
<1>4. Below(i) = {m \in Items : i # m /\ IsPrefix(i, m)}
  BY DEF Below
<1>5. IsPrefix(i, i) /\ IsPrefix(j, j)
  BY <1>2, PrefixByPlaces
<1>6. \A k \in Below(i) : ~IsPrefix(k, i)
  <2> SUFFICES ASSUME NEW k \in Items, i # k, IsPrefix(i, k), IsPrefix(k, i)
               PROVE  FALSE
    BY <1>4
  <2>1. k \in Seq(Word)
    BY ParentOfItem
  <2>2. Len(k) <= Len(i) /\ Len(i) <= Len(k) /\ Len(i) \in Nat /\ Len(k) \in Nat
        /\ \A m \in 1..Len(k) : k[m] = i[m]
    BY <1>2, <2>1, PrefixByPlaces
  <2> QED
    BY <1>2, <2>1, <2>2, SeqEqual
<1> HIDE DEF p, changing, hit
<1>7. ASSUME p \in hit
      PROVE  /\ j # i /\ j \in Below(i)
             /\ rs[j].history # name /\ Offered(rs, j, name) => j \in hit
  <2>1. IsPrefix(i, p)
    BY <1>1, <1>4, <1>5, <1>7
  <2>2. j # i /\ j \in Below(i)
    BY <1>3, <1>4, <2>1
  <2>3. ASSUME rs[j].history # name, Offered(rs, j, name) PROVE j \in hit
    <3>1. j \in changing
      BY <2>3 DEF changing
    <3>2. ASSUME NEW k \in Below(i), IsPrefix(k, j), k # j PROVE k \in changing
      <4>1. IsPrefix(k, p)
        BY <1>3, <1>4, <3>2
      <4>2. p # i
        BY <1>6, <4>1
      <4> QED
        BY <1>1, <1>7, <4>1, <4>2
    <3> QED
      BY <1>1, <2>2, <3>1, <3>2
  <2> QED
    BY <2>2, <2>3
<1>8. ASSUME j \in hit, j # i PROVE p \in hit
  <2>1. j \in Below(i) /\ \A k \in Below(i) : IsPrefix(k, j) => k \in changing
    BY <1>1, <1>8
  <2>2. IsPrefix(i, p)
    BY <1>3, <1>4, <2>1
  <2>3. CASE p = i
    BY <1>1, <2>3
  <2>4. CASE p # i
    <3>1. p \in Below(i)
      BY <1>2, <1>4, <2>2, <2>4
    <3>2. \A k \in Below(i) : IsPrefix(k, p) => k \in changing
      BY <1>3, <1>4, <2>1
    <3> QED
      BY <1>1, <3>1, <3>2
  <2> QED
    BY <2>3, <2>4
<1> QED
  BY <1>7, <1>8 DEF hit, p

(* A choice is shown where it is stored, and handed down.                  *)
LEMMA ChoiceShown ==
  ASSUME EditorTypes, OffersNest, HistoriesShown, HistoriesHandedDown(rows),
         NEW i \in Items, NEW name \in Text, ChooseHistory(i, name)
  PROVE  HistoriesShown' /\ HistoriesHandedDown(rows')
<1>1. HistoriesShown'
  BY AfterChoice DEF HistoriesShown
<1> SUFFICES ASSUME NEW j \in Items \ {Root}, rows'[Parent(j)].history # None
             PROVE  rows'[j].history = rows'[Parent(j)].history /\ ~rows'[j].enabled
  BY <1>1 DEF HistoriesHandedDown
<1> DEFINE hit == Takes(rows, i, name)
           p == Parent(j)
<1>2. rows[i].enabled /\ p \in Items
  BY ParentOfItem DEF ChooseHistory, Items
<1>3. /\ rows'[j].history = IF j \in hit THEN name ELSE rows[j].history
      /\ rows'[p].history = IF p \in hit THEN name ELSE rows[p].history
      /\ p \in hit => Offered(rows, p, name)
  BY <1>2, AfterChoice
<1>4. /\ rows'[j].enabled = IF j # i /\ j \in Below(i) /\ p \in hit
                              THEN name = None ELSE rows[j].enabled
  BY AfterChoice, Zenon
<1>5. /\ p \in hit => /\ j # i /\ j \in Below(i)
                      /\ rows[j].history # name /\ Offered(rows, j, name) => j \in hit
      /\ j \in hit /\ j # i => p \in hit
  BY TakesBelow
<1>6. rows[p].offers \subseteq rows[j].offers
  BY DEF OffersNest
<1>7. rows[p].history # None => rows[j].history = rows[p].history /\ ~rows[j].enabled
  BY DEF HistoriesHandedDown
<1> HIDE DEF hit, p
<1>8. CASE p \in hit
  <2>1. name # None
    BY <1>3, <1>8 DEF p
  <2>2. ~rows'[j].enabled
    BY <1>4, <1>5, <1>8, <2>1, Zenon
  <2>3. Offered(rows, j, name)
    BY <1>3, <1>6, <1>8 DEF Offered
  <2> QED
    BY <1>3, <1>5, <1>8, <2>2, <2>3 DEF p
<1>9. CASE p \notin hit
  <2>1. rows[j].history = rows[p].history /\ ~rows[j].enabled
    BY <1>3, <1>7, <1>9 DEF p
  <2>2. j \notin hit
    BY <1>2, <1>5, <1>9, <2>1
  <2>3. ~rows'[j].enabled
    BY <1>4, <1>9, <2>1, Zenon
  <2> QED
    BY <1>3, <1>9, <2>1, <2>2, <2>3 DEF p
<1> QED
  BY <1>8, <1>9

(* So is the choice for all inputs, unless it was forced on a row that is  *)
(* switched off.                                                           *)
LEMMA InputsShown ==
  ASSUME EditorTypes, HistoriesShown, HistoriesHandedDown(rows),
         NEW s \in DOMAIN names, UseForInputs(s), ~forced'
  PROVE  HistoriesShown' /\ HistoriesHandedDown(rows')
<1>1. HistoriesShown'
  BY AfterInputs DEF HistoriesShown
<1> SUFFICES ASSUME NEW j \in Items \ {Root}, rows'[Parent(j)].history # None
             PROVE  rows'[j].history = rows'[Parent(j)].history /\ ~rows'[j].enabled
  BY <1>1 DEF HistoriesHandedDown
<1>2. Parent(j) \in Items /\ Parent(j) \notin Switched(s)
  BY ParentOfItem, TreeAssumption, InputsAssumption DEF Items, Switched
<1>3. rows'[Parent(j)].history = rows[Parent(j)].history
  BY <1>2, AfterInputs
<1>4. rows[j].history = rows[Parent(j)].history /\ ~rows[j].enabled
  BY <1>3 DEF HistoriesHandedDown
<1>5. /\ rows'[j].history = IF j \in Switched(s) THEN names[s] ELSE rows[j].history
      /\ rows'[j].enabled = rows[j].enabled
      /\ \A v \in Switched(s) : rows[v].enabled \/ rows[v].history = names[s]
  BY AfterInputs
<1> QED
  BY <1>3, <1>4, <1>5

(* The folder whose history is handed down is the first from the root.     *)
LEMMA LeaderOfChild ==
  ASSUME NEW its, NEW j \in Items \ {Root},
         its[Leader(its, Parent(j))].history # None
  PROVE  Leader(its, j) = Leader(its, Parent(j))
<1> DEFINE p == Parent(j)
           line(i) == {k \in Items : IsPrefix(k, i) /\ its[k].history # None}
           first(i) == CHOOSE k \in line(i) : \A m \in line(i) : Len(k) <= Len(m)
<1>1. p \in Items /\ p \in Seq(Word) /\ j \in Seq(Word) /\ IsPrefix(p, p)
      /\ Len(p) = Len(j) - 1 /\ Len(j) \in Nat
  <2>1. p \in Items
    BY ParentOfItem DEF Items
  <2>2. p \in Seq(Word)
    BY <2>1, ParentOfItem
  <2> QED
    BY <2>1, <2>2, ParentOfItem, PrefixByPlaces
<1>2. \A i \in Items : Leader(its, i) = IF line(i) = {} THEN i ELSE first(i)
  BY DEF Leader
<1>3. \A k \in Items : k \in Seq(Word) /\ Len(k) \in Nat
  BY ParentOfItem
<1>4. ASSUME NEW i \in Items, line(i) # {}
      PROVE  first(i) \in line(i) /\ \A m \in line(i) : Len(first(i)) <= Len(m)
  <2> DEFINE T == {Len(k) : k \in line(i)}
  <2>1. T \subseteq Nat /\ T # {}
    BY <1>3, <1>4
  <2>2. PICK n \in T : \A m \in T : n <= m
    BY <2>1, LeastElement
  <2> HIDE DEF line
  <2>3. \E k \in line(i) : \A m \in line(i) : Len(k) <= Len(m)
    BY <2>2
  <2> QED
    BY <2>3
<1>5. \A k \in Items : IsPrefix(k, j) /\ k # j <=> IsPrefix(k, p)
  BY <1>3, PrefixOfParent
<1>6. line(p) # {}
  <2>1. line(p) = {} => Leader(its, p) = p
    BY <1>1, <1>2
  <2> QED
    BY <1>1, <2>1
<1>7. line(p) \subseteq line(j) /\ \A k \in line(j) : k # j => k \in line(p)
  BY <1>5
<1>8. \A i \in Items : \A k \in line(i) : k \in Items /\ k \in Seq(Word) /\ Len(k) \in Nat
                                      /\ IsPrefix(k, i)
  BY <1>3
<1> HIDE DEF line, first, p
<1>9. /\ first(p) \in line(p) /\ \A m \in line(p) : Len(first(p)) <= Len(m)
      /\ first(j) \in line(j) /\ \A m \in line(j) : Len(first(j)) <= Len(m)
  BY <1>1, <1>4, <1>6, <1>7
<1>10. first(j) = first(p)
  <2>1. Len(first(j)) <= Len(first(p)) /\ Len(first(p)) <= Len(p)
    BY <1>1, <1>7, <1>8, <1>9, PrefixByLength
  <2>2. first(j) # j
    BY <1>1, <1>8, <1>9, <2>1
  <2>3. Len(first(p)) <= Len(first(j))
    BY <1>7, <1>9, <2>2
  <2>4. /\ first(p) \in Seq(Word) /\ first(j) \in Seq(Word)
        /\ IsPrefix(first(p), j) /\ IsPrefix(first(j), j)
        /\ Len(first(p)) \in Nat /\ Len(first(j)) \in Nat
    BY <1>1, <1>7, <1>8, <1>9
  <2> QED
    BY <1>1, <2>1, <2>3, <2>4, PrefixByLength
<1> QED
  BY <1>1, <1>2, <1>6, <1>7, <1>10 DEF p

(* Loading hands the histories of the items down.                          *)
LEMMA LoadHandsDown ==
  ASSUME NEW its, NEW offers, NEW j \in Items,
         \A k \in Items : its[k].history \in offers \cup {None}
  PROVE  /\ LoadedHistory(its, offers, j) = None => its[j].history = None
         /\ j # Root /\ LoadedHistory(its, offers, Parent(j)) # None
            => LoadedHistory(its, offers, j) = LoadedHistory(its, offers, Parent(j))
<1>1. ASSUME its[j].history # None PROVE LoadedHistory(its, offers, j) # None
  <2> DEFINE line == {k \in Items : IsPrefix(k, j) /\ its[k].history # None}
             T == {Len(k) : k \in line}
  <2>1. j \in line
    <3>1. j \in Seq(Word)
      BY ParentOfItem
    <3> QED
      BY <1>1, <3>1, PrefixByPlaces
  <2>2. T \subseteq Nat /\ T # {}
    BY <2>1, ParentOfItem
  <2>3. PICK n \in T : \A m \in T : n <= m
    BY <2>2, LeastElement
  <2>4. Leader(its, j) = CHOOSE k \in line : \A m \in line : Len(k) <= Len(m)
    BY <2>1 DEF Leader
  <2>5. \A k \in line : k \in Items /\ its[k].history # None
    OBVIOUS
  <2> HIDE DEF line
  <2>6. \E k \in line : \A m \in line : Len(k) <= Len(m)
    BY <2>3
  <2>7. Leader(its, j) \in line
    BY <2>4, <2>6
  <2> QED
    BY <2>5, <2>7 DEF LoadedHistory
<1>2. ASSUME j # Root, LoadedHistory(its, offers, Parent(j)) # None
      PROVE  LoadedHistory(its, offers, j) = LoadedHistory(its, offers, Parent(j))
  <2>1. its[Leader(its, Parent(j))].history # None
    BY <1>2 DEF LoadedHistory
  <2>2. Leader(its, j) = Leader(its, Parent(j))
    BY <1>2, <2>1, LeaderOfChild
  <2> QED
    BY <2>2 DEF LoadedHistory
<1> QED
  BY <1>1, <1>2

(* At the start no history is set and none is shown.                       *)
LEMMA ShownInit == Init => Shown
<1> SUFFICES ASSUME Init PROVE HistoriesShown /\ HistoriesHandedDown(rows)
  BY DEF Shown
<1>1. \A i \in Items : items[i].history = None /\ rows[i].history = None
  BY DEF Init, Fresh, FreshItem, FilledTree, FilledRow
<1>2. \A i \in Items \ {Root} : Parent(i) \in Items
  BY ParentOfItem DEF Items
<1> QED
  BY <1>1, <1>2 DEF HistoriesShown, HistoriesHandedDown

(* Every action shows the histories it sets.                               *)
LEMMA ShownNext ==
  TypeIInv /\ Defined /\ OffersNest /\ Shown /\ [Next]_vars => Shown'
<1> SUFFICES ASSUME TypeIInv, Defined, OffersNest, Shown, [Next]_vars,
                    ~renamed', ~forced', ~skipped'
             PROVE  HistoriesShown' /\ HistoriesHandedDown(rows')
  BY DEF Shown
<1> DEFINE New == HistoriesShown' /\ HistoriesHandedDown(rows')
<1>0. EditorTypes /\ RootStays(items)
      /\ rows \in [Items -> RowType] /\ items \in [Items -> ItemType]
  BY DEF TypeIInv, EditorTypes
<1>1. \A i \in Items \ {Root} : Parent(i) \in Items
  BY ParentOfItem DEF Items
<1>2. ASSUME ~renamed, ~forced, ~skipped
      PROVE  HistoriesShown /\ HistoriesHandedDown(rows)
  BY <1>2 DEF Shown
<1>3. ASSUME ~renamed, ~forced, ~skipped,
             \A i \in Items : /\ items'[i].history = items[i].history
                              /\ rows'[i].history = rows[i].history
                              /\ rows'[i].enabled = rows[i].enabled
      PROVE  New
  <2>1. HistoriesShown'
    BY <1>2, <1>3 DEF HistoriesShown
  <2>2. HistoriesHandedDown(rows')
    BY <1>1, <1>2, <1>3 DEF HistoriesHandedDown
  <2> QED
    BY <2>1, <2>2
<1>4. ASSUME NEW i \in Items, ToggleExclude(i) PROVE New
  <2>1. ~renamed /\ ~forced /\ ~skipped
    BY <1>4 DEF ToggleExclude
  <2>2. \A j \in Items : /\ items'[j].history = items[j].history
                         /\ rows'[j].history = rows[j].history
                         /\ rows'[j].enabled = rows[j].enabled
    BY <1>0, <1>4, ToggledTypes
  <2> QED
    BY <1>3, <2>1, <2>2
<1>5. ASSUME NEW i \in Items, NEW name \in Text, ChooseHistory(i, name) PROVE New
  <2>1. ~renamed /\ ~forced /\ ~skipped
    BY <1>5 DEF ChooseHistory
  <2> QED
    BY <1>0, <1>2, <1>5, <2>1, ChoiceShown
<1>6. ASSUME NEW s \in DOMAIN names, UseForInputs(s) PROVE New
  <2>1. ~renamed /\ ~skipped
    BY <1>6 DEF UseForInputs
  <2>2. ~forced
    BY <1>6 DEF UseForInputs
  <2> QED
    BY <1>0, <1>2, <1>6, <2>1, <2>2, InputsShown
<1>7. ASSUME NEW name \in Word, AddSetting(name) PROVE New
  <2>1. ~renamed /\ ~forced /\ ~skipped /\ UNCHANGED items
    BY <1>7 DEF AddSetting
  <2>2. \A j \in Items : /\ rows'[j].history = rows[j].history
                         /\ rows'[j].enabled = rows[j].enabled
    BY <1>0, <1>7, AddedTypes
  <2> QED
    BY <1>3, <2>1, <2>2
<1>8. ASSUME NEW s \in DOMAIN names, NEW name \in Word, RenameSetting(s, name)
      PROVE  New
  BY <1>8 DEF RenameSetting
<1>9. UNCHANGED state \/ SettingsStep \/ SaveFile \/ (\E i \in Items : Scroll(i))
      => UNCHANGED <<items, rows, renamed, forced, skipped>>
  BY DEF state, SettingsStep, SaveFile, Scroll
<1>10. UNCHANGED <<items, rows, renamed, forced, skipped>> => New
  BY <1>3
<1>11. CASE EditStep
  <2>1. PICK i \in Items, item \in ItemType :
          items' = [items EXCEPT ![i] = item] /\ item.history = items[i].history
    BY <1>11 DEF EditStep
  <2>2. \A j \in Items : items'[j].history = items[j].history
    BY <1>0, <2>1
  <2>3. UNCHANGED <<rows, renamed, forced, skipped>>
    BY <1>11 DEF EditStep
  <2> QED
    BY <1>3, <2>2, <2>3
<1>12. CASE FreshStep
  <2>1. \A i \in Items : items'[i].history = None /\ rows'[i].history = None
    BY <1>12 DEF FreshStep, Fresh, FreshItem, FilledTree, FilledRow
  <2> QED
    BY <1>1, <2>1 DEF HistoriesShown, HistoriesHandedDown
<1>13. CASE LoadMapFile
  <2>1. PICK offers : \E its \in [Items -> ItemType] : LoadShows(its, offers)
    BY <1>13, AfterLoad
  <2>2. PICK its \in [Items -> ItemType] : LoadShows(its, offers)
    BY <2>1
  <2>3. ~renamed /\ file # None
    BY <1>13 DEF LoadMapFile
  <2>4. ~skipped /\ offers = Generator.settings \cup file.settings
    BY <2>2 DEF LoadShows, Loads
  <2>5. \A k \in Items : its[k].history \in offers \cup {None}
    <3>1. /\ \A i \in Items : items[i].history \in Generator.settings \cup {None}
          /\ HistoriesOf(file) \subseteq file.settings
      BY <2>3 DEF Defined, HistoriesDefined
    <3> QED
      BY <2>2, <2>4, <3>1 DEF LoadShows
  <2>6. ASSUME NEW i \in Items
        PROVE  /\ rows'[i].history = LoadedHistory(its, offers, i)
               /\ rows'[i].enabled <=>
                    i = Root \/ LoadedHistory(its, offers, Parent(i)) = None
               /\ items'[i].history = IF rows'[i].history # None
                                        THEN rows'[i].history ELSE its[i].history
               /\ LoadedHistory(its, offers, i) = None => its[i].history = None
               /\ i # Root /\ LoadedHistory(its, offers, Parent(i)) # None
                  => LoadedHistory(its, offers, i)
                       = LoadedHistory(its, offers, Parent(i))
    BY <2>2, <2>5, LoadHandsDown DEF LoadShows
  <2>7. HistoriesShown'
    BY <2>6 DEF HistoriesShown
  <2>8. HistoriesHandedDown(rows')
    BY <1>1, <2>6 DEF HistoriesHandedDown
  <2> QED
    BY <2>7, <2>8
<1>14. StepCases
  BY <1>0, EditorSteps
<1> QED
  BY <1>4, <1>5, <1>6, <1>7, <1>8, <1>9, <1>10, <1>11, <1>12, <1>13, <1>14
  DEF StepCases

(* Below an item with a history every item has the same.                   *)
LEMMA HistoriesBelow ==
  ASSUME HistoriesShown, HistoriesHandedDown(rows), NEW i \in Items
  PROVE  \A p \in Seq(Word) : IsPrefix(p, i) =>
           p \in Items /\ items[p].history \in {None, items[i].history}
<1> DEFINE H == {j \in Items : items[j].history \in {None, items[i].history}}
<1>1. \A j \in Items \ {Root} : j \in H => Parent(j) \in H
  <2> SUFFICES ASSUME NEW j \in Items \ {Root}, j \in H PROVE Parent(j) \in H
    OBVIOUS
  <2>1. Parent(j) \in Items
    BY ParentOfItem DEF Items
  <2>2. items[Parent(j)].history # None => items[j].history = items[Parent(j)].history
    BY <2>1 DEF HistoriesShown, HistoriesHandedDown
  <2> QED
    BY <2>1, <2>2
<1>2. i \in H
  OBVIOUS
<1>3. \A p \in Seq(Word) : IsPrefix(p, i) => p \in Items /\ p \in H
  BY <1>1, <1>2, PathInduction
<1> QED
  BY <1>3

(* No path in the tree begins like that of a stray source.                 *)
LEMMA NoStray ==
  ASSUME NEW i \in Items, NEW p \in Seq(Word)
  PROVE  ~IsPrefix(Stray(p), i) /\ Stray(p) # i
<1>1. "/root" \in Word
  BY DEF Word
<1>2. <<"/root">> \in Seq(Word) /\ Len(<<"/root">>) = 1 /\ Len(p) \in Nat
  BY <1>1
<1>3. /\ Stray(p) \in Seq(Word) /\ Len(Stray(p)) = 1 + Len(p)
      /\ \A k \in 1..1 : Stray(p)[k] = <<"/root">>[k]
  BY <1>2, ConcatLookup DEF Stray
<1>4. i \in Seq(Word) /\ Len(i) \in Nat
  BY ParentOfItem
<1>5. ASSUME IsPrefix(Stray(p), i) PROVE FALSE
  <2>1. Len(Stray(p)) <= Len(i) /\ \A k \in 1..Len(Stray(p)) : Stray(p)[k] = i[k]
    BY <1>3, <1>4, <1>5, PrefixByPlaces
  <2>2. 1 <= Len(i) /\ \A k \in 1..1 : <<"/root">>[k] = i[k]
    BY <1>2, <1>3, <1>4, <2>1
  <2>3. IsPrefix(<<"/root">>, i)
    BY <1>2, <1>4, <2>2, PrefixByPlaces
  <2>4. <<"/root">> \in Items
    BY <1>2, <2>3, AboveIsFolder
  <2> QED
    BY <2>4, TreeAssumption DEF Items
<1>6. Stray(p) = i => IsPrefix(Stray(p), i)
  BY <1>4, PrefixByPlaces
<1> QED
  BY <1>5, <1>6

(* What is saved is what the tree shows.                                   *)
LEMMA HistoryFollows ==
  ASSUME EditorTypes, RootStays(items), Shown PROVE HistoryServedAsShown
<1> SUFFICES ASSUME ~renamed, ~forced, ~skipped, items[Root].history = None,
                    NEW v \in Vars, Parent(v) # Root
             PROVE  ServedHistory(MapFileOf(Generator), v) = rows[v].history
  BY DEF HistoryServedAsShown
<1> DEFINE pvs == PvEntries(items)
           above == {e \in FolderEntries(items) :
                       e.history # None /\ IsPrefix(e.source, v)}
           ownEntry == EntryOf(pvs, v)
           h == items[v].history
<1>0. /\ v \in Items /\ v # Root /\ v \in Seq(Word) /\ Len(v) \in Nat
      /\ Parent(v) \in Dirs /\ Parent(v) \in Items /\ Parent(v) \in Seq(Word)
      /\ Len(Parent(v)) = Len(v) - 1 /\ Root \in Items
  <2>1. v \in Items /\ v # Root
    BY TreeAssumption DEF Items, Root
  <2>2. Parent(v) \in Dirs /\ Parent(v) \in Items
    BY <2>1, ParentOfItem DEF Items
  <2> QED
    BY <2>1, <2>2, ParentOfItem, FreshTypes
<1>1. /\ MapFileOf(Generator).pvs = pvs
      /\ MapFileOf(Generator).folders = FolderEntries(items)
  BY DEF MapFileOf, Generator
<1>2. ServedHistory(MapFileOf(Generator), v) =
        IF ownEntry # None /\ ownEntry.history # None THEN ownEntry.history
        ELSE IF above = {} THEN None
        ELSE (CHOOSE e \in above :
                \A o \in above : Len(o.source) <= Len(e.source)).history
  BY <1>1 DEF ServedHistory
<1>3. HistoriesShown /\ HistoriesHandedDown(rows) /\ rows[v].history = h
  BY <1>0 DEF Shown, HistoriesShown
<1>4. \A p \in Seq(Word) : IsPrefix(p, v) => p \in Items /\ items[p].history \in {None, h}
  BY <1>0, <1>3, HistoriesBelow
<1>5. ASSUME NEW e \in pvs, e.source = v
      PROVE  e = PvEntry(items, v) /\ e.history = OwnHistory(items, v)
  <2>1. PICK w \in Vars : e = PvEntry(items, w)
    BY DEF PvEntries
  <2>2. w \in Items /\ w \in Seq(Word)
    BY ParentOfItem DEF Items
  <2>3. PvSource(w) = v
    BY <1>5, <2>1 DEF PvEntry
  <2>4. w = v
    BY <1>0, <2>2, <2>3, NoStray DEF PvSource
  <2> QED
    BY <2>1, <2>4 DEF PvEntry
<1>6. ASSUME NEW e \in above
      PROVE  /\ e.history = h /\ h # None /\ e.source \in Seq(Word)
             /\ Len(e.source) \in 0..Len(v)
  <2>1. PICK d \in Dirs : e = FolderEntry(items, d)
    BY DEF FolderEntries
  <2>2. d \in Items /\ d \in Seq(Word)
    BY ParentOfItem DEF Items
  <2>3. e.source = FolderSource(d) /\ e.history = OwnHistory(items, d)
    BY <2>1 DEF FolderEntry
  <2>4. IsPrefix(FolderSource(d), v) /\ OwnHistory(items, d) # None
    BY <2>3
  <2>5. d # Root
    BY <1>0, <2>2, <2>4, NoStray DEF FolderSource
  <2>6. IsPrefix(d, v) /\ e.source = d /\ e.history = items[d].history
        /\ items[d].history # None
    BY <2>3, <2>4, <2>5 DEF FolderSource, OwnHistory
  <2>7. Len(d) <= Len(v) /\ Len(d) \in Nat
    BY <1>0, <2>2, <2>6, PrefixByPlaces
  <2> QED
    BY <1>0, <1>4, <2>2, <2>6, <2>7
<1>7. CASE items[Parent(v)].history = None
  <2>1. OwnHistory(items, v) = h
    BY <1>7 DEF OwnHistory, HistorizingActive
  <2>2. CASE h # None
    <3>1. PvEntry(items, v) \in pvs
      BY <2>1, <2>2 DEF PvEntries
    <3>2. PvEntry(items, v).source = v
      BY DEF PvEntry, PvSource
    <3>3. ownEntry = PvEntry(items, v)
      BY <1>5, <3>1, <3>2, EntryUnique
    <3>4. ownEntry.history = h
      BY <2>1, <3>3 DEF PvEntry
    <3>5. ownEntry # None
      <4>1. ownEntry \in EntryType
        <5>1. items \in [Items -> ItemType]
          BY DEF EditorTypes
        <5>2. pvs \subseteq EntryType
          BY <5>1, EntryTypes
        <5> QED
          BY <3>1, <3>3, <5>2
      <4> QED
        BY <4>1, EntryIsSome
    <3> QED
      BY <1>2, <1>3, <2>2, <3>4, <3>5
  <2>3. CASE h = None
    <3>1. ownEntry = None \/ ownEntry.history = None
      <4>1. ownEntry = None \/ (ownEntry \in pvs /\ ownEntry.source = v)
        BY EntryFound
      <4> QED
        BY <1>5, <2>1, <2>3, <4>1
    <3>2. above = {}
      <4> HIDE DEF above
      <4> QED
        BY <1>6, <2>3
    <3> QED
      BY <1>2, <1>3, <2>3, <3>1, <3>2
  <2> QED
    BY <2>2, <2>3
<1>8. CASE items[Parent(v)].history # None
  <2>1. OwnHistory(items, v) = None
    BY <1>0, <1>8 DEF OwnHistory, HistorizingActive
  <2>2. ownEntry = None \/ ownEntry.history = None
    <3>1. ownEntry = None \/ (ownEntry \in pvs /\ ownEntry.source = v)
      BY EntryFound
    <3> QED
      BY <1>5, <2>1, <3>1
  <2>3. above # {}
    <3> DEFINE T == {n \in Nat : \E p \in Items : /\ IsPrefix(p, v) /\ Len(p) = n
                                                 /\ items[p].history # None}
    <3>1. IsPrefix(Parent(v), v) /\ Len(Parent(v)) \in Nat
      BY <1>0, ParentOfItem
    <3>2. Len(Parent(v)) \in T
      BY <1>0, <1>8, <3>1
    <3>3. PICK n \in T : \A m \in T : n <= m
      BY <3>2, LeastElement
    <3>4. PICK p \in Items : IsPrefix(p, v) /\ Len(p) = n /\ items[p].history # None
      BY <3>3
    <3>5. p # Root /\ n <= Len(Parent(v))
      BY <3>2, <3>3, <3>4
    <3>6. /\ Parent(p) \in Dirs /\ Len(Parent(p)) = n - 1 /\ n - 1 \in Nat
          /\ IsPrefix(Parent(p), p) /\ p \in Seq(Word)
      BY <3>4, <3>5, ParentOfItem
    <3>7. IsPrefix(Parent(p), v)
      <4>1. Parent(p) \in Seq(Word) /\ Parent(p) \in Items
        BY <3>6, ParentOfItem DEF Items
      <4> QED
        BY <1>0, <3>4, <3>6, <4>1, PrefixByPlaces
    <3>8. items[Parent(p)].history = None
      <4>1. n - 1 \notin T
        BY <3>3, <3>6
      <4> QED
        BY <3>6, <3>7, <4>1 DEF Items
    <3>9. p \in Dirs
      <4>1. p # v
        BY <1>0, <3>4, <3>5
      <4> QED
        BY <1>0, <3>4, <3>6, <4>1, AboveIsFolder
    <3>10. OwnHistory(items, p) = items[p].history
      BY <3>8 DEF OwnHistory, HistorizingActive
    <3>11. FolderEntry(items, p) \in FolderEntries(items)
      BY <3>4, <3>9, <3>10 DEF FolderEntries
    <3>12. FolderEntry(items, p).source = p
           /\ FolderEntry(items, p).history = items[p].history
      BY <3>5, <3>10 DEF FolderEntry, FolderSource
    <3> QED
      BY <3>4, <3>11, <3>12
  <2>4. \E e \in above : \A o \in above : Len(o.source) <= Len(e.source)
    <3> DEFINE T == {Len(e.source) : e \in above}
    <3> HIDE DEF above
    <3>1. T \subseteq 0..Len(v) /\ T # {}
      BY <1>6, <2>3
    <3>2. Max(T) \in T /\ \A k \in T : k <= Max(T)
      BY <1>0, <3>1, MaxIsGreatest
    <3> QED
      BY <3>2
  <2> DEFINE top1 == CHOOSE e \in above :
                       \A o \in above : Len(o.source) <= Len(e.source)
  <2>5. top1 \in above
    <3> HIDE DEF above
    <3> QED
      BY <2>4
  <2>6. top1.history = h
    BY <1>6, <2>5
  <2> HIDE DEF above
  <2> QED
    BY <1>2, <1>3, <2>2, <2>3, <2>6
<1> QED
  BY <1>7, <1>8

-----------------------------------------------------------------------------
(* A saved file read by a fresh generator and saved again.                 *)

(* A name and a password.                                                  *)
LEMMA WordPair ==
  ASSUME NEW u \in Word, NEW p \in Word
  PROVE  <<u, p>> \in Seq(Word) /\ <<u, p>>[1] = u /\ <<u, p>>[2] = p
OBVIOUS

(* The server settings.                                                    *)
LEMMA ConfigRestored ==
  ASSUME NEW c \in ConfigType, ConfigComplete(c)
  PROVE  LET f == CreateConfig(c) IN
         CreateConfig(ReadConfig(FreshConfig, f))
           = IF f.folder = None THEN [f EXCEPT !.about = ""] ELSE f
<1> DEFINE f == CreateConfig(c)
           r == ReadConfig(FreshConfig, f)
           g == CreateConfig(r)
<1>1. /\ c.folder \in Text /\ c.about \in Word /\ c.port \in Text
      /\ c.void \in BOOLEAN /\ c.lds \in BOOLEAN /\ c.address \in Text
      /\ c.login \in BOOLEAN /\ c.user \in Text /\ c.password \in Text
      /\ c.encryption \in EncryptionType
  BY DEF ConfigType
<1>2. /\ f.folder = Attribute(c.folder) /\ f.about = c.about /\ f.port = c.port
      /\ f.void = c.void
      /\ f.lds = (IF c.lds THEN Attribute(c.address) ELSE None)
      /\ f.login = (IF c.login THEN <<c.user, c.password>> ELSE None)
      /\ f.security = (IF c.encryption.enabled THEN c.encryption ELSE None)
  BY DEF CreateConfig
<1>3. /\ r.folder = f.folder
      /\ r.about = (IF f.folder # None THEN f.about ELSE "")
      /\ r.port = f.port
      /\ r.void = (f.void \/ FALSE) /\ r.lds = (f.lds # None \/ FALSE)
      /\ r.address = f.lds /\ r.login = (f.login # None)
      /\ r.user = (IF f.login # None THEN f.login[1] ELSE None)
      /\ r.password = (IF f.login # None THEN f.login[2] ELSE None)
      /\ r.encryption = (IF f.security = None THEN FreshEncryption
                         ELSE [enabled |-> TRUE, certs |-> f.security.certs,
                               unsecure |-> f.security.unsecure \/ FALSE])
  BY DEF ReadConfig, FreshConfig, Or, FreshEncryption
<1>4. /\ g.folder = Attribute(r.folder) /\ g.about = r.about /\ g.port = r.port
      /\ g.void = r.void
      /\ g.lds = (IF r.lds THEN Attribute(r.address) ELSE None)
      /\ g.login = (IF r.login THEN <<r.user, r.password>> ELSE None)
      /\ g.security = (IF r.encryption.enabled THEN r.encryption ELSE None)
  BY DEF CreateConfig
<1>5. g = [folder |-> g.folder, about |-> g.about, port |-> g.port,
           void |-> g.void, lds |-> g.lds, login |-> g.login,
           security |-> g.security]
      /\ f = [folder |-> f.folder, about |-> f.about, port |-> f.port,
              void |-> f.void, lds |-> f.lds, login |-> f.login,
              security |-> f.security]
  BY DEF CreateConfig
<1>6. /\ \A t \in Text : Attribute(Attribute(t)) = Attribute(t)
      /\ \A t \in Text : Attribute(t) # None <=> Given(t)
      /\ \A t \in Text : Given(t) => Attribute(t) = t /\ t \in Word
  BY DEF Attribute, Given, Text
<1> HIDE DEF f, r, g
<1>7. g.folder = f.folder /\ g.port = f.port
  BY <1>1, <1>2, <1>3, <1>4, <1>6
<1>8. g.about = (IF f.folder = None THEN "" ELSE f.about)
  BY <1>3, <1>4
<1>9. g.void = f.void
  BY <1>1, <1>2, <1>3, <1>4
<1>10. g.lds = f.lds
  <2>1. CASE c.lds
    <3>1. Given(c.address)
      BY <2>1 DEF ConfigComplete
    <3>2. f.lds = c.address /\ f.lds # None
      BY <1>1, <1>2, <1>6, <2>1, <3>1
    <3>3. r.lds /\ r.address = c.address
      BY <1>3, <3>2
    <3> QED
      BY <1>1, <1>4, <1>6, <3>1, <3>2, <3>3
  <2>2. CASE ~c.lds
    <3>1. f.lds = None /\ ~r.lds
      BY <1>2, <1>3, <2>2
    <3> QED
      BY <1>4, <3>1
  <2> QED
    BY <2>1, <2>2
<1>11. g.login = f.login
  <2>1. CASE c.login
    <3>1. c.user \in Word /\ c.password \in Word
      BY <1>1, <1>6, <2>1 DEF ConfigComplete
    <3>2. /\ <<c.user, c.password>> \in Seq(Word)
          /\ <<c.user, c.password>>[1] = c.user
          /\ <<c.user, c.password>>[2] = c.password
      BY <3>1, WordPair, Zenon
    <3>3. f.login = <<c.user, c.password>> /\ f.login # None
      BY <1>2, <2>1, <3>2, NoneAssumption
    <3>4. r.login /\ r.user = c.user /\ r.password = c.password
      <4>1. r.user = f.login[1] /\ r.password = f.login[2]
        BY <1>3, <3>3
      <4>2. r.login
        BY <1>3, <3>3, Zenon
      <4>3. r.user = c.user /\ r.password = c.password
        BY <3>2, <3>3, <4>1, Zenon
      <4> QED
        BY <4>2, <4>3, Zenon
    <3> QED
      BY <1>4, <3>3, <3>4
  <2>2. CASE ~c.login
    <3>1. f.login = None /\ ~r.login
      BY <1>2, <1>3, <2>2
    <3> QED
      BY <1>4, <3>1
  <2> QED
    BY <2>1, <2>2
<1>12. g.security = f.security
  <2>1. CASE c.encryption.enabled
    <3>1. f.security = c.encryption /\ f.security # None
      BY <1>1, <1>2, <2>1, NoneAssumption DEF EncryptionType
    <3>2. r.encryption = [enabled |-> TRUE, certs |-> c.encryption.certs,
                          unsecure |-> c.encryption.unsecure \/ FALSE]
      BY <1>3, <3>1
    <3>3. c.encryption = [enabled |-> TRUE, certs |-> c.encryption.certs,
                          unsecure |-> c.encryption.unsecure]
          /\ c.encryption.unsecure \in BOOLEAN
      BY <1>1, <2>1 DEF EncryptionType
    <3>4. r.encryption = c.encryption
      BY <3>2, <3>3
    <3> QED
      BY <1>4, <2>1, <3>1, <3>4
  <2>2. CASE ~c.encryption.enabled
    <3>1. f.security = None
      BY <1>2, <2>2
    <3>2. ~r.encryption.enabled
      <4>1. r.encryption = FreshEncryption
        BY <1>3, <3>1
      <4>2. FreshEncryption.enabled = FALSE
        BY DEF FreshEncryption
      <4> QED
        BY <4>1, <4>2, Zenon
    <3> QED
      BY <1>4, <3>1, <3>2
  <2> QED
    BY <2>1, <2>2
<1> QED
  BY <1>5, <1>7, <1>8, <1>9, <1>10, <1>11, <1>12 DEF f, r, g

(* What reading leaves in each part of an item.                            *)
LEMMA FolderFields ==
  ASSUME NEW c \in ItemType, NEW d, NEW e, e # None
  PROVE  LET r == ReadFolder(c, d, e) IN
         /\ r.exclude = c.exclude /\ r.history = Or(e.history, c.history)
         /\ e.name = None /\ e.destination = None /\ e.description = None
            => SamePlace(r, c)
         /\ ~(e.name = None /\ e.destination = None /\ e.description = None)
            => /\ r.newDescription = e.description
               /\ r.newName = IF d # Root /\ e.name = Last(d) THEN c.newName
                                                              ELSE Or(e.name, c.newName)
               /\ r.newDestination = IF e.destination \notin {None, Root, Parent(d)}
                                       THEN e.destination ELSE Root
<1> DEFINE h == Or(e.history, c.history)
           n == IF d # Root /\ e.name = Last(d) THEN c.newName
                                                ELSE Or(e.name, c.newName)
           t == IF e.destination \notin {None, Root, Parent(d)}
                  THEN e.destination ELSE Root
           blank == e.name = None /\ e.destination = None /\ e.description = None
<1>1. ReadFolder(c, d, e) =
        IF blank THEN [c EXCEPT !.history = h]
        ELSE [c EXCEPT !.history = h, !.newDescription = e.description,
                       !.newName = n, !.newDestination = t]
  BY DEF ReadFolder
<1> HIDE DEF h, n, t, blank
<1>2. CASE blank
  <2>1. LET r == ReadFolder(c, d, e) IN
        r.exclude = c.exclude /\ r.history = h /\ SamePlace(r, c)
    BY <1>1, <1>2 DEF ItemType, SamePlace
  <2> QED
    BY <1>2, <2>1 DEF h, blank
<1>3. CASE ~blank
  <2>1. LET r == ReadFolder(c, d, e) IN
        /\ r.exclude = c.exclude /\ r.history = h
        /\ r.newDescription = e.description /\ r.newName = n /\ r.newDestination = t
    BY <1>1, <1>3 DEF ItemType
  <2> QED
    BY <1>3, <2>1 DEF h, n, t, blank
<1> QED
  BY <1>2, <1>3

(* What the entry of a variable says after it was read; one without a      *)
(* destination under the old name stays in the root.                       *)
LEMMA PvFields ==
  ASSUME NEW c \in ItemType, NEW v, NEW e, e # None
  PROVE  LET r == ReadPv(c, v, e)
             toRoot == e.destination = None /\ e.name = Last(v)
         IN  /\ r.exclude = c.exclude /\ r.history = Or(e.history, c.history)
             /\ r.newDescription = e.description
             /\ r.newName = IF toRoot THEN None ELSE e.name
             /\ r.newDestination = IF toRoot THEN Root ELSE e.destination
<1> DEFINE h == Or(e.history, c.history)
           toRoot == e.destination = None /\ e.name = Last(v)
           n == IF toRoot THEN None ELSE e.name
           t == IF toRoot THEN Root ELSE e.destination
<1>1. ReadPv(c, v, e) = [c EXCEPT !.history = h, !.newDescription = e.description,
                                  !.newName = n, !.newDestination = t]
  BY DEF ReadPv
<1> HIDE DEF h, n, t
<1>2. LET r == ReadPv(c, v, e) IN
      /\ r.exclude = c.exclude /\ r.history = h
      /\ r.newDescription = e.description /\ r.newName = n /\ r.newDestination = t
  BY <1>1 DEF ItemType
<1> QED
  BY <1>2 DEF h, n, t

(* Without an entry the description stays.                                 *)
LEMMA DescriptionKept ==
  ASSUME NEW c, NEW d, NEW described, \A e \in described : e.folder # d
  PROVE  ReadDescription(c, d, described) = c
BY DEF ReadDescription

(* With one it is the one of the entry.                                    *)
LEMMA DescriptionField ==
  ASSUME NEW c \in ItemType, NEW d, NEW described,
         NEW o \in described, o.folder = d,
         \A e \in described : e.folder = d => e.description = o.description
  PROVE  ReadDescription(c, d, described).newDescription = o.description
<1> DEFINE found == {e \in described : e.folder = d}
           u == (CHOOSE e \in found : TRUE).description
<1>1. ReadDescription(c, d, described) =
        IF found = {} THEN c ELSE [c EXCEPT !.newDescription = u]
  BY DEF ReadDescription
<1>2. o \in found
  OBVIOUS
<1>3. u = o.description
  <2>1. (CHOOSE e \in found : TRUE) \in found
    BY <1>2
  <2> QED
    BY <2>1
<1> HIDE DEF found, u
<1>4. [c EXCEPT !.newDescription = u].newDescription = u
  BY DEF ItemType
<1> QED
  BY <1>1, <1>2, <1>3, <1>4

(* The item a fresh generator begins with.                                 *)
LEMMA BlankItem ==
  ASSUME NEW i \in Items
  PROVE  LET c == Reset(Fresh.items)[i] IN
         /\ c \in ItemType /\ c.exclude = "unset" /\ c.history = None
         /\ c.newName = None /\ c.newDestination = None /\ c.newDescription = None
<1>1. Fresh.items \in [Items -> ItemType]
      /\ Fresh.items[i].exclude = "unset" /\ Fresh.items[i].history = None
  BY FreshTypes DEF Fresh, FreshItem
<1> QED
  BY <1>1, ResetItem

(* The part of a file that comes from the tree.                            *)
ItemsSaved(its) == its \in [Items -> ItemType] /\ RootStays(its)
Saves(f, its) ==
  /\ f.folders = FolderEntries(its) /\ f.described = Described(its)
  /\ f.pvs = PvEntries(its) /\ f.excludes = Excludes(its)

(* The items whose sources name them.                                      *)
Named(i) == i # Root /\ (i \in Vars => Parent(i) # Root)

(* A source is that of one item only.                                      *)
LEMMA SourcesDiffer ==
  /\ \A d, e \in Dirs : FolderSource(d) = e <=> d = e /\ d # Root
  /\ \A d, e \in Dirs : FolderSource(d) = FolderSource(e) => d = e
  /\ \A v, w \in Vars : PvSource(v) = w <=> v = w /\ Parent(v) # Root
  /\ \A d \in Dirs : /\ FolderSource(d) \in Items <=> d # Root
                     /\ FolderSource(d) \in Dirs <=> d # Root
                     /\ d # Root => FolderSource(d) = d
  /\ \A v \in Vars : /\ PvSource(v) \in Vars <=> Parent(v) # Root
                     /\ Parent(v) # Root => PvSource(v) = v
<1>1. \A i \in Items : i \in Seq(Word)
  BY ParentOfItem
<1>2. \A i \in Items, p \in Items : Stray(p) # i
  BY <1>1, NoStray
<1>3. Dirs \subseteq Items /\ Vars \subseteq Items /\ Root \in Items
  BY FreshTypes DEF Items
<1>4. \A d, e \in Dirs : FolderSource(d) = e <=> d = e /\ d # Root
  BY <1>2, <1>3 DEF FolderSource
<1>5. \A d, e \in Dirs : FolderSource(d) = FolderSource(e) => d = e
  BY <1>2, <1>3 DEF FolderSource
<1>6. \A v, w \in Vars : PvSource(v) = w <=> v = w /\ Parent(v) # Root
  BY <1>2, <1>3 DEF PvSource
<1>7. ASSUME NEW d \in Dirs
      PROVE  /\ FolderSource(d) \in Items <=> d # Root
             /\ FolderSource(d) \in Dirs <=> d # Root
             /\ d # Root => FolderSource(d) = d
  <2>1. CASE d = Root
    <3>1. \A i \in Items : FolderSource(d) # i
      BY <1>2, <1>3, <2>1 DEF FolderSource
    <3> QED
      BY <1>3, <2>1, <3>1
  <2>2. CASE d # Root
    BY <1>3, <2>2 DEF FolderSource
  <2> QED
    BY <2>1, <2>2
<1>8. ASSUME NEW v \in Vars
      PROVE  /\ PvSource(v) \in Vars <=> Parent(v) # Root
             /\ Parent(v) # Root => PvSource(v) = v
  <2>1. CASE Parent(v) = Root
    <3>1. \A i \in Items : PvSource(v) # i
      BY <1>2, <1>3, <2>1 DEF PvSource
    <3> QED
      BY <1>3, <2>1, <3>1
  <2>2. CASE Parent(v) # Root
    BY <1>3, <2>2 DEF PvSource
  <2> QED
    BY <2>1, <2>2
<1> QED
  BY <1>4, <1>5, <1>6, <1>7, <1>8

(* The exclusions that are read are those that are written, but the root's. *)
LEMMA ExcludesRead ==
  ASSUME NEW its
  PROVE  /\ \A d \in Dirs : [kind |-> "folder", source |-> d] \in Excludes(its)
                              <=> d # Root /\ ExcludeWritten(its, d)
         /\ \A v \in Vars : [kind |-> "variable", source |-> v] \in Excludes(its)
                              <=> ExcludeWritten(its, v)
<1>2. ASSUME NEW d \in Dirs
      PROVE  [kind |-> "folder", source |-> d] \in Excludes(its)
               <=> d # Root /\ ExcludeWritten(its, d)
  <2>1. ASSUME d # Root, ExcludeWritten(its, d)
        PROVE  [kind |-> "folder", source |-> d] \in Excludes(its)
    <3>1. FolderSource(d) = d
      BY <2>1 DEF FolderSource
    <3> QED
      BY <2>1, <3>1 DEF Excludes
  <2>2. ASSUME [kind |-> "folder", source |-> d] \in Excludes(its)
        PROVE  d # Root /\ ExcludeWritten(its, d)
    <3>1. PICK c \in Dirs : /\ ExcludeWritten(its, c)
                            /\ [kind |-> "folder", source |-> d]
                                 = [kind |-> "folder", source |-> FolderSource(c)]
      BY <2>2 DEF Excludes
    <3>2. FolderSource(c) = d
      BY <3>1
    <3> QED
      BY <3>1, <3>2, SourcesDiffer
  <2> QED
    BY <2>1, <2>2
<1>3. ASSUME NEW v \in Vars
      PROVE  [kind |-> "variable", source |-> v] \in Excludes(its)
               <=> ExcludeWritten(its, v)
  BY DEF Excludes
<1> QED
  BY <1>2, <1>3

(* The root and a folder as a fresh generator reads them.                  *)
RootRead(r) ==
  r.history = None /\ r.exclude = "unset" /\ r.newDescription = None /\ ~Moved(r)
FolderRestored(r, its, d) ==
  /\ r.history = OwnHistory(its, d)
  /\ r.exclude = (IF ExcludeWritten(its, d) THEN "yes" ELSE "unset")
  /\ r.newDescription = its[d].newDescription
  /\ ~Moved(its[d]) => ~Moved(r)
  /\ Moved(its[d]) =>
       /\ r.newDestination # None
       /\ r.newDestination = InPlaceToRoot(FolderEntry(its, d)).destination
       /\ (IF Given(r.newName) THEN r.newName ELSE Last(d)) = FolderEntry(its, d).name

(* The destination of an entry that is read.                               *)
LEMMA ReadPlace ==
  ASSUME NEW e \in EntryType
  PROVE  LET o == InPlaceToRoot(e) IN
         /\ o.source = e.source /\ o.history = e.history
         /\ o.description = e.description /\ o.name = e.name
         /\ o.destination = (IF e.destination = Front(e.source) THEN Root
                                                               ELSE e.destination)
         /\ o = [source |-> o.source, history |-> o.history,
                 description |-> o.description, name |-> o.name,
                 destination |-> o.destination]
<1>1. CASE e.destination = Front(e.source)
  BY <1>1 DEF InPlaceToRoot, EntryType
<1>2. CASE e.destination # Front(e.source)
  BY <1>2 DEF InPlaceToRoot, EntryType
<1> QED
  BY <1>1, <1>2

(* A folder that is written and read again is restored.                    *)
LEMMA FolderComesBack ==
  ASSUME NEW its, ItemsSaved(its), NEW f, Saves(f, its), NEW d \in Dirs
  PROVE  LET r == ReadItem(Reset(Fresh.items), d, f) IN
         IF d = Root THEN RootRead(r) ELSE FolderRestored(r, its, d)
<1> DEFINE c == Reset(Fresh.items)[d]
           e == EntryOf(f.folders, d)
           a == ReadFolder(c, d, e)
           b == ReadDescription(a, d, f.described)
           r == ReadExclude(b, d, "folder", f.excludes)
           own1 == FolderEntry(its, d)
           it == its[d]
           listed == d # Root /\ (Moved(it) \/ OwnHistory(its, d) # None)
<1>0. /\ its \in [Items -> ItemType] /\ RootStays(its) /\ d \in Items /\ Root \in Items
      /\ ReadItem(Reset(Fresh.items), d, f) = r
      /\ it \in ItemType
  <2>1. d \in Items
    BY DEF Items
  <2> QED
    BY <2>1, FreshTypes DEF ItemsSaved, ReadItem
<1>1. /\ c \in ItemType /\ c.exclude = "unset" /\ c.history = None
      /\ c.newName = None /\ c.newDestination = None /\ c.newDescription = None
  BY <1>0, BlankItem
<1>2. d = Root => ~Moved(it)
  BY DEF ItemsSaved, RootStays, Moved, Given
<1>3. listed => e = own1 /\ own1 # None /\ own1 \in EntryType
  <2> SUFFICES ASSUME listed PROVE e = own1 /\ own1 # None /\ own1 \in EntryType
    OBVIOUS
  <2>1. own1 \in FolderEntries(its) /\ own1.source = d
    BY DEF FolderEntries, FolderEntry, FolderSource
  <2>2. ASSUME NEW o \in FolderEntries(its), o.source = d PROVE o = own1
    <3>1. PICK x \in Dirs : o = FolderEntry(its, x)
      BY DEF FolderEntries
    <3>2. FolderSource(x) = d
      BY <2>2, <3>1 DEF FolderEntry
    <3> QED
      BY <3>1, <3>2, SourcesDiffer
  <2>3. own1 \in EntryType
    BY <1>0, <2>1, EntryTypes
  <2> HIDE DEF own1
  <2> QED
    BY <2>1, <2>2, <2>3, EntryUnique, EntryIsSome DEF Saves
<1>4. ~listed => e = None
  <2> SUFFICES ASSUME ~listed PROVE \A o \in FolderEntries(its) : o.source # d
    BY EntryMissing DEF Saves
  <2> SUFFICES ASSUME NEW x \in Dirs, Moved(its[x]) \/ OwnHistory(its, x) # None,
                      FolderSource(x) = d
               PROVE  FALSE
    BY DEF FolderEntries, FolderEntry
  <2> QED
    BY SourcesDiffer
<1>5. /\ own1.history = OwnHistory(its, d)
      /\ own1.description = (IF Moved(it) THEN it.newDescription ELSE None)
      /\ own1.name = IF Given(it.newName) THEN it.newName
                     ELSE IF it.newDestination # None /\ d # Root THEN Last(d)
                     ELSE None
      /\ own1.destination = IF it.newDestination # None THEN it.newDestination
                            ELSE IF Given(it.newName) THEN Parent(d)
                            ELSE None
  BY DEF FolderEntry
<1>6. /\ Root \in Dirs /\ Root # None /\ \A t : Or(t, None) = t
      /\ d # Root => Parent(d) \in Dirs /\ Parent(d) # None /\ Last(d) # None
      /\ it.newDestination \in Dirs \cup {None}
  <2>1. \A x \in Dirs : x # None
    BY TreeAssumption, NoneAssumption
  <2>2. d # Root => Parent(d) \in Dirs /\ Last(d) \in Word
    BY <1>0, ParentOfItem
  <2> QED
    BY <1>0, <2>1, <2>2, FreshTypes, NoneAssumption DEF ItemType, Or
<1>7. a \in ItemType
  BY <1>1, <1>3, <1>4, ReadFolderType
<1> HIDE DEF c, own1, it
<1>8. /\ a.exclude = "unset"
      /\ a.history = IF d = Root THEN None ELSE OwnHistory(its, d)
  <2>1. CASE listed
    BY <1>1, <1>3, <1>5, <1>6, <2>1, FolderFields
  <2>2. CASE ~listed
    <3>1. d # Root => OwnHistory(its, d) = None
      BY <2>2
    <3> QED
      BY <1>1, <1>4, <2>2, <3>1 DEF ReadFolder
  <2> QED
    BY <2>1, <2>2
<1>9. CASE ~Moved(it)
  <2>1. ~Given(it.newName) /\ it.newDestination = None
    BY <1>9 DEF Moved
  <2>2. SamePlace(a, c)
    <3>1. CASE listed
      <4>1. own1.name = None /\ own1.destination = None /\ own1.description = None
        BY <1>5, <1>9, <2>1
      <4> QED
        BY <1>1, <1>3, <3>1, <4>1, FolderFields
    <3>2. CASE ~listed
      BY <1>4, <3>2 DEF ReadFolder, SamePlace
    <3> QED
      BY <3>1, <3>2
  <2>3. a.newName = None /\ a.newDestination = None /\ a.newDescription = None
    BY <1>1, <2>2 DEF SamePlace
  <2> HIDE DEF a
  <2>4. b.newDescription = IF d = Root THEN None ELSE it.newDescription
    <3>1. f.described = Described(its)
      BY DEF Saves
    <3>2. \A o \in f.described : o.folder = d => o.description = it.newDescription
      BY <3>1, SourcesDiffer DEF Described, it
    <3>3. CASE d # Root /\ it.newDescription # None
      <4>1. d # Root
        BY <3>3
      <4> DEFINE o == [folder |-> FolderSource(d), description |-> it.newDescription]
      <4>2. o \in f.described
        BY <1>9, <3>1, <3>3 DEF Described, it
      <4>3. o.folder = d
        BY <4>1 DEF FolderSource
      <4>4. o.description = it.newDescription
        OBVIOUS
      <4> HIDE DEF o
      <4>5. ReadDescription(a, d, f.described).newDescription = o.description
        BY <1>7, <3>2, <4>2, <4>3, <4>4, DescriptionField
      <4> QED
        BY <3>3, <4>4, <4>5
    <3>4. CASE d = Root \/ it.newDescription = None
      <4>1. \A o \in f.described : o.folder # d
        BY <3>1, <3>4, SourcesDiffer DEF Described, it
      <4>2. ReadDescription(a, d, f.described) = a
        BY <4>1, DescriptionKept
      <4> QED
        BY <2>3, <3>4, <4>2
    <3> QED
      BY <3>3, <3>4
  <2>5. b \in ItemType /\ b.exclude = a.exclude /\ b.history = a.history
        /\ b.newName = a.newName /\ b.newDestination = a.newDestination
    <3>1. \A o \in f.described : o.description \in Text
      BY <1>0, EntryTypes DEF Saves
    <3> QED
      BY <1>7, <3>1, ReadDescriptionType
  <2> HIDE DEF b
  <2>6. /\ r.history = b.history /\ r.newName = b.newName
        /\ r.newDestination = b.newDestination /\ r.newDescription = b.newDescription
    BY <2>5, ReadExcludeType
  <2>7. r.exclude = (IF d # Root /\ ExcludeWritten(its, d) THEN "yes" ELSE "unset")
    <3>1. f.excludes = Excludes(its)
      BY DEF Saves
    <3>2. [kind |-> "folder", source |-> d] \in f.excludes
            <=> d # Root /\ ExcludeWritten(its, d)
      BY <3>1, ExcludesRead
    <3>3. [b EXCEPT !.exclude = "yes"].exclude = "yes"
      BY <2>5 DEF ItemType
    <3> QED
      BY <1>8, <2>5, <3>2, <3>3 DEF ReadExclude
  <2> HIDE DEF r
  <2> QED
    BY <1>0, <1>8, <1>9, <2>3, <2>4, <2>5, <2>6, <2>7
    DEF FolderRestored, RootRead, Moved, Given, it
<1>10. CASE Moved(it)
  <2>1. d # Root /\ listed /\ e = own1 /\ own1 # None
    BY <1>2, <1>3, <1>10
  <2>2. /\ own1.name # None /\ own1.destination # None
        /\ own1.name = Last(d) \/ Given(own1.name)
    BY <1>5, <1>6, <1>10, <2>1 DEF Moved, Given
  <2>3. /\ a.newDescription = own1.description
        /\ a.newName = (IF own1.name = Last(d) THEN None ELSE own1.name)
        /\ a.newDestination = (IF own1.destination \notin {None, Root, Parent(d)}
                                 THEN own1.destination ELSE Root)
    BY <1>1, <1>6, <2>1, <2>2, FolderFields
  <2>4. InPlaceToRoot(own1).destination
          = (IF own1.destination = Parent(d) THEN Root ELSE own1.destination)
    <3>1. own1 \in EntryType /\ own1.source = d
      BY <1>3, <2>1 DEF own1, FolderEntry, FolderSource
    <3> QED
      BY <3>1, ReadPlace DEF Parent
  <2>5. a.newDestination = InPlaceToRoot(own1).destination /\ a.newDestination # None
    BY <1>6, <2>2, <2>3, <2>4
  <2>6. (IF Given(a.newName) THEN a.newName ELSE Last(d)) = own1.name
    BY <2>2, <2>3 DEF Given
  <2>7. a.newDescription = it.newDescription
    BY <1>5, <1>10, <2>3
  <2> HIDE DEF a
  <2>8. b \in ItemType /\ b.exclude = a.exclude /\ b.history = a.history
        /\ b.newName = a.newName /\ b.newDestination = a.newDestination
        /\ b.newDescription = a.newDescription
    <3>2. \A o \in f.described : o.folder # d
      BY <1>10, SourcesDiffer DEF Saves, Described, it
    <3>3. ReadDescription(a, d, f.described) = a
      BY <3>2, DescriptionKept
    <3> QED
      BY <1>7, <3>3
  <2> HIDE DEF b
  <2>9. /\ r.history = b.history /\ r.newName = b.newName
        /\ r.newDestination = b.newDestination /\ r.newDescription = b.newDescription
    BY <2>8, ReadExcludeType
  <2>10. r.exclude = (IF d # Root /\ ExcludeWritten(its, d) THEN "yes" ELSE "unset")
    <3>1. f.excludes = Excludes(its)
      BY DEF Saves
    <3>2. [kind |-> "folder", source |-> d] \in f.excludes
            <=> d # Root /\ ExcludeWritten(its, d)
      BY <3>1, ExcludesRead
    <3>3. [b EXCEPT !.exclude = "yes"].exclude = "yes"
      BY <2>8 DEF ItemType
    <3> QED
      BY <1>8, <2>8, <3>2, <3>3 DEF ReadExclude
  <2> HIDE DEF r
  <2> QED
    BY <1>0, <1>8, <1>10, <2>1, <2>5, <2>6, <2>7, <2>8, <2>9, <2>10
    DEF FolderRestored, it, own1
<1> QED
  BY <1>9, <1>10

(* A variable as a fresh generator reads it: it writes the same entry.     *)
PvRestored(r, its, v) ==
  /\ r.history = OwnHistory(its, v)
  /\ r.exclude = (IF ExcludeWritten(its, v) THEN "yes" ELSE "unset")
  /\ r.newDescription = its[v].newDescription
  /\ Moved(r) <=> Moved(its[v])
  /\ (IF Given(r.newName) THEN r.newName
      ELSE IF r.newDestination = Root THEN Last(v) ELSE None) = PvEntry(its, v).name
  /\ (IF r.newDestination = Root THEN None ELSE r.newDestination)
       = PvEntry(its, v).destination

(* One directly in the root is read as if the file said nothing but that   *)
(* it is excluded.                                                         *)
RootPvRead(r, its, v) ==
  /\ r.history = None /\ r.newDescription = None /\ ~Moved(r)
  /\ r.exclude = (IF ExcludeWritten(its, v) THEN "yes" ELSE "unset")

(* So is a variable.                                                       *)
LEMMA PvComesBack ==
  ASSUME NEW its, ItemsSaved(its), NEW f, Saves(f, its), NEW v \in Vars
  PROVE  LET r == ReadItem(Reset(Fresh.items), v, f) IN
         IF Parent(v) = Root THEN RootPvRead(r, its, v) ELSE PvRestored(r, its, v)
<1> DEFINE c == Reset(Fresh.items)[v]
           e == EntryOf(f.pvs, v)
           a == ReadPv(c, v, e)
           r == ReadExclude(a, v, "variable", f.excludes)
           own1 == PvEntry(its, v)
           it == its[v]
           listed == /\ Parent(v) # Root
                     /\ \/ Moved(it) \/ it.newDescription # None
                        \/ OwnHistory(its, v) # None
<1>0. /\ its \in [Items -> ItemType] /\ RootStays(its) /\ v \in Items /\ v # Root
      /\ ReadItem(Reset(Fresh.items), v, f) = r
      /\ it \in ItemType
  <2>1. v \in Items /\ v \notin Dirs /\ Root \in Dirs
    BY TreeAssumption DEF Items, Root
  <2> QED
    BY <2>1 DEF ItemsSaved, ReadItem
<1>1. /\ c \in ItemType /\ c.exclude = "unset" /\ c.history = None
      /\ c.newName = None /\ c.newDestination = None /\ c.newDescription = None
  BY <1>0, BlankItem
<1>3. listed => e = own1 /\ own1 # None /\ own1 \in EntryType
  <2> SUFFICES ASSUME listed PROVE e = own1 /\ own1 # None /\ own1 \in EntryType
    OBVIOUS
  <2>1. own1 \in PvEntries(its) /\ own1.source = v
    BY DEF PvEntries, PvEntry, PvSource
  <2>2. ASSUME NEW o \in PvEntries(its), o.source = v PROVE o = own1
    <3>1. PICK x \in Vars : o = PvEntry(its, x)
      BY DEF PvEntries
    <3>2. PvSource(x) = v
      BY <2>2, <3>1 DEF PvEntry
    <3> QED
      BY <3>1, <3>2, SourcesDiffer
  <2>3. own1 \in EntryType
    BY <1>0, <2>1, EntryTypes
  <2> HIDE DEF own1
  <2> QED
    BY <2>1, <2>2, <2>3, EntryUnique, EntryIsSome DEF Saves
<1>4. ~listed => e = None
  <2> SUFFICES ASSUME ~listed PROVE \A o \in PvEntries(its) : o.source # v
    BY EntryMissing DEF Saves
  <2> SUFFICES ASSUME NEW x \in Vars, \/ Moved(its[x]) \/ its[x].newDescription # None
                                      \/ OwnHistory(its, x) # None,
                      PvSource(x) = v
               PROVE  FALSE
    BY DEF PvEntries, PvEntry
  <2> QED
    BY SourcesDiffer
<1>5. /\ own1.history = OwnHistory(its, v)
      /\ own1.description = it.newDescription
      /\ own1.name = IF Given(it.newName) THEN it.newName
                     ELSE IF it.newDestination = Root THEN Last(v) ELSE None
      /\ own1.destination = IF it.newDestination = Root THEN None
                                                        ELSE it.newDestination
  BY DEF PvEntry
<1>6. Root # None /\ Last(v) # None /\ \A t : Or(t, None) = t
  <2>1. Root \in Dirs /\ Last(v) \in Word
    BY <1>0, ParentOfItem, FreshTypes
  <2> QED
    BY <2>1, TreeAssumption, NoneAssumption DEF Or
<1> HIDE DEF c, own1, it
<1>7. /\ a \in ItemType /\ a.exclude = "unset"
      /\ Parent(v) = Root => a = c
      /\ Parent(v) # Root =>
           /\ a.history = OwnHistory(its, v)
           /\ a.newDescription = it.newDescription
           /\ a.newName = (IF own1.destination = None /\ own1.name = Last(v)
                             THEN None ELSE own1.name)
           /\ a.newDestination = (IF own1.destination = None /\ own1.name = Last(v)
                                    THEN Root ELSE own1.destination)
  <2>1. CASE listed
    <3>1. a \in ItemType
      BY <1>1, <1>3, <2>1, ReadPvType
    <3> QED
      BY <1>1, <1>3, <1>5, <1>6, <2>1, <3>1, PvFields
  <2>2. CASE ~listed
    <3>1. a = c
      BY <1>4, <2>2 DEF ReadPv
    <3>2. Parent(v) # Root => ~Given(it.newName) /\ it.newDestination = None
      BY <2>2 DEF Moved
    <3>3. Parent(v) # Root => own1.name = None /\ own1.destination = None
      BY <1>5, <1>6, <3>2
    <3> QED
      BY <1>1, <1>6, <2>2, <3>1, <3>3
  <2> QED
    BY <2>1, <2>2
<1> HIDE DEF a
<1>8. Parent(v) # Root => (Moved(a) <=> Moved(it))
  BY <1>5, <1>6, <1>7 DEF Moved, Given
<1>9. Parent(v) # Root =>
        /\ (IF Given(a.newName) THEN a.newName
            ELSE IF a.newDestination = Root THEN Last(v) ELSE None) = own1.name
        /\ (IF a.newDestination = Root THEN None ELSE a.newDestination)
             = own1.destination
  BY <1>5, <1>6, <1>7 DEF Given
<1>10. /\ r.history = a.history /\ r.newName = a.newName
       /\ r.newDestination = a.newDestination /\ r.newDescription = a.newDescription
  BY <1>7, ReadExcludeType
<1>11. r.exclude = (IF ExcludeWritten(its, v) THEN "yes" ELSE "unset")
  <2>1. f.excludes = Excludes(its)
    BY DEF Saves
  <2>2. [kind |-> "variable", source |-> v] \in f.excludes <=> ExcludeWritten(its, v)
    BY <2>1, ExcludesRead
  <2>3. [a EXCEPT !.exclude = "yes"].exclude = "yes"
    BY <1>7 DEF ItemType
  <2> QED
    BY <1>7, <2>2, <2>3 DEF ReadExclude
<1>12. Moved(r) <=> Moved(a)
  BY <1>10 DEF Moved
<1> HIDE DEF r
<1>13. CASE Parent(v) = Root
  <2>1. ~Moved(a) /\ a.history = None /\ a.newDescription = None
    BY <1>1, <1>7, <1>13 DEF Moved, Given
  <2> QED
    BY <1>0, <1>10, <1>11, <1>12, <1>13, <2>1 DEF RootPvRead
<1>14. CASE Parent(v) # Root
  BY <1>0, <1>7, <1>8, <1>9, <1>10, <1>11, <1>12, <1>14 DEF PvRestored, own1, it
<1> QED
  BY <1>13, <1>14

(* All items as a fresh generator reads them: what is written again is     *)
(* what can be read again of the file.                                     *)
LEMMA TreeComesBack ==
  ASSUME NEW its, ItemsSaved(its), NEW f, Saves(f, its)
  PROVE  Saves(ReadAgain(f), ReadItems(Fresh.items, f))
<1> DEFINE R == ReadItems(Fresh.items, f)
<1>0. /\ Items = Dirs \cup Vars
      /\ \A i \in Items : i # Root => Parent(i) \in Items
      /\ \A d \in Dirs : Named(d) <=> d # Root
      /\ \A v \in Vars : v # Root /\ (Named(v) <=> Parent(v) # Root)
  <2>1. Items = Dirs \cup Vars /\ \A i \in Items : i # Root => Parent(i) \in Items
    BY ParentOfItem DEF Items
  <2>2. Dirs \cap Vars = {} /\ Root \in Dirs
    BY TreeAssumption DEF Root
  <2> QED
    BY <2>1, <2>2 DEF Named
<1>1. /\ \A d \in Dirs : IF d = Root THEN RootRead(R[d]) ELSE FolderRestored(R[d], its, d)
      /\ \A v \in Vars : IF Parent(v) = Root THEN RootPvRead(R[v], its, v)
                                             ELSE PvRestored(R[v], its, v)
  BY <1>0, FolderComesBack, PvComesBack DEF ReadItems
<1> HIDE DEF R
<1>2. \A i \in Items :
        /\ R[i].history = (IF Named(i) THEN OwnHistory(its, i) ELSE None)
        /\ R[i].exclude = (IF i # Root /\ ExcludeWritten(its, i) THEN "yes" ELSE "unset")
        /\ R[i].newDescription = (IF Named(i) THEN its[i].newDescription ELSE None)
        /\ Moved(R[i]) <=> Named(i) /\ Moved(its[i])
  <2>1. ASSUME NEW d \in Dirs
        PROVE  /\ R[d].history = (IF Named(d) THEN OwnHistory(its, d) ELSE None)
               /\ R[d].exclude = (IF d # Root /\ ExcludeWritten(its, d) THEN "yes" ELSE "unset")
               /\ R[d].newDescription = (IF Named(d) THEN its[d].newDescription ELSE None)
               /\ Moved(R[d]) <=> Named(d) /\ Moved(its[d])
    <3>1. CASE d = Root
      <4>1. RootRead(R[d]) /\ ~Named(d)
        BY <1>0, <1>1, <3>1
      <4> QED
        BY <3>1, <4>1 DEF RootRead
    <3>2. CASE d # Root
      <4>1. FolderRestored(R[d], its, d) /\ Named(d)
        BY <1>0, <1>1, <3>2
      <4>2. Moved(its[d]) => Moved(R[d])
        BY <4>1 DEF FolderRestored, Moved
      <4> QED
        BY <3>2, <4>1, <4>2 DEF FolderRestored
    <3> QED
      BY <3>1, <3>2
  <2>2. ASSUME NEW v \in Vars
        PROVE  /\ R[v].history = (IF Named(v) THEN OwnHistory(its, v) ELSE None)
               /\ R[v].exclude = (IF v # Root /\ ExcludeWritten(its, v) THEN "yes" ELSE "unset")
               /\ R[v].newDescription = (IF Named(v) THEN its[v].newDescription ELSE None)
               /\ Moved(R[v]) <=> Named(v) /\ Moved(its[v])
    <3>1. CASE Parent(v) = Root
      <4>1. RootPvRead(R[v], its, v) /\ ~Named(v) /\ v # Root
        BY <1>0, <1>1, <3>1
      <4> QED
        BY <4>1 DEF RootPvRead
    <3>2. CASE Parent(v) # Root
      <4>1. PvRestored(R[v], its, v) /\ Named(v) /\ v # Root
        BY <1>0, <1>1, <3>2
      <4> QED
        BY <4>1 DEF PvRestored
    <3> QED
      BY <3>1, <3>2
  <2> QED
    BY <1>0, <2>1, <2>2
<1>3. \A i \in Items : OwnHistory(R, i) = (IF Named(i) THEN OwnHistory(its, i) ELSE None)
  <2> SUFFICES ASSUME NEW i \in Items
               PROVE  OwnHistory(R, i) = (IF Named(i) THEN OwnHistory(its, i) ELSE None)
    OBVIOUS
  <2>1. CASE HistorizingActive(R, i)
    <3>1. /\ i # Root /\ R[Parent(i)].history # None /\ Parent(i) \in Items
      BY <1>0, <2>1 DEF HistorizingActive
    <3>2. i # Root /\ OwnHistory(its, Parent(i)) # None
      BY <1>2, <3>1
    <3>3. HistorizingActive(its, i)
      BY <3>2 DEF HistorizingActive, OwnHistory
    <3> QED
      BY <2>1, <3>3 DEF OwnHistory
  <2>2. CASE ~HistorizingActive(R, i)
    <3>1. OwnHistory(R, i) = R[i].history
      BY <2>2 DEF OwnHistory
    <3> QED
      BY <1>2, <3>1
  <2> QED
    BY <2>1, <2>2
<1>4. \A i \in Items : ExcludeWritten(R, i) <=> i # Root /\ ExcludeWritten(its, i)
  <2> SUFFICES ASSUME NEW i \in Items
               PROVE  ExcludeWritten(R, i) <=> i # Root /\ ExcludeWritten(its, i)
    OBVIOUS
  <2>1. R[i].exclude = "yes" <=> i # Root /\ ExcludeWritten(its, i)
    BY <1>2
  <2>2. ExcludeActive(R, i) => ExcludeActive(its, i)
    <3> SUFFICES ASSUME ExcludeActive(R, i) PROVE ExcludeActive(its, i)
      OBVIOUS
    <3>1. i # Root /\ ExcludeWritten(its, Parent(i))
      BY <1>0, <1>2 DEF ExcludeActive
    <3> QED
      BY <3>1 DEF ExcludeActive, ExcludeWritten
  <2> QED
    BY <2>1, <2>2 DEF ExcludeWritten
<1> DEFINE Listed(e) == Moved(its[e]) \/ OwnHistory(its, e) # None
<1>5. ASSUME NEW d \in Dirs, d # Root, Listed(d)
      PROVE  FolderEntry(R, d) = InPlaceToRoot(FolderEntry(its, d))
  <2>0. d \in Items /\ Named(d) /\ FolderSource(d) = d
    BY <1>0, <1>5, SourcesDiffer
  <2>1. FolderRestored(R[d], its, d)
    BY <1>1, <1>5
  <2> DEFINE x == FolderEntry(R, d)
             z == FolderEntry(its, d)
             y == InPlaceToRoot(z)
  <2>2. z \in EntryType /\ z.source = d /\ x.source = d /\ x.history = z.history
    <3>1. FolderEntries(its) \subseteq EntryType
      BY EntryTypes DEF ItemsSaved
    <3>2. z \in FolderEntries(its)
      BY <1>5 DEF FolderEntries
    <3> QED
      BY <1>3, <2>0, <3>1, <3>2 DEF FolderEntry
  <2>3. x.description = z.description
    BY <1>2, <2>0 DEF FolderEntry
  <2>4. x.name = z.name /\ x.destination = y.destination
    <3>1. CASE Moved(its[d])
      <4>1. /\ R[d].newDestination # None
            /\ R[d].newDestination = y.destination
            /\ (IF Given(R[d].newName) THEN R[d].newName ELSE Last(d)) = z.name
        BY <2>1, <3>1 DEF FolderRestored
      <4>2. x.destination = R[d].newDestination
            /\ x.name = (IF Given(R[d].newName) THEN R[d].newName ELSE Last(d))
        BY <1>5, <4>1 DEF FolderEntry
      <4> QED
        BY <4>1, <4>2
    <3>2. CASE ~Moved(its[d])
      <4>1. ~Moved(R[d])
        BY <1>2, <2>0, <3>2
      <4>2. x.name = z.name /\ x.destination = None /\ z.destination = None
        BY <3>2, <4>1 DEF FolderEntry, Moved
      <4>3. Front(d) # None
        <5>1. Parent(d) \in Dirs
          BY <1>5, <2>0, ParentOfItem
        <5> QED
          BY <5>1, TreeAssumption, NoneAssumption DEF Parent
      <4>4. y.destination = z.destination
        <5>1. z.destination # Front(z.source)
          BY <2>2, <4>2, <4>3
        <5> HIDE DEF z
        <5> QED
          BY <5>1 DEF InPlaceToRoot
      <4> QED
        BY <4>2, <4>4
    <3> QED
      BY <3>1, <3>2
  <2>5. x = [source |-> x.source, history |-> x.history,
             description |-> x.description, name |-> x.name,
             destination |-> x.destination]
    BY DEF FolderEntry
  <2> HIDE DEF x, z
  <2>6. /\ y.source = z.source /\ y.history = z.history
        /\ y.description = z.description /\ y.name = z.name
        /\ y = [source |-> y.source, history |-> y.history,
                description |-> y.description, name |-> y.name,
                destination |-> y.destination]
    BY <2>2, ReadPlace
  <2> HIDE DEF y
  <2>7. x = y
    BY <2>2, <2>3, <2>4, <2>5, <2>6
  <2> QED
    BY <2>7 DEF x, y, z
<1>6. ASSUME NEW v \in Vars, Parent(v) # Root
      PROVE  PvEntry(R, v) = PvEntry(its, v)
  <2>0. v \in Items /\ Named(v)
    BY <1>0, <1>6
  <2>1. PvRestored(R[v], its, v)
    BY <1>1, <1>6
  <2> DEFINE x == PvEntry(R, v)
             y == PvEntry(its, v)
  <2>2. x.source = y.source /\ x.history = y.history
    BY <1>3, <2>0 DEF PvEntry
  <2>3. x.description = y.description
    BY <1>2, <2>0 DEF PvEntry
  <2>4. x.name = y.name /\ x.destination = y.destination
    <3>1. x.name = (IF Given(R[v].newName) THEN R[v].newName
                    ELSE IF R[v].newDestination = Root THEN Last(v) ELSE None)
          /\ x.destination = (IF R[v].newDestination = Root THEN None
                                                   ELSE R[v].newDestination)
      BY DEF PvEntry
    <3> QED
      BY <2>1, <3>1 DEF PvRestored
  <2>5. /\ x = [source |-> x.source, history |-> x.history,
                description |-> x.description, name |-> x.name,
                destination |-> x.destination]
        /\ y = [source |-> y.source, history |-> y.history,
                description |-> y.description, name |-> y.name,
                destination |-> y.destination]
    BY DEF PvEntry
  <2> HIDE DEF x, y
  <2>6. x = y
    BY <2>2, <2>3, <2>4, <2>5
  <2> QED
    BY <2>6 DEF x, y
<1>7. FolderEntries(R) = {InPlaceToRoot(e) : e \in {o \in f.folders : o.source \in Dirs}}
  <2> DEFINE found == {o \in f.folders : o.source \in Dirs}
  <2>1. \A d \in Dirs : Moved(R[d]) \/ OwnHistory(R, d) # None <=> d # Root /\ Listed(d)
    BY <1>0, <1>2, <1>3
  <2>2. \A e : e \in found <=> \E d \in Dirs : d # Root /\ Listed(d) /\ e = FolderEntry(its, d)
    <3>1. \A d \in Dirs : FolderEntry(its, d).source \in Dirs <=> d # Root
      BY SourcesDiffer DEF FolderEntry
    <3>2. \A e : e \in f.folders <=> \E d \in Dirs : Listed(d) /\ e = FolderEntry(its, d)
      BY DEF Saves, FolderEntries
    <3> HIDE DEF Listed
    <3> QED
      BY <3>1, <3>2
  <2>3. \A e : e \in FolderEntries(R) <=>
               \E d \in Dirs : d # Root /\ Listed(d) /\ e = FolderEntry(R, d)
    BY <2>1 DEF FolderEntries
  <2> HIDE DEF found, Listed
  <2>4. \A e : e \in FolderEntries(R) <=> \E o \in found : e = InPlaceToRoot(o)
    BY <1>5, <2>2, <2>3
  <2>5. FolderEntries(R) = {InPlaceToRoot(e) : e \in found}
    BY <2>4
  <2> QED
    BY <2>5 DEF found
<1> HIDE DEF Listed
<1>8. Described(R) = {e \in f.described : e.folder \in Dirs}
  <2>1. \A d \in Dirs : R[d].newDescription # None /\ ~Moved(R[d])
          <=> d # Root /\ its[d].newDescription # None /\ ~Moved(its[d])
    BY <1>0, <1>2
  <2>2. \A d \in Dirs : d # Root => R[d].newDescription = its[d].newDescription
    BY <1>0, <1>2
  <2> DEFINE E(jts, d) == [folder |-> FolderSource(d),
                           description |-> jts[d].newDescription]
  <2>3. \A d \in Dirs : d # Root => E(R, d) = E(its, d)
    BY <2>2
  <2>4. \A d \in Dirs : E(its, d).folder \in Dirs <=> d # Root
    BY SourcesDiffer
  <2>5. \A e : e \in Described(R) <=>
          \E d \in Dirs : R[d].newDescription # None /\ ~Moved(R[d]) /\ e = E(R, d)
    BY DEF Described
  <2>6. \A e : e \in f.described <=>
          \E d \in Dirs : its[d].newDescription # None /\ ~Moved(its[d]) /\ e = E(its, d)
    BY DEF Described, Saves
  <2> HIDE DEF E
  <2>7. \A e : e \in Described(R) <=> e \in f.described /\ e.folder \in Dirs
    BY <2>1, <2>3, <2>4, <2>5, <2>6
  <2> QED
    BY <2>7
<1>9. PvEntries(R) = {e \in f.pvs : e.source \in Vars}
  <2> DEFINE Lists(jts, w) == Moved(jts[w]) \/ jts[w].newDescription # None
                                            \/ OwnHistory(jts, w) # None
  <2>1. \A w \in Vars : Lists(R, w) <=> Parent(w) # Root /\ Lists(its, w)
    BY <1>0, <1>2, <1>3
  <2>2. \A e : e \in PvEntries(R) <=> \E w \in Vars : Lists(R, w) /\ e = PvEntry(R, w)
    BY DEF PvEntries
  <2>3. \A e : e \in f.pvs <=> \E w \in Vars : Lists(its, w) /\ e = PvEntry(its, w)
    BY DEF PvEntries, Saves
  <2>4. \A w \in Vars : PvEntry(its, w).source \in Vars <=> Parent(w) # Root
    BY SourcesDiffer DEF PvEntry
  <2> HIDE DEF Lists
  <2>5. \A e : e \in PvEntries(R) <=> e \in f.pvs /\ e.source \in Vars
    BY <1>6, <2>1, <2>2, <2>3, <2>4
  <2> QED
    BY <2>5
<1>10. Excludes(R) = {e \in f.excludes : e.source \in Items}
  <2> DEFINE D(d) == [kind |-> "folder", source |-> FolderSource(d)]
             V(w) == [kind |-> "variable", source |-> w]
  <2>1. \A e : e \in Excludes(R) <=>
          \/ \E d \in Dirs : ExcludeWritten(R, d) /\ e = D(d)
          \/ \E w \in Vars : ExcludeWritten(R, w) /\ e = V(w)
    BY DEF Excludes
  <2>2. \A e : e \in f.excludes <=>
          \/ \E d \in Dirs : ExcludeWritten(its, d) /\ e = D(d)
          \/ \E w \in Vars : ExcludeWritten(its, w) /\ e = V(w)
    BY DEF Excludes, Saves
  <2>3. /\ \A d \in Dirs : D(d).source \in Items <=> d # Root
        /\ \A w \in Vars : V(w).source \in Items /\ w # Root
    BY <1>0, SourcesDiffer
  <2> HIDE DEF D, V
  <2>4. \A e : e \in Excludes(R) <=> e \in f.excludes /\ e.source \in Items
    BY <1>0, <1>4, <2>1, <2>2, <2>3
  <2> QED
    BY <2>4
<1> QED
  BY <1>7, <1>8, <1>9, <1>10 DEF Saves, ReadAgain, R

(* What a generator writes, a fresh generator writes again, but for what   *)
(* cannot be read again.                                                   *)
LEMMA GeneratorComesBack ==
  ASSUME NEW gen \in Generators, ConfigComplete(gen.config)
  PROVE  LET f == MapFileOf(gen) IN MapFileOf(ParseMapFile(Fresh, f)) = ReadAgain(f)
<1> DEFINE f == MapFileOf(gen)
           p == ParseMapFile(Fresh, f)
           g == MapFileOf(p)
           h == ReadAgain(f)
<1>1. /\ ItemsSaved(gen.items) /\ gen.config \in ConfigType
  BY DEF Generators, ItemsSaved
<1>2. /\ f.config = CreateConfig(gen.config) /\ f.settings = gen.settings
      /\ Saves(f, gen.items)
  BY DEF MapFileOf, Saves
<1>3. /\ p.items = ReadItems(Fresh.items, f)
      /\ p.config = ReadConfig(FreshConfig, f.config)
      /\ p.settings = f.settings
  BY DEF ParseMapFile, Fresh
<1>4. /\ g.config = CreateConfig(p.config) /\ g.settings = p.settings
      /\ g.folders = FolderEntries(p.items) /\ g.described = Described(p.items)
      /\ g.pvs = PvEntries(p.items) /\ g.excludes = Excludes(p.items)
      /\ g = [config |-> g.config, settings |-> g.settings, folders |-> g.folders,
              described |-> g.described, pvs |-> g.pvs, excludes |-> g.excludes]
  BY DEF MapFileOf
<1> HIDE DEF f, p, g
<1>5. /\ h.config = (IF f.config.folder = None THEN [f.config EXCEPT !.about = ""]
                                               ELSE f.config)
      /\ h.settings = f.settings
      /\ h = [config |-> h.config, settings |-> h.settings, folders |-> h.folders,
              described |-> h.described, pvs |-> h.pvs, excludes |-> h.excludes]
  BY DEF ReadAgain
<1> HIDE DEF h
<1>6. Saves(h, p.items)
  BY <1>1, <1>2, <1>3, TreeComesBack DEF h
<1>7. g.config = h.config
  <2> DEFINE k == CreateConfig(gen.config)
  <2>1. CreateConfig(ReadConfig(FreshConfig, k))
          = IF k.folder = None THEN [k EXCEPT !.about = ""] ELSE k
    BY <1>1, ConfigRestored
  <2>2. k = f.config /\ g.config = CreateConfig(ReadConfig(FreshConfig, k))
    BY <1>2, <1>3, <1>4
  <2> HIDE DEF k
  <2> QED
    BY <1>5, <2>1, <2>2
<1>8. g = h
  BY <1>3, <1>4, <1>5, <1>6, <1>7 DEF Saves
<1> QED
  BY <1>8 DEF f, p, g, h

-----------------------------------------------------------------------------
(* The theorems.                                                           *)

(* The invariant holds at the start, and every slot keeps it.              *)
LEMMA EditorInit == Init => EditorIInv
BY TypesInit, DefinedInit, NestInit, ChecksInit, ShownInit DEF EditorIInv

(* Every action keeps it.                                                  *)
LEMMA EditorNext == EditorIInv /\ [Next]_vars => EditorIInv'
BY TypesNext, DefinedNext, NestNext, ChecksNext, ShownNext DEF EditorIInv

(* In every session the generator, the window and the saved file stay in   *)
(* step: what they hold is of its type, the file is one that a generator   *)
(* wrote, every history that an item, a row or the file refers to is a     *)
(* setting beside it, a row offers what the row above offers, and the      *)
(* check boxes and combo boxes show what is set on the items.              *)
THEOREM EditorInvariant == Spec => []EditorIInv
<1>1. Init => EditorIInv
  BY EditorInit
<1>2. EditorIInv /\ [Next]_vars => EditorIInv'
  BY EditorNext
<1> QED
  BY <1>1, <1>2, PTL DEF Spec

(* Saved at any time, the file gives every variable below a folder exactly *)
(* the history its row shows (switching, the switch for inputs, loading).  *)
THEOREM HistoryAlwaysServedAsShown == Spec => []HistoryServedAsShown
<1>1. EditorIInv => HistoryServedAsShown
  BY HistoryFollows DEF EditorIInv, TypeIInv
<1> QED
  BY <1>1, EditorInvariant, PTL

(* Every history a saved file refers to is defined in that file, unless a  *)
(* setting was renamed (addHistorySetting, loadMapFile, openFile).         *)
THEOREM SavedHistoriesAlwaysDefined == Spec => []SavedHistoriesDefined
<1>1. EditorIInv => SavedHistoriesDefined
  <2> SUFFICES ASSUME EditorIInv, ~renamed
               PROVE  HistoriesOf(MapFileOf(Generator)) \subseteq Generator.settings
    BY DEF SavedHistoriesDefined
  <2>1. \A i \in Items :
          Generator.items[i].history \in Generator.settings \cup {None}
    BY DEF EditorIInv, Defined, HistoriesDefined, Generator
  <2> HIDE DEF Generator
  <2> QED
    BY <2>1, SavedHistories
<1> QED
  BY <1>1, EditorInvariant, PTL

(* Saved at any time, the file leaves out only variables that are shown as *)
(* checked or are below a checked folder, and every variable whose box is  *)
(* checked unless the root is checked too or a folder above it was checked *)
(* and unchecked (_mapItem, _mapDirectory, generateMapEntries).            *)
THEOREM ExclusionsAlwaysSavedAsShown == Spec => []ExclusionsSavedAsShown
<1>1. EditorIInv => ExclusionsSavedAsShown
  BY ExclusionsFollow DEF EditorIInv, TypeIInv
<1> QED
  BY <1>1, EditorInvariant, PTL

(* A file saved at any time, whatever was edited, read into a fresh        *)
(* generator and saved again is the same file but for what ReadAgain names *)
(* (save, parseMapFile): entries of the root and of variables directly in  *)
(* it are lost, nested folders renamed where they are come back in the     *)
(* root, and a description needs a root folder.                            *)
THEOREM SavedAlwaysLoaded == Spec => []SavedIsLoaded
<1>1. EditorIInv => SavedIsLoaded
  <2> SUFFICES ASSUME EditorIInv, ConfigComplete(config)
               PROVE  LET f == MapFileOf(Generator)
                      IN  MapFileOf(ParseMapFile(Fresh, f)) = ReadAgain(f)
    BY DEF SavedIsLoaded
  <2>1. Generator \in Generators /\ Generator.config = config
    BY GeneratorType DEF EditorIInv, TypeIInv, Generator
  <2> HIDE DEF Generator
  <2> QED
    BY <2>1, GeneratorComesBack
<1> QED
  BY <1>1, EditorInvariant, PTL

(* Loading a file at any time shows that file and not what was edited      *)
(* before (loadMapFile, reset, readConfig).                                *)
THEOREM LoadAlwaysForgetsEdits == Spec => LoadForgetsEdits
<1>1. EditorIInv => (LoadMapFile =>
        LET fresh == ParseMapFile(Fresh, file) IN
        /\ \A i \in Items, field \in {"newName", "newDestination",
                                      "newDescription"} :
             items'[i][field] = fresh.items[i][field]
        /\ \A field \in {"login", "user", "password"} :
             config'[field] = fresh.config[field]
        /\ config'.encryption.enabled = fresh.config.encryption.enabled
        /\ config'.encryption.certs = fresh.config.encryption.certs)
  BY LoadForgets DEF EditorIInv
<1> QED
  BY <1>1, EditorInvariant, PTL DEF LoadForgetsEdits
=============================================================================
