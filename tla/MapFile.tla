------------------------------- MODULE MapFile -------------------------------
(***************************************************************************)
(* The map file as the mapfile generator writes it and reads it back       *)
(* (src/tools/mapfileGenerator/.../generatorClass.py): pure operators on a *)
(* generator, a record of                                                  *)
(*   items    - what the user set on each folder and variable of the tree, *)
(*   config   - the server settings,                                       *)
(*   settings - the names of the history settings.                         *)
(* A path is the sequence of the names below "/root".  Texts are abstract: *)
(* None is Python's None and an absent XML attribute, "" the empty string. *)
(* A unit is edited, written and read like a description and is left out,  *)
(* and so are a setting's numbers, which nothing here depends on.          *)
(***************************************************************************)
EXTENDS Naturals, SequencesExt

CONSTANTS
  Dirs,   \* the paths of the folders of the application's XML file
  Vars,   \* the paths of its variables
  None    \* no value

(* The texts of names, fields and attributes.  Those the program has of    *)
(* its own are named, as the provers know no constant to be a STRING.      *)
Word == STRING \cup {"", "default", "/root"}

(* Every item is in a folder.  A name holds no slash, as slashes separate  *)
(* the names of a path.                                                    *)
ASSUME TreeAssumption ==
  /\ <<>> \in Dirs
  /\ Dirs \cap Vars = {}
  /\ \A i \in Dirs \cup Vars : i \in Seq(Word)
  /\ \A i \in (Dirs \cup Vars) \ {<<>>} : Front(i) \in Dirs
  /\ <<"/root">> \notin Dirs \cup Vars

(* None is no text, no path and nothing else that a file holds.            *)
ASSUME NoneAssumption ==
  /\ None \notin Word /\ None \notin Seq(Word)
  /\ None \notin [enabled: BOOLEAN, certs: {"none", "some", "all"},
                  unsecure: BOOLEAN]
  /\ None \notin [source: Seq(Word), history: Word \cup {None},
                  description: Word \cup {None}, name: Word \cup {None},
                  destination: Seq(Word) \cup {None}]

Items == Dirs \cup Vars
Root == <<>>
Parent(i) == Front(i)
Children(d) == {i \in Items \ {Root} : Parent(i) = d}
Below(d) == {i \in Items : i # d /\ IsPrefix(d, i)}

(* A fresh generator: MapOption, XMLVar, XMLDirectory, Config.             *)
FreshItem == [exclude |-> "unset", history |-> None,
              newName |-> None, newDestination |-> None,
              newDescription |-> None]
FreshEncryption == [enabled |-> FALSE, certs |-> "none", unsecure |-> FALSE]
FreshConfig == [folder |-> None, about |-> "", port |-> None, void |-> FALSE,
                lds |-> FALSE, address |-> None,
                login |-> FALSE, user |-> None, password |-> None,
                encryption |-> FreshEncryption]
Fresh == [items |-> [i \in Items |-> FreshItem],
          config |-> FreshConfig, settings |-> {}]

Given(text) == text \notin {None, ""}

-----------------------------------------------------------------------------
(* Writing.                                                                *)

(* removeprefix('/root/') leaves the path "/root" itself as it is: the     *)
(* root folder and the process_variable entry of a variable directly below *)
(* it are saved under a name that starts with "/root".                     *)
Stray(p) == <<"/root">> \o p
FolderSource(d) == IF d = Root THEN Stray(d) ELSE d
PvSource(v) == IF Parent(v) = Root THEN Stray(v) ELSE v

(* An empty new name counts as none.                                       *)
Moved(item) == Given(item.newName) \/ item.newDestination # None

(* The folder above decides whether an item's own history or exclusion is  *)
(* written; nothing is above the root.                                     *)
HistorizingActive(items, i) == i # Root /\ items[Parent(i)].history # None
ExcludeActive(items, i) == i # Root /\ items[Parent(i)].exclude # "unset"
OwnHistory(items, i) ==
  IF HistorizingActive(items, i) THEN None ELSE items[i].history
ExcludeWrittenForVariables(items, i) ==
  i \in Vars /\ items[i].exclude = "yes" /\ ~ExcludeActive(items, i)
ExcludeWritten(items, i) ==
  items[i].exclude = "yes" /\ ~ExcludeActive(items, i)

(* XMLVar.generateMapEntry.                                                *)
PvEntry(items, v) ==
  LET item == items[v] IN
  [source |-> PvSource(v),
   history |-> OwnHistory(items, v),
   description |-> item.newDescription,
   name |-> IF Given(item.newName) THEN item.newName
            ELSE IF item.newDestination = Root THEN Last(v)
            ELSE None,
   destination |-> IF item.newDestination = Root THEN None
                                                 ELSE item.newDestination]
PvEntries(items) ==
  {PvEntry(items, v) : v \in {w \in Vars : \/ Moved(items[w])
                                           \/ items[w].newDescription # None
                                           \/ OwnHistory(items, w) # None}}

(* XMLDirectory.generateMapEntries: an entry without a source when only    *)
(* the description changes, one with the folder as its source when it is   *)
(* moved, renamed or given a history.                                      *)
Described(items) ==
  {[folder |-> FolderSource(d), description |-> items[d].newDescription] :
     d \in {e \in Dirs : items[e].newDescription # None /\ ~Moved(items[e])}}
FolderEntry(items, d) ==
  LET item == items[d] IN
  [source |-> FolderSource(d),
   history |-> OwnHistory(items, d),
   description |-> IF Moved(item) THEN item.newDescription ELSE None,
   name |-> IF Given(item.newName) THEN item.newName
            ELSE IF item.newDestination # None /\ d # Root THEN Last(d)
            ELSE None,
   destination |-> IF item.newDestination # None THEN item.newDestination
                   ELSE IF Given(item.newName) THEN Parent(d)
                   ELSE None]
FolderEntries(items) ==
  {FolderEntry(items, d) : d \in {e \in Dirs : \/ Moved(items[e])
                                               \/ OwnHistory(items, e) # None}}

Excludes(items) ==
  {[kind |-> "folder", source |-> FolderSource(d)] :
     d \in {e \in Dirs : ExcludeWritten(items, e)}}
  \cup {[kind |-> "variable", source |-> v] :
     v \in {w \in Vars : ExcludeWritten(items, w)}}

(* Config.createConfig raises when an enabled section is incomplete.       *)
ConfigComplete(config) ==
  /\ config.lds => Given(config.address)
  /\ config.login => Given(config.user) /\ Given(config.password)
  /\ config.encryption.enabled => config.encryption.certs = "all"

Attribute(text) == IF Given(text) THEN text ELSE None
CreateConfig(config) ==
  [folder |-> Attribute(config.folder),
   about |-> config.about,
   port |-> config.port,
   void |-> config.void,
   lds |-> IF config.lds THEN Attribute(config.address) ELSE None,
   login |-> IF config.login THEN <<config.user, config.password>> ELSE None,
   security |-> IF config.encryption.enabled THEN config.encryption ELSE None]

(* MapGenerator.save.                                                      *)
MapFileOf(gen) ==
  [config |-> CreateConfig(gen.config), settings |-> gen.settings,
   folders |-> FolderEntries(gen.items), described |-> Described(gen.items),
   pvs |-> PvEntries(gen.items), excludes |-> Excludes(gen.items)]

-----------------------------------------------------------------------------
(* Reading.                                                                *)

(* reset: the new texts and places of every item, nothing else.            *)
ResetFoldersOnly(items) ==
  [i \in Items |-> IF i \in Vars THEN items[i]
                   ELSE [items[i] EXCEPT !.newName = None,
                                         !.newDestination = None,
                                         !.newDescription = None]]
Reset(items) ==
  [i \in Items |-> [items[i] EXCEPT !.newName = None,
                                    !.newDestination = None,
                                    !.newDescription = None]]

Or(value, old) == IF value # None THEN value ELSE old

(* Config.readConfig.  A description is read only beside a root folder;    *)
(* without a login or security section theirs are cleared, the others      *)
(* keep what the generator had.                                            *)
ReadConfig(config, f) ==
  [folder |-> Or(f.folder, config.folder),
   about |-> IF f.folder # None THEN f.about ELSE config.about,
   port |-> Or(f.port, config.port),
   void |-> f.void \/ config.void,
   lds |-> f.lds # None \/ config.lds,
   address |-> Or(f.lds, config.address),
   login |-> f.login # None,
   user |-> IF f.login # None THEN f.login[1] ELSE None,
   password |-> IF f.login # None THEN f.login[2] ELSE None,
   encryption |->
     IF f.security = None THEN FreshEncryption
     ELSE [enabled |-> TRUE, certs |-> f.security.certs,
           unsecure |-> f.security.unsecure \/ config.encryption.unsecure]]

(* findDir and findVar: the entry of an item, when its source is in the    *)
(* tree.                                                                   *)
EntryOf(entries, i) ==
  LET found == {e \in entries : e.source = i}
  IN  IF found = {} THEN None ELSE CHOOSE e \in found : TRUE

(* A moved folder.  The path that line 557 compares with the folder's own  *)
(* holds the name only when that name is new, so the two always differ:    *)
(* without a destination of its own the folder is moved to the root.       *)
ReadFolder(item, d, e) ==
  IF e = None THEN item
  ELSE IF e.name = None /\ e.destination = None /\ e.description = None
    THEN [item EXCEPT !.history = Or(e.history, @)]
    ELSE [item EXCEPT
            !.history = Or(e.history, @),
            !.newDescription = e.description,
            !.newName = IF d # Root /\ e.name = Last(d) THEN @
                                                        ELSE Or(e.name, @),
            !.newDestination = IF e.destination \notin {None, Root, Parent(d)}
                                 THEN e.destination ELSE Root]
ReadDescription(item, d, described) ==
  LET found == {e \in described : e.folder = d} IN
  IF found = {} THEN item
  ELSE [item EXCEPT !.newDescription =
                      (CHOOSE e \in found : TRUE).description]

(* A variable.  A name that is its own and no destination: to the root.    *)
ReadPvAsWritten(item, v, e) ==
  IF e = None THEN item
  ELSE [item EXCEPT !.history = Or(e.history, @),
                    !.newDescription = e.description,
                    !.newName = IF e.name = Last(v) THEN None ELSE e.name,
                    !.newDestination = e.destination]
ReadPv(item, v, e) ==
  IF e = None THEN item
  ELSE LET toRoot == e.destination = None /\ e.name = Last(v) IN
       [item EXCEPT !.history = Or(e.history, @),
                    !.newDescription = e.description,
                    !.newName = IF toRoot THEN None ELSE e.name,
                    !.newDestination = IF toRoot THEN Root ELSE e.destination]

(* An exclusion only ever sets the mark, reading never clears one.         *)
ReadExclude(item, i, kind, excludes) ==
  IF [kind |-> kind, source |-> i] \in excludes
    THEN [item EXCEPT !.exclude = "yes"] ELSE item

ReadItem(items, i, f) ==
  IF i \in Dirs
    THEN ReadExclude(ReadDescription(
                       ReadFolder(items[i], i, EntryOf(f.folders, i)),
                       i, f.described), i, "folder", f.excludes)
    ELSE ReadExclude(ReadPv(items[i], i, EntryOf(f.pvs, i)),
                     i, "variable", f.excludes)
ReadItems(items, f) == [i \in Items |-> ReadItem(Reset(items), i, f)]

(* parseMapFile: a history setting whose name is known is not read again.  *)
ParseMapFile(gen, f) ==
  [items |-> ReadItems(gen.items, f),
   config |-> ReadConfig(gen.config, f.config),
   settings |-> gen.settings \cup f.settings]
=============================================================================
