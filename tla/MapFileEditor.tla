---------------------------- MODULE MapFileEditor ----------------------------
(***************************************************************************)
(* The main window of the mapfile generator (generatorForm.py) over the    *)
(* generator of MapFile: one action per slot of the window.  The generator *)
(* holds what is saved, the window its own copy of much of it (a check box *)
(* and a combo box per row of the tree, text fields, the list of history   *)
(* settings), and the slots keep the two in step.                          *)
(*                                                                         *)
(* Left out: layout, colours, file dialogs that are cancelled, a session   *)
(* without an XML file, and cells edited to a text with its " (Orig.: )".  *)
(***************************************************************************)
EXTENDS MapFile, FiniteSets

CONSTANTS
  Inputs,        \* the variables with direction control_system_to_application
  DefaultNames,  \* the default names of new history settings, in order
  Names, Texts,  \* what the user types as a name, in a text field
  Sessions,      \* bound: how many actions of each kind the user takes
  MaxSettings    \* bound: how many history settings are ever created

ASSUME InputsAssumption == Inputs \subseteq Vars
ASSUME TextsAssumption ==
  /\ \A text \in Names \cup Texts : text \in Word
  /\ DefaultNames \in Seq(Word)

VARIABLES
  items,     \* MapGenerator.dir: what is set on each item
  config,    \* the Config part of the generator
  own,       \* MapGenerator.historySettings, as the ids of the objects
  names,     \* the name of each HistorySetting object ever created
  histories, \* the objects in the combo box of history settings
  rows,      \* check box and history combo box of each row of the tree
  gui,       \* the text fields and check boxes beside the tree
  top,       \* the row shown first in the tree: itemAt(0,0)
  file,      \* the map file saved last
  renamed,   \* history variable: a setting was ever renamed
  forced,    \* history variable: a row was set while it was switched off
  skipped,   \* history variable: a file's setting was skipped as known
  left       \* the actions the user still takes

state == <<items, config, own, names, histories, rows, gui, top, file,
           renamed, forced, skipped>>
vars == <<state, left>>

Generator == [items |-> items, config |-> config,
              settings |-> {names[s] : s \in own}]
SettingNames == UNION {{DefaultNames[k] : k \in DOMAIN DefaultNames}, Names}

(* _createDirectoryNode, _createVariableNode: the rows of a filled tree.   *)
FilledRow(item) == [check |-> item.exclude = "yes", history |-> None,
                    enabled |-> TRUE, offers |-> {}]
FilledTree(its) == [i \in Items |-> FilledRow(its[i])]

TextFields == {"folder", "about", "port", "user", "password", "void"}
FreshGui == [folder |-> "", about |-> "", port |-> "default", user |-> "",
             password |-> "", void |-> FALSE, login |-> FALSE,
             encryption |-> FALSE]

(* __init__, with an XML file given.                                       *)
Init ==
  /\ items = Fresh.items /\ config = Fresh.config
  /\ own = {} /\ names = <<>> /\ histories = {}
  /\ rows = FilledTree(Fresh.items)
  /\ gui = FreshGui /\ top = Root
  /\ file = None
  /\ renamed = FALSE
  /\ forced = FALSE /\ skipped = FALSE
  /\ left \in Sessions

Spend(kind) == left[kind] > 0 /\ left' = [left EXCEPT ![kind] = @ - 1]

-----------------------------------------------------------------------------
(* Check boxes and history combo boxes of the tree.                        *)

(* The rows a change of row i reaches: each row hands it to its children,  *)
(* and one that already differs from it passes it on.                      *)
Reached(i, changing) ==
  {i} \cup {j \in Below(i) :
              \A k \in Below(i) : IsPrefix(k, j) => k \in changing}

(* _mapItem, _mapDirectory, _setState: a folder without children keeps its *)
(* mark.                                                                   *)
ToggleExclude(i) ==
  LET checked == ~rows[i].check
      hit == Reached(i, {j \in Items : rows[j].check # checked})
  IN  /\ Spend("exclude")
      /\ rows' = [j \in Items |-> IF j \in hit
                                    THEN [rows[j] EXCEPT !.check = checked]
                                    ELSE rows[j]]
      /\ items' = [j \in Items |->
                     IF j \in hit /\ (j \in Vars \/ Children(j) # {})
                       THEN [items[j] EXCEPT !.exclude =
                                               IF checked THEN "yes" ELSE "no"]
                       ELSE items[j]]
      /\ UNCHANGED <<config, own, names, histories, gui, top, file, renamed,
                     forced, skipped>>

Offered(rs, i, name) == name = None \/ name \in rs[i].offers
(* Mutated form of the next definition: the text stops at the children.    *)
SetHistoryStopsAtFolders(rs, i, name) ==
  LET hit == {j \in {i} \cup Children(i) : /\ rs[j].history # name
                                          /\ Offered(rs, j, name)}
  IN  [j \in Items |->
         [rs[j] EXCEPT
            !.history = IF j \in hit THEN name ELSE @,
            !.enabled = IF j # i /\ j \in Below(i) /\ Parent(j) \in hit
                          THEN name = None ELSE @]]
(* setCurrentText on row i and all that _setHistoryItem does then: the     *)
(* children take the same text where they offer it and are switched off    *)
(* while there is a history.                                               *)
SetHistory(rs, i, name) ==
  LET hit == Reached(i, {j \in Items : /\ rs[j].history # name
                                       /\ Offered(rs, j, name)})
  IN  [j \in Items |->
         [rs[j] EXCEPT
            !.history = IF j \in hit THEN name ELSE @,
            !.enabled = IF j # i /\ j \in Below(i) /\ Parent(j) \in hit
                          THEN name = None ELSE @]]
(* _setHistoryItem stores in the item what its row shows.                  *)
StoreHistory(its, old, new) ==
  [i \in Items |-> IF new[i].history # old[i].history
                     THEN [its[i] EXCEPT !.history = new[i].history]
                     ELSE its[i]]

ChooseHistory(i, name) ==
  /\ Spend("history")
  /\ rows[i].enabled /\ Offered(rows, i, name) /\ rows[i].history # name
  /\ rows' = SetHistory(rows, i, name)
  /\ items' = StoreHistory(items, rows, rows')
  /\ UNCHANGED <<config, own, names, histories, gui, top, file, renamed,
                 forced, skipped>>

(* addHistoryForInputs: sets the rows of the inputs below the top row, and *)
(* does so whether or not they are switched off.                           *)
UseForInputs(s) ==
  /\ Spend("history") /\ s \in histories
  /\ LET name == names[s]
         hit == {v \in Inputs : IsPrefix(top, v) /\ Offered(rows, v, name)}
     IN  /\ rows' = [i \in Items |->
                       IF i \in hit THEN [rows[i] EXCEPT !.history = name]
                                    ELSE rows[i]]
         /\ forced' = (forced \/ \E v \in hit : /\ ~rows[v].enabled
                                               /\ rows[v].history # name)
  /\ items' = StoreHistory(items, rows, rows')
  /\ UNCHANGED <<config, own, names, histories, gui, top, file, renamed,
                 skipped>>

(* prepareNewHistorySetting, addHistorySetting, addComboEntry.  The name   *)
(* is the first default that is not in the combo box, or one typed that    *)
(* the generator does not know.  The rows below the top row offer it.      *)
DefaultName ==
  LET free == {k \in DOMAIN DefaultNames :
                 \A s \in histories : names[s] # DefaultNames[k]}
  IN  {DefaultNames[k] : k \in {j \in free : \A m \in free : j <= m}}
Unknown(name) == \A s \in own : names[s] # name

AddSetting(name) ==
  LET s == Len(names) + 1 IN
  /\ Spend("history") /\ s <= MaxSettings
  /\ name \in DefaultName \/ (name \in Names /\ Unknown(name))
  /\ names' = Append(names, name)
  /\ own' = own \cup {s} /\ histories' = histories \cup {s}
  /\ rows' = [i \in Items |->
                IF IsPrefix(top, i)
                  THEN [rows[i] EXCEPT !.offers = @ \cup {name}] ELSE rows[i]]
  /\ UNCHANGED <<items, config, gui, top, file, renamed, forced,
                 skipped>>

(* editHistorySetting, checkNameExists: only the object and its entry in   *)
(* the combo box of settings get the new name.                             *)
RenameSetting(s, name) ==
  /\ Spend("history")
  /\ s \in histories /\ names[s] # name /\ Unknown(name)
  /\ names' = [names EXCEPT ![s] = name]
  /\ renamed' = TRUE
  /\ UNCHANGED <<items, config, own, histories, rows, gui, top, file,
                 forced, skipped>>

Scroll(i) ==
  /\ Spend("history") /\ i # top
  /\ top' = i
  /\ UNCHANGED <<items, config, own, names, histories, rows, gui, file,
                 renamed, forced, skipped>>

-----------------------------------------------------------------------------
(* The other columns of the tree: _updateItem and dropEvent.               *)

EditItem(i, field, value) ==
  /\ Spend("place") /\ items[i][field] # value
  /\ items' = [items EXCEPT ![i][field] = value]
  /\ UNCHANGED <<config, own, names, histories, rows, gui, top, file,
                 renamed, forced, skipped>>
Rename(i) ==
  \E name \in Names \cup {"", None} : EditItem(i, "newName", name)
Describe(i) ==
  \E text \in Texts \cup {None} : EditItem(i, "newDescription", text)
Move(i) ==
  \E d \in Dirs : d # i /\ EditItem(i, "newDestination", d)
MoveBack(i) == EditItem(i, "newDestination", None)

-----------------------------------------------------------------------------
(* The server settings.                                                    *)

(* updateConfig: a change of one field copies all of them.                 *)
Copied(g) ==
  [field \in DOMAIN config |->
     IF field \in TextFields THEN g[field] ELSE config[field]]
EditText(field, value) ==
  /\ Spend("config") /\ gui[field] # value
  /\ field \in {"user", "password"} => gui.login
  /\ gui' = [gui EXCEPT ![field] = value]
  /\ config' = Copied(gui')
  /\ UNCHANGED <<items, own, names, histories, rows, top, file, renamed,
                 forced, skipped>>

SetConfig(g, c) ==
  /\ Spend("config")
  /\ gui' = g /\ config' = c
  /\ UNCHANGED <<items, own, names, histories, rows, top, file, renamed,
                 forced, skipped>>
EnableLogin ==
  SetConfig([gui EXCEPT !.login = ~@],
            [config EXCEPT !.login = ~gui.login])
EnableEncryption ==
  SetConfig([gui EXCEPT !.encryption = ~@],
            [config EXCEPT !.encryption.enabled = ~gui.encryption])
ConfigureEncryption(certs, unsecure) ==
  /\ gui.encryption
  /\ config.encryption.certs = "all" => certs = "all"
  /\ SetConfig(gui, [config EXCEPT !.encryption.certs = certs,
                                   !.encryption.unsecure = unsecure])
ConfigureLds(register, address) ==
  SetConfig(gui, [config EXCEPT !.lds = register, !.address = address])

-----------------------------------------------------------------------------
(* Files.                                                                  *)

(* saveFile: createConfig raises before anything is written.               *)
SaveFile ==
  /\ Spend("file") /\ ConfigComplete(config)
  /\ file' = MapFileOf(Generator)
  /\ UNCHANGED <<items, config, own, names, histories, rows, gui, top,
                 renamed, forced, skipped>>

(* openFile: a fresh generator and a refilled tree; the fields beside the  *)
(* tree and the combo box of settings stay.                                *)
OpenFileKeepsChoices ==
  /\ Spend("file")
  /\ items' = Fresh.items /\ config' = Fresh.config /\ own' = {}
  /\ rows' = [i \in Items |-> [FilledRow(Fresh.items[i]) EXCEPT
                                 !.offers = rows[i].offers]]
  /\ top' = Root
  /\ forced' = FALSE /\ skipped' = FALSE
  /\ UNCHANGED <<names, histories, gui, file, renamed>>
OpenFile ==
  /\ Spend("file")
  /\ items' = Fresh.items /\ config' = Fresh.config /\ own' = {}
  /\ rows' = FilledTree(Fresh.items) /\ top' = Root
  /\ forced' = FALSE /\ skipped' = FALSE
  /\ UNCHANGED <<names, histories, gui, file, renamed>>

(* closeEvent, and the program started again with the same XML file.       *)
Restart ==
  /\ Spend("file")
  /\ items' = Fresh.items /\ config' = Fresh.config
  /\ own' = {} /\ names' = <<>> /\ histories' = {}
  /\ rows' = FilledTree(Fresh.items)
  /\ gui' = FreshGui /\ top' = Root
  /\ forced' = FALSE /\ skipped' = FALSE
  /\ UNCHANGED <<file, renamed>>

(* _fillConfig: a field whose value is None keeps its text.                *)
FillConfig(c) ==
  [field \in DOMAIN gui |->
     CASE field = "login" -> c.login
       [] field = "encryption" -> c.encryption.enabled
       [] OTHER -> Or(c[field], gui[field])]

(* updateHistories: from the root down, the first folder with a history    *)
(* sets it for everything below, when the rows offer it.                   *)
Leader(its, i) ==
  LET line == {j \in Items : IsPrefix(j, i) /\ its[j].history # None}
  IN  IF line = {} THEN i
      ELSE CHOOSE j \in line : \A k \in line : Len(j) <= Len(k)
LoadedHistory(its, offers, i) ==
  LET name == its[Leader(its, i)].history
  IN  IF name \in offers THEN name ELSE None
LoadedRows(its, offers) ==
  [i \in Items |->
     [check |-> its[i].exclude = "yes",
      history |-> LoadedHistory(its, offers, i),
      enabled |-> i = Root \/ LoadedHistory(its, offers, Parent(i)) = None,
      offers |-> offers]]

(* loadMapFile: settings whose name is in the combo box already are        *)
(* skipped with a warning, and the refilled rows do not offer them.        *)
LoadMapFile ==
  /\ Spend("file") /\ file # None
  /\ LET read == ParseMapFile(Generator, file)
         new == SetToSeq(read.settings \ Generator.settings)
         objects == names \o new
         all == own \cup (Len(names) + 1)..Len(objects)
         offers == read.settings \ {names[s] : s \in histories}
         old == FilledTree(read.items)
     IN  /\ Len(objects) <= MaxSettings
         /\ names' = objects /\ own' = all
         /\ histories' = histories \cup
              {s \in all : /\ objects[s] \in offers
                           /\ \A t \in all : objects[t] = objects[s] => s <= t}
         /\ config' = read.config
         /\ skipped' = (skipped \/ offers # read.settings)
         /\ rows' = LoadedRows(read.items, offers)
         /\ items' = StoreHistory(read.items, old, rows')
  /\ gui' = FillConfig(config')
  /\ top' = Root
  /\ UNCHANGED <<file, renamed, forced>>

Next ==
  \/ \E i \in Items :
       \/ ToggleExclude(i) \/ Scroll(i)
       \/ \E name \in SettingNames \cup {None} : ChooseHistory(i, name)
       \/ i # Root /\ (Rename(i) \/ Move(i) \/ MoveBack(i))
       \/ Describe(i)
  \/ \E name \in SettingNames : AddSetting(name)
  \/ \E s \in DOMAIN names :
       UseForInputs(s) \/ \E name \in Names : RenameSetting(s, name)
  \/ \E field \in TextFields \ {"void"}, text \in Texts \cup {""} :
       ~(field = "port" /\ text = "") /\ EditText(field, text)
  \/ \E on \in BOOLEAN : EditText("void", on)
  \/ EnableLogin \/ EnableEncryption
  \/ \E certs \in {"some", "all"}, unsecure \in BOOLEAN :
       ConfigureEncryption(certs, unsecure)
  \/ \E register \in BOOLEAN, address \in Texts :
       ConfigureLds(register, address)
  \/ SaveFile \/ OpenFile \/ LoadMapFile \/ Restart

Spec == Init /\ [][Next]_vars
-----------------------------------------------------------------------------
(* Properties.                                                             *)

(* The history a server with the map file f gives a variable: its own      *)
(* entry or that of the closest folder above it that has one.              *)
ServedHistory(f, v) ==
  LET ownEntry == EntryOf(f.pvs, v)
      above == {e \in f.folders : e.history # None /\ IsPrefix(e.source, v)}
  IN  IF ownEntry # None /\ ownEntry.history # None THEN ownEntry.history
      ELSE IF above = {} THEN None
      ELSE (CHOOSE e \in above :
              \A o \in above : Len(o.source) <= Len(e.source)).history

(* Saved now, the map file gives every variable below a folder exactly the *)
(* history its row shows: switching folders off and on, the switch for all *)
(* inputs and loading a file leave no item with a history behind that the  *)
(* tree does not show.  Outside of this are a history on the root (saved   *)
(* under a source that names nothing), a row the switch for inputs set     *)
(* while it was switched off (its own history is not written), a renamed   *)
(* setting, and a file with a setting whose name the combo box of settings *)
(* knew already (the refilled rows do not offer it, line 672).             *)
HistoryServedAsShown ==
  ~renamed /\ ~forced /\ ~skipped /\ items[Root].history = None =>
    \A v \in {w \in Vars : Parent(w) # Root} :
       ServedHistory(MapFileOf(Generator), v) = rows[v].history

(* Every history a saved file refers to is defined in that file, whatever  *)
(* was opened, loaded and added before, unless a setting was renamed: the  *)
(* items keep the old name (lines 127-136).                                *)
HistoriesOf(f) == {e.history : e \in f.pvs \cup f.folders} \ {None}
SavedHistoriesDefined ==
  ~renamed => HistoriesOf(MapFileOf(Generator)) \subseteq Generator.settings

(* Saved now, the map file leaves a variable out, by an entry of its own   *)
(* or of a folder above, only if the tree shows it or a folder above as    *)
(* checked, in every session.  A variable that is shown as checked is left *)
(* out, unless the root is checked (the root's entry names nothing) or the *)
(* mark of a folder above is "no": a folder that was checked and unchecked *)
(* again keeps its children's marks from being written ("no" is not None,  *)
(* line 351).                                                              *)
Excluded(f, v) ==
  \E e \in f.excludes : IF e.kind = "folder" THEN IsPrefix(e.source, v)
                                             ELSE e.source = v
Above(v) == {d \in Dirs : IsPrefix(d, v)}
ExclusionsSavedAsShown ==
  \A v \in Vars :
    /\ Excluded(MapFileOf(Generator), v) =>
         \E i \in Above(v) \cup {v} : rows[i].check
    /\ /\ rows[v].check /\ ~rows[Root].check
       /\ \A d \in Above(v) : items[d].exclude # "no"
       => Excluded(MapFileOf(Generator), v)

(* A saved file read into a fresh generator and saved again is the same    *)
(* file, whatever was edited, but for four things that the reading loses:  *)
(* what is said of the root and the entries of variables directly in it    *)
(* (their sources are not found again), the place of a nested folder that  *)
(* is renamed where it is or moved to the folder it is in (read as moved   *)
(* to the root, line 557), and a server description without a root folder  *)
(* (lines 203-206).  Everything else a file can say comes back.            *)
InPlaceToRoot(e) ==
  IF e.destination = Front(e.source) THEN [e EXCEPT !.destination = Root] ELSE e
ReadAgain(f) ==
  [config |-> IF f.config.folder = None THEN [f.config EXCEPT !.about = ""]
                                        ELSE f.config,
   settings |-> f.settings,
   folders |-> {InPlaceToRoot(e) : e \in {o \in f.folders : o.source \in Dirs}},
   described |-> {e \in f.described : e.folder \in Dirs},
   pvs |-> {e \in f.pvs : e.source \in Vars},
   excludes |-> {e \in f.excludes : e.source \in Items}]
SavedIsLoaded ==
  ConfigComplete(config)
  => LET f == MapFileOf(Generator)
     IN  MapFileOf(ParseMapFile(Fresh, f)) = ReadAgain(f)

(* Loading a file shows that file and not what was edited before: the new  *)
(* names, places and descriptions of all items, the login and whether      *)
(* there is encryption are what a fresh generator reads from it.  Marks,   *)
(* histories, the discovery server, void handling and the unsecure         *)
(* endpoint are not reset.                                                 *)
LoadForgetsEdits ==
  [][LoadMapFile =>
       LET fresh == ParseMapFile(Fresh, file) IN
       /\ \A i \in Items, field \in {"newName", "newDestination",
                                     "newDescription"} :
            items'[i][field] = fresh.items[i][field]
       /\ \A field \in {"login", "user", "password"} :
            config'[field] = fresh.config[field]
       /\ config'.encryption.enabled = fresh.config.encryption.enabled
       /\ config'.encryption.certs = fresh.config.encryption.certs]_vars

=============================================================================
