------------------------------- MODULE FormPage -------------------------------
(***************************************************************************)
(* A command page of the console: it is loaded for a (cmd, op) pair,      *)
(* CreateCmd picks the schema, AddTable renders it, and the user then     *)
(* works the file fields of the rendered form (FileIngest, on the keys   *)
(* the form's onchange handlers actually pass).  Loading another page    *)
(* replaces the document and its pending FileReaders, so a behaviour is  *)
(* the life of one page.                                                  *)
(*                                                                         *)
(* variant is the script pair the page includes: "legacy"               *)
(* (src/vanntool/static/js/cmds.js), "peer" (src/static/js/cmds.js) or    *)
(* "ant" (src/vanntool/static/js/table.js).                               *)
(***************************************************************************)
EXTENDS JsDom

CONSTANTS
    Pages,         \* the script pairs pages are loaded with
    Cmds, Ops,     \* the cmd and op values pages are loaded with
    FileFields,    \* the keys of the file fields of all the pages
    Files, Empty, Typed, MaxReads, ReadsMayFail

ASSUME PageAssumption == Pages \subseteq {"legacy", "peer", "ant"}

VARIABLES
    variant,       \* the script pair of the page on screen
    cmd, op,       \* the pair the current page was loaded for
    form,          \* the elements AddTable rendered, or Undefined if it threw
    dir, content, readers, nextId, picked

pageVars == <<variant, cmd, op, form>>
vars == <<variant, cmd, op, form, dir, content, readers, nextId, picked>>

L == INSTANCE LegacyForm
A == INSTANCE AntForm

(* The schema object CreateCmd returns on this page. *)
Schema(v, c, o) ==
    CASE v = "legacy" -> L!CreateCmd(c, o)
      [] v = "peer"   -> L!CreateCmdPeer(c, o)
      [] v = "ant"    -> A!CreateCmd(c, o)

(* What AddTable(CreateCmd(c, o)) renders on this page. *)
Render(v, c, o) ==
    IF v = "ant" THEN A!AddTable(Schema(v, c, o)) ELSE L!AddTable(Schema(v, c, o))

(* The keys passed to ChangeFile by the onchange handlers of a form. *)
FileKeysOf(f) ==
    IF f = Undefined THEN {}
    ELSE {f[i].onchange : i \in {j \in DOMAIN f : f[j].onchange # Undefined}}

(* FileFields holds the file keys of every page. *)
ASSUME FileFieldsAssumption ==
    \A v \in Pages, c \in Cmds, o \in Ops :
        FileKeysOf(Render(v, c, o)) \subseteq FileFields

(* The file-field constants are as FileIngest takes them. *)
ASSUME IngestAssumption ==
    /\ MaxReads \in Nat
    /\ ReadsMayFail \in BOOLEAN
    /\ Empty \notin Files
    /\ Typed \notin Files
    /\ Empty # Typed

FI == INSTANCE FileIngest WITH FileKeys <- FileFields

(* The page is loaded for some (c, o): AddTable renders the form, and the *)
(* file inputs of the new document are empty with no read pending.        *)
Init ==
    /\ \E v \in Pages, c \in Cmds, o \in Ops :
          /\ variant = v
          /\ cmd = c
          /\ op = o
          /\ form = Render(v, c, o)
    /\ FI!Init

(* The user and the browser work the file fields of the form on screen. *)
Next ==
    /\ \/ \E k \in FileKeysOf(form) :
             \/ \E x \in Files : FI!ChangeFile(k, x)
             \/ FI!ChangeFileNone(k)
             \/ FI!EditContent(k)
             \/ FI!EditDir(k)
       \/ \E r \in readers : FI!ReaderLoad(r) \/ FI!ReaderError(r)
    /\ UNCHANGED pageVars

Spec == Init /\ [][Next]_vars

-----------------------------------------------------------------------------
(***************************************************************************)
(* Properties of the rendered form.                                       *)
(***************************************************************************)

(* The (cmd, op) the page shows, as a schema. *)
Shown == Schema(variant, cmd, op)

(* The ids in the document are unique, so getElementById(k) in ShowFile  *)
(* and in the submission code finds the element meant: no field's row    *)
(* reuses an id of another row, of the hidden fields or of the trailer.  *)
UniqueIds ==
    form # Undefined =>
        \A i, j \in DOMAIN form :
            (i # j /\ form[i].id # Undefined) => form[i].id # form[j].id

(* Every member of the schema CreateCmd picked has a control in the form *)
(* that submits under the member's name, whatever kind the renderer      *)
(* infers for it and whatever rows precede it.                           *)
FieldsSubmitted ==
    cmd # Undefined =>
        \A i \in 1..Len(Shown) :
            /\ form # Undefined
            /\ \E j \in DOMAIN form : form[j].name = Shown[i][1]

(* Every file picker's onchange handler names a key k for which the form  *)
(* has the input k_dir ChangeFile writes the path into and the text area  *)
(* k the FileReader's onload writes the text into.                       *)
FileWiring ==
    \A k \in FileKeysOf(form) :
        /\ \E j \in DOMAIN form : form[j].id = k \o "_dir"
        /\ \E j \in DOMAIN form : form[j].id = k /\ form[j].tag = "textarea"

(* The text of a placeholder descriptor: the whole value on the legacy   *)
(* pages, the part before '|' without its enclosing quotes on ant pages. *)
DescriptorText(v) ==
    IF variant # "ant" THEN v
    ELSE LET t == At(Split(v, "|"), 0)
         IN  IF Len(t) >= 2 /\ SubSeq(t, 1, 1) = "'" THEN SubSeq(t, 2, Len(t) - 1)
             ELSE t

(* Spec 4.2: a free-text field's input shows the descriptor as its       *)
(* placeholder, on every page: the legacy innerHTML (cmds.js:213) quotes *)
(* it with ' without escaping, the ant parseInput (table.js:193) leaves  *)
(* it unquoted.                                                          *)
PlaceholderIntact ==
    cmd # Undefined =>
        \A i \in 1..Len(Shown), j \in DOMAIN form :
            (form[j].name = Shown[i][1] /\ form[j].type = "text")
                => form[j].placeholder = DescriptorText(Shown[i][2])

(* On the ant pages, whose descriptors quote their placeholder text, the *)
(* input of every free-text field shows its whole descriptor text.       *)
AntPlaceholderIntact == variant = "ant" => PlaceholderIntact

=============================================================================
