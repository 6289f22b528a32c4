-------------------------------- MODULE Fonts --------------------------------
(***************************************************************************)
(* The platform's font library (internal/fontlib) and the templates of all *)
(* workspaces that name its fonts.  A font is taken away only if the       *)
(* metadata of no template names it; that is looked up on another          *)
(* connection than the transaction that deletes, READ COMMITTED both, and  *)
(* templates are saved without looking at the library.                     *)
(*                                                                         *)
(* The queries see the entries of metadata.fonts that give a library key,  *)
(* and the styles these list.  A job that prints reads more into a         *)
(* template: an entry without styles needs the regular one, one without a  *)
(* key the font of that name, and every text of the design its own font    *)
(* (templateassets, fontNeeds).  Nothing keeps those in the library, and    *)
(* only the first, which the two read differently, is here.                *)
(***************************************************************************)
EXTENDS Naturals, FiniteSets

CONSTANTS
  Ids,          \* of fonts
  Families,     \* names, as lower() makes them equal
  Styles,
  Templates,
  Requests,
  MaxFamilies,
  None

VARIABLES
  font,     \* fonts and font_files: family and styles; None: no such row
  gone,     \* ids that have been deleted
  needs,    \* metadata.fonts of each template: the entries with a library key
  request,  \* changes of the library in progress
  saved     \* templates saved since the request looked at them (history)

vars == <<font, gone, needs, request, saved>>

NoRequest == [at |-> "idle", id |-> None, style |-> None, family |-> None]
Library == {f \in Ids : font[f] # None}
Needs == [key : Ids, styles : SUBSET Styles]

Init ==
  /\ font = [f \in Ids |-> None]
  /\ gone = {}
  /\ needs = [t \in Templates |-> {}]
  /\ request = [r \in Requests |-> NoRequest]
  /\ saved = [r \in Requests |-> {}]

At(r, step) == request[r].at = step
Begin(r, step, f, style, family) ==
  /\ At(r, "idle")
  /\ request' = [request EXCEPT ![r] = [at |-> step, id |-> f, style |-> style, family |-> family]]
Answer(r) == request' = [request EXCEPT ![r] = NoRequest]
FamilyTaken(f, family) == \E g \in Library \ {f} : font[g].family = family   \* fonts_family_uk
-----------------------------------------------------------------------------
(* The studio saves a template: which fonts it names is up to the studio.   *)
SaveTemplate(t, n) ==
  /\ needs' = [needs EXCEPT ![t] = n]
  /\ saved' = [r \in Requests |-> saved[r] \union {t}]
  /\ UNCHANGED <<font, gone, request>>

(* The library is counted, and overlapping requests may each find room ... *)
BeginCreate(r, f, family, style) ==
  /\ Cardinality(Library) < MaxFamilies
  /\ f \notin Library \union gone /\ \A q \in Requests : request[q].id # f
  /\ Begin(r, "create", f, style, family)
  /\ UNCHANGED <<font, gone, needs, saved>>

(* ... and a family inserted with its first file. *)
CommitCreate(r) ==
  LET f == request[r].id
  IN /\ At(r, "create")
     /\ ~FamilyTaken(f, request[r].family)
     /\ font' = [font EXCEPT ![f] = [family |-> request[r].family, files |-> {request[r].style}]]
     /\ Answer(r)
     /\ UNCHANGED <<gone, needs, saved>>

(* Renaming; the other columns are not looked at by anything here. *)
Update(f, family) ==
  /\ f \in Library
  /\ ~FamilyTaken(f, family)
  /\ font' = [font EXCEPT ![f].family = family]
  /\ UNCHANGED <<gone, needs, request, saved>>

PutFile(f, style) ==
  /\ f \in Library
  /\ font' = [font EXCEPT ![f].files = @ \union {style}]
  /\ UNCHANGED <<gone, needs, request, saved>>

(* Get: a style it has, and not its last file. *)
BeginRemoveFile(r, f, style) ==
  /\ f \in Library
  /\ style \in font[f].files
  /\ Cardinality(font[f].files) > 1
  /\ Begin(r, "remove", f, style, None)
  /\ UNCHANGED <<font, gone, needs, saved>>

BeginDelete(r, f) ==
  /\ f \in Library
  /\ Begin(r, "delete", f, None, None)
  /\ UNCHANGED <<font, gone, needs, saved>>

(* Uses for a whole font, whatever the styles; StyleInUse for a style listed. *)
InUse(r, t) ==
  \E n \in needs[t] : /\ n.key = request[r].id
                      /\ At(r, "remove") => request[r].style \in n.styles

(* A plausible mistake: the file is deleted without looking who needs it. *)
CheckNothing(r) ==
  /\ request[r].at \in {"remove", "delete"}
  /\ request' = [request EXCEPT ![r].at = IF At(r, "remove") THEN "remove now" ELSE "delete now"]
  /\ saved' = [saved EXCEPT ![r] = {}]
  /\ UNCHANGED <<font, gone, needs>>

CheckUse(r) ==
  /\ request[r].at \in {"remove", "delete"}
  /\ \A t \in Templates : ~InUse(r, t)
  /\ request' = [request EXCEPT ![r].at = IF At(r, "remove") THEN "remove now" ELSE "delete now"]
  /\ saved' = [saved EXCEPT ![r] = {}]
  /\ UNCHANGED <<font, gone, needs>>

(* The rows are deleted if they are there: the files that were counted may    *)
(* have gone, so that a family can be left without any.                    *)
DeleteFile(r) ==
  LET f == request[r].id
  IN /\ At(r, "remove now")
     /\ f \in Library /\ request[r].style \in font[f].files
     /\ font' = [font EXCEPT ![f].files = @ \ {request[r].style}]
     /\ Answer(r)
     /\ UNCHANGED <<gone, needs, saved>>

DeleteFont(r) ==
  LET f == request[r].id
  IN /\ At(r, "delete now")
     /\ f \in Library
     /\ font' = [font EXCEPT ![f] = None]
     /\ gone' = gone \union {f}
     /\ Answer(r)
     /\ UNCHANGED <<needs, saved>>

Rollback(r) ==
  /\ ~At(r, "idle")
  /\ Answer(r)
  /\ UNCHANGED <<font, gone, needs, saved>>
-----------------------------------------------------------------------------
ChangeLibrary(r) ==
  \/ \E f \in Ids, style \in Styles :
       \/ BeginRemoveFile(r, f, style)
       \/ \E family \in Families : BeginCreate(r, f, family, style)
  \/ \E f \in Ids : BeginDelete(r, f)
  \/ CommitCreate(r) \/ CheckUse(r) \/ DeleteFile(r) \/ DeleteFont(r) \/ Rollback(r)

Next ==
  \/ \E t \in Templates, n \in {{}} \union {{x} : x \in Needs} : SaveTemplate(t, n)
  \/ \E f \in Ids, family \in Families : Update(f, family)
  \/ \E f \in Ids, style \in Styles : PutFile(f, style)
  \/ \E r \in Requests : ChangeLibrary(r)

Spec == Init /\ [][Next]_vars
-----------------------------------------------------------------------------
(* Properties                                                              *)

Has(f, style) == f \in Library /\ style \in font[f].files

(* "refused while a template still needs it": a font that a template names,   *)
(* and a style the template lists for it, are taken away only if the         *)
(* template was saved after the check, in the gap the two connections leave. *)
(* (The regular style of an entry without styles goes at any time.)          *)
NamedFontsKept ==
  \A f \in Ids, t \in Templates :
    /\ \E n \in needs[t] :
         /\ n.key = f
         /\ \/ f \in Library /\ f \notin Library'
            \/ \E style \in n.styles : Has(f, style) /\ ~Has(f, style)'
    => \E r \in Requests : request[r].id = f /\ t \in saved[r] /\ request'[r] = NoRequest
NamedFontsStay == [][NamedFontsKept]_vars
=============================================================================
