------------------------------ MODULE AddressForm ------------------------------
(***************************************************************************)
(* The address of the profile page and of the event editor: a CEP of eight *)
(* digits starts a lookup, whose answer fills the fields that nobody       *)
(* touched since it began.  An effect aborts the lookup when the CEP       *)
(* changes or the form goes; the aborted handler stops at its next line.   *)
(*                                                                         *)
(* A field's value is named by where it comes from: the lookup of a CEP,   *)
(* the hand that typed it, or what was stored.  Different sources never    *)
(* agree by chance.                                                        *)
(***************************************************************************)
EXTENDS Integers

CONSTANTS
  Ceps,         \* CEPs the directory knows
  WithStreet,   \* those it knows a street for
  MaxActs       \* changes by hand, tabs and reloads, a bound for TLC

VARIABLES
  page,      \* which of the two pages, and what it shows
  form,      \* the form's state
  cep,       \* cepStatus
  lookups,   \* lookups under way, with the state of their signal
  saved,     \* the stored CEP
  acts       \* how many so far

vars == <<page, form, cep, lookups, saved, acts>>

Complete == Ceps \cup {"unknown"}   \* eight digits; "unknown" is in no directory
Typeable == Complete \cup {"partial"}
Sources == Ceps \cup {"typed", "stored", "empty"}

Blank == [postalCode |-> "partial", city |-> "empty", street |-> "empty"]

\* The pages of the profile, of an event that exists and of a new one.  Only the
\* last is there before anything is loaded.
Init ==
  /\ \E kind \in {"profile", "editor", "new"} :
       /\ page = [kind |-> kind, mounted |-> kind = "new", busy |-> FALSE,
                  loading |-> IF kind = "new" THEN "no" ELSE "first"]
       /\ saved \in CASE kind = "profile" -> Complete \cup {"partial"}  \* or none yet
                      [] kind = "editor" -> Complete
                      [] OTHER -> {"partial"}
  /\ form = Blank
  /\ cep = "idle"
  /\ lookups = {}
  /\ acts = 0

Aborted == {[l EXCEPT !.aborted = TRUE] : l \in lookups}

\* The effect of [postalCode]: the new lookup remembers the form as it is.
Looked(f) ==
  IF f.postalCode \in Complete
  THEN Aborted \cup {[postalCode |-> f.postalCode, snapshot |-> f, aborted |-> FALSE]}
  ELSE Aborted

StatusAfter(f, status) == IF f.postalCode \in Complete THEN "loading" ELSE status

------------------------------------------------------------------------------
(* Loading and mounting *)

\* The server answers with the address that was saved, if any was.
Kept == saved # "partial"

StoredForm ==
  IF ~Kept THEN Blank
  ELSE [postalCode |-> saved, city |-> "stored", street |-> "stored"]

\* The effect runs when the form is first shown and when its CEP changes.
Follow(f, changed) ==
  IF changed THEN cep' = StatusAfter(f, cep) /\ lookups' = Looked(f)
  ELSE UNCHANGED <<cep, lookups>>

\* load(): the stored values replace the form's, what was typed meanwhile too.
Loaded ==
  /\ page.loading # "no"
  /\ form' = StoredForm
  /\ page' = [page EXCEPT !.loading = "no", !.busy = @ /\ page.loading # "own",
                          !.mounted = @ \/ page.loading = "first"]
  /\ Follow(StoredForm, page'.mounted /\ (~page.mounted \/ saved # form.postalCode))
  /\ UNCHANGED <<saved, acts>>

\* It fails: the profile offers to try again.
LoadFailed ==
  /\ page.loading # "no"
  /\ page.loading = "first" => page.kind = "profile"
  /\ page' = [page EXCEPT !.loading = IF @ = "first" THEN @ ELSE "no",
                          !.busy = @ /\ page.loading # "own"]
  /\ UNCHANGED <<form, cep, lookups, saved, acts>>

\* The editor's form is one of its tabs: shown again, it starts idle and looks
\* its CEP up; hidden, its lookup is aborted.
Tab ==
  /\ page.kind = "editor" /\ page.loading # "first" /\ acts < MaxActs
  /\ page' = [page EXCEPT !.mounted = ~@]
  /\ IF page.mounted
     THEN lookups' = Aborted /\ cep' = "idle"
     ELSE lookups' = Looked(form) /\ cep' = StatusAfter(form, "idle")
  /\ acts' = acts + 1
  /\ UNCHANGED <<form, saved>>

\* The event is asked for again: by another tab whose panel changed it, or by
\* runAction(), which disables the form meanwhile.  One load at a time.
Reload ==
  /\ page.kind = "editor" /\ page.loading = "no" /\ ~page.busy
  /\ acts < MaxActs /\ acts' = acts + 1
  /\ page' = IF page.mounted THEN [page EXCEPT !.loading = "own", !.busy = TRUE]
             ELSE [page EXCEPT !.loading = "panel"]
  /\ UNCHANGED <<form, cep, lookups, saved>>

------------------------------------------------------------------------------
(* Typing *)

\* The page's own form is enabled while nothing is being saved; the profile's
\* fields stay enabled even then.
Typing == page.mounted /\ acts < MaxActs
            /\ (page.kind = "profile" \/ ~page.busy)

\* The status starts over even when the digits are the same, and then no effect
\* runs: the lookup under way, if any, goes on.
TypeCep(c) ==
  /\ Typing
  /\ acts' = acts + 1
  /\ form' = [form EXCEPT !.postalCode = c]
  /\ IF c = form.postalCode
     THEN cep' = "idle" /\ UNCHANGED lookups
     ELSE cep' = StatusAfter(form', "idle") /\ lookups' = Looked(form')
  /\ UNCHANGED <<page, saved>>

TypeField(f) ==
  /\ Typing
  /\ acts' = acts + 1
  /\ form' = [form EXCEPT ![f] = "typed"]
  /\ UNCHANGED <<page, cep, lookups, saved>>

------------------------------------------------------------------------------
(* The lookup's answer *)

\* Mutant: the handler does not look at the signal.
Heeded_Always(l) == TRUE

Heeded(l) == ~l.aborted

\* A field is filled if it is as the lookup found it.
Filled(f, l, found) ==
  IF form[f] = l.snapshot[f] /\ found # "empty" THEN found ELSE form[f]

\* lookupCep(): what the directory says of a CEP.
Street(l) == IF l.postalCode \in WithStreet THEN l.postalCode ELSE "empty"

CepFound(l) ==
  /\ l \in lookups
  /\ l.postalCode \in Ceps
  /\ lookups' = lookups \ {l}
  /\ IF Heeded(l)
     THEN /\ form' = [form EXCEPT !.city = Filled("city", l, l.postalCode),
                                  !.street = Filled("street", l, Street(l))]
          /\ cep' = "found"
     ELSE UNCHANGED <<form, cep>>
  /\ UNCHANGED <<page, saved, acts>>

\* Not in the directory, or no usable answer.
CepFailed(l) ==
  /\ l \in lookups
  /\ lookups' = lookups \ {l}
  /\ \E status \in {"unavailable"} \cup (IF l.postalCode = "unknown" THEN {"notFound"} ELSE {}) :
       cep' = IF Heeded(l) THEN status ELSE cep
  /\ UNCHANGED <<page, form, saved, acts>>

------------------------------------------------------------------------------
(* Saving *)

\* handleSubmit() of the editor asks for more than submit() of the profile.
Passes == cep \notin (IF page.kind = "editor" THEN {"idle", "loading", "notFound"}
                      ELSE {"loading", "notFound"})

Submit ==
  /\ page.mounted /\ ~page.busy
  /\ IF form.postalCode \notin Complete
     THEN cep' = "notFound" /\ UNCHANGED <<page, saved>>
     ELSE /\ Passes
          /\ page' = [page EXCEPT !.busy = TRUE]
          /\ UNCHANGED cep
          /\ saved' \in {saved, form.postalCode}
  /\ UNCHANGED <<form, lookups, acts>>

\* A refusal and the profile's own answer only enable the page.
Enabled ==
  /\ page' = [page EXCEPT !.busy = FALSE]
  /\ UNCHANGED <<form, cep, lookups>>

\* The editor loads the event first.  A new event goes on in the page of one that
\* exists.
Saved ==
  /\ page.busy /\ page.loading = "no"
  /\ \/ Enabled
     \/ page.kind = "editor" /\ page' = [page EXCEPT !.loading = "own"]
        /\ UNCHANGED <<form, cep, lookups>>
     \/ /\ page.kind = "new" /\ Kept
        /\ page' = [kind |-> "editor", mounted |-> FALSE, busy |-> FALSE,
                    loading |-> "first"]
        /\ form' = Blank /\ cep' = "idle" /\ lookups' = Aborted
  /\ UNCHANGED <<saved, acts>>

Next ==
  \/ Loaded \/ LoadFailed \/ Tab \/ Reload \/ Submit \/ Saved
  \/ \E c \in Typeable : TypeCep(c)
  \/ \E f \in {"city", "street"} : TypeField(f)
  \/ \E l \in lookups : CepFound(l) \/ CepFailed(l)

Spec == Init /\ [][Next]_vars

------------------------------------------------------------------------------
(* Properties *)

\* When the page says the CEP was found, city and street are that CEP's unless
\* they were typed or loaded from the server: never those of a CEP typed before,
\* in whatever order the lookups answer.  A CEP without a street of its own
\* keeps the one that was there.
AddressFitsCep ==
  cep = "found" =>
    /\ form.city \in {form.postalCode, "typed", "stored"}
    /\ form.postalCode \in WithStreet =>
         form.street \in {form.postalCode, "typed", "stored"}

------------------------------------------------------------------------------
(* The inductive invariant behind the theorem of PagesProofs *)

Page == [kind : {"profile", "editor", "new"}, mounted : BOOLEAN, busy : BOOLEAN,
         loading : {"no", "first", "own", "panel"}]
Form == [postalCode : Typeable, city : Sources, street : Sources]
Lookup == [postalCode : Complete, snapshot : Form, aborted : BOOLEAN]

\* A lookup the form listens to is that of its CEP, and a field that is not as the
\* lookup found it was filled for that CEP, typed or loaded since; a form that is
\* hidden listens to none, and only that of the editor is loaded over.
AddressInv ==
  /\ page \in Page /\ form \in Form /\ lookups \subseteq Lookup
  /\ saved \in Complete \cup {"partial"}
  /\ page.kind = "editor" => saved \in Complete
  /\ page.mounted /\ page.loading # "no" => page.kind = "editor"
  /\ ~page.mounted => cep = "idle" /\ \A l \in lookups : l.aborted
  /\ \A l \in lookups :
       ~l.aborted =>
         /\ l.postalCode = form.postalCode
         /\ form.city \in {l.snapshot.city, l.postalCode, "typed", "stored"}
         /\ form.street \in {l.snapshot.street, l.postalCode, "typed", "stored"}
  /\ AddressFitsCep
===============================================================================
