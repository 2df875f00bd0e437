----------------------------- MODULE MCQueueRun -----------------------------
(***************************************************************************)
(* QueueRun on small sites.  A site is a table: a page, what it reads as   *)
(* and why, its place, its step and its host.                              *)
(***************************************************************************)
EXTENDS QueueRun

Row(kind, by, place, step, host) ==
  [kind |-> kind, by |-> by, place |-> place, step |-> step, host |-> host]
Field(site, name) == [p \in DOMAIN site |-> site[p][name]]

(* Two steps, then a review page whose Apply is its Submit, or one with    *)
(* fields and no Next; and one more of those, where the tab may be moved.  *)
Wizard == [one |-> Row("form_step", "none", "one", "one", "ats"),
           two |-> Row("form_step", "none", "two", "two", "ats"),
           draft |-> Row("posting", "none", "draft", "draft", "ats"),
           last |-> Row("review", "fields_no_next", "last", "last", "ats"),
           more |-> Row("review", "submit_seen", "more", "more", "ats")]
WizardPages == DOMAIN Wizard
WizardKind == Field(Wizard, "kind")
WizardBy == Field(Wizard, "by")
WizardPlace == Field(Wizard, "place")
WizardStep == Field(Wizard, "step")
WizardHost == Field(Wizard, "host")
WizardApplyTo == [p \in WizardPages |-> "ats"]
WizardLinks == {<<"one", "two">>, <<"two", "draft">>, <<"two", "last">>}

(* A career page that leads to another host, where the job starts with a   *)
(* chooser, a sign-up and a sign-in, may restore a draft, or lead back; a  *)
(* sign-up may draw the first step in its place, and what a sign-in leads  *)
(* to may read as nothing known.                                           *)
Gate == [post |-> Row("posting", "none", "post", "post", "own"),
         start |-> Row("chooser", "none", "start", "start", "ats"),
         up |-> Row("create_account", "none", "up", "up", "ats"),
         in |-> Row("sign_in", "none", "in", "in", "ats"),
         made |-> Row("form_step", "none", "up", "one", "ats"),
         bare |-> Row("unknown", "none", "bare", "bare", "ats"),
         one |-> Row("form_step", "none", "one", "one", "ats"),
         draft |-> Row("posting", "none", "draft", "draft", "ats"),
         thanks |-> Row("confirmation", "none", "thanks", "thanks", "ats")]
GatePages == DOMAIN Gate
GateKind == Field(Gate, "kind")
GateBy == Field(Gate, "by")
GatePlace == Field(Gate, "place")
GateStep == Field(Gate, "step")
GateHost == Field(Gate, "host")
GateApplyTo == [p \in GatePages |-> "ats"]
GateLinks == {<<"post", "start">>, <<"start", "up">>, <<"start", "in">>, <<"up", "in">>, <<"up", "made">>, <<"in", "bare">>,
              <<"in", "one">>, <<"in", "draft">>, <<"in", "thanks">>, <<"one", "draft">>,
              <<"one", "in">>}
=============================================================================
