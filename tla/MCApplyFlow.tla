---------------------------- MODULE MCApplyFlow ----------------------------
(* Pages for the runs of ApplyFlow: a posting with two Apply-like controls,  *)
(* a form, a form's second page, a page with nothing but a submit button, a  *)
(* form no line of which is legible, and one that asks to confirm an email.  *)
EXTENDS ApplyFlow

Field(role, name) == [role |-> role, name |-> name, legible |-> TRUE]

Posting  == <<Field("button", {"save"}), Field("link", {"apply for"}), Field("button", {"apply now"})>>
Form     == <<Field("textbox", {"first name"}), Field("textbox", {"last name"}),
              Field("combobox", {"state", "united"}), Field("checkbox", {"agree"}),
              Field("textbox", {"cover letter"}), Field("textbox", {"email"}),
              Field("button", {"submit application"})>>
Consents == <<Field("checkbox", {"consent"}), Field("button", {"submit application"})>>
Illegible == <<[role |-> "textbox", name |-> {}, legible |-> FALSE], Field("button", {"apply"})>>
Confirm  == <<Field("textbox", {"email", "confirm"}), Field("textbox", {"phone"})>>

SomePages == {Posting, Form, Consents, Illegible, Confirm, <<>>}

\* A candidate of one name, and one with an address.
OneName  == [NoProfile EXCEPT !.words = 1, !.has = {"email"}]
Complete == [NoProfile EXCEPT !.words = 2, !.has = {"email", "phone"}, !.address = <<3, 1, 2>>]
TwoProfiles == {OneName, Complete}
==============================================================================
