------------------------------ MODULE MCBackup -------------------------------
(* Two components whose codes share a slug, one of a type without a name   *)
(* whose code has no slug, and a unit.                                     *)
EXTENDS Backup
CONSTANTS p1, p2

MCEntityRefs == <<"html:A", "html:a", "note::_", "u">>
MCKindOf == "html:a" :> "html" @@ "html:A" :> "html" @@ "note::_" :> "note:" @@ "u" :> "unit"
MCNameOf == "html:a" :> "a" @@ "html:A" :> "A" @@ "note::_" :> "_" @@ "u" :> "u"
MCSlug == "a" :> "a" @@ "A" :> "a" @@ "_" :> "" @@ "u" :> "u"
MCOddTypes == {"note:"}
MCCodes == {"u"}
MCSymmetry == Permutations(Packages)
Text(data) == {[path |-> "block.xml", data |-> data]}
Asset == {[path |-> "static/f", data |-> "d3"]}
Row(e, pin) == [entity |-> e, pin |-> pin]
MCContents ==
    "html:a" :> {Text("d1"), Text("") \cup Asset} @@
    "html:A" :> {Text("d2")} @@
    "note::_" :> {Text("d1")} @@
    "u" :> {<<Row("html:A", 1), Row("html:a", 0)>>}
==============================================================================
