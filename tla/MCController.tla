---------------------------- MODULE MCController ----------------------------
(***************************************************************************)
(* Instances of Controller for TLC: two nodes, two selectors as in the     *)
(* default --ingress-node-labels, at most one Ingress object.              *)
(***************************************************************************)
EXTENDS Controller, TLC

TwoNodes == {"n1", "n2"}
Rank == [n \in TwoNodes |-> IF n = "n1" THEN 1 ELSE 2]

KeyLabel == "node-role.kubernetes.io/ingress"
Empty == <<"">>
IngressRole == <<"ingress">>
OtherRole == <<"other">>

\* "node-role.kubernetes.io/ingress,,role=ingress"
BothLabels == << <<KeyLabel>>, <<>>, <<"role", IngressRole>> >>

Hosts == {"app.cern.ch", "web.cern.ch", "example.org"}
Alias == [h \in Hosts |-> CASE h = "app.cern.ch" -> "app" [] h = "web.cern.ch" -> "web" [] OTHER -> "none"]
Ranks == [a \in {"app", "web"} |-> IF a = "app" THEN 1 ELSE 2]

None == [k \in {} |-> <<>>]
Labelled == KeyLabel :> Empty
WithRole == "role" :> IngressRole
Set(value) == "landb.cern.ch/set" :> value

Obj(labels, annotations, ready) == [labels |-> labels, annotations |-> annotations, ready |-> ready]

Plain        == Obj(None, None, "True")
PlainSet     == Obj(None, Set(<<"x", "", "y", "x">>), "True")
PlainSetDown == Obj(None, Set(<<"x", "", "y", "x">>), "False")
Ingress1     == Obj(Labelled, None, "True")
Ingress1Down == Obj(Labelled, None, "")
Ingress2     == Obj(WithRole, None, "True")
IngressBoth  == Obj(Labelled @@ WithRole, Set(<<"x">>), "True")
OtherLabel   == Obj("role" :> OtherRole @@ Set(<<"y">>), None, "True")

Objects == {Plain, PlainSet, PlainSetDown, Ingress1, Ingress1Down, Ingress2, IngressBoth, OtherLabel}

StartNodes == {
    "n1" :> Ingress1 @@ "n2" :> Ingress2,
    "n1" :> Absent @@ "n2" :> PlainSet,
    "n1" :> Plain @@ "n2" :> IngressBoth}

StartIngresses == {"i1" :> {"app.cern.ch"}, [i \in {} |-> {}]}
StartServed == {[n \in TwoNodes |-> {[alias |-> "web", load |-> 1]}]}
StartSet == {[n \in TwoNodes |-> <<"x">>]}
SmallHostSets == {{"app.cern.ch"}, {"web.cern.ch", "example.org"}}

\* Any of the three disturbances together, or two changes.
OneOfEach == {[changes |-> 1, faults |-> 1, crashes |-> 1]}
OneOfEachOrTwoChanges == OneOfEach \cup {[changes |-> 2, faults |-> 0, crashes |-> 0]}
OneChange == {[changes |-> 1, faults |-> 0, crashes |-> 0]}

\* For liveness.
OneStart == {"n1" :> Ingress1 @@ "n2" :> Ingress2}
FewObjects == {PlainSet, PlainSetDown, Ingress1, Ingress2, IngressBoth}
=============================================================================
