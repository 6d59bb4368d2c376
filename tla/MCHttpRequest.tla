--------------------------- MODULE MCHttpRequest ----------------------------
(* Two requests over all routes, one with an identifier of its own, and      *)
(* stored readiness values that have to be normalised.                       *)
EXTENDS HttpRequest

MCInputs == {[route |-> livezPath, method |-> "GET", body |-> FALSE],
             [route |-> readyzPath, method |-> "GET", body |-> FALSE],
             [route |-> readyzPath, method |-> "GET", body |-> TRUE],
             [route |-> livezPath, method |-> "HEAD", body |-> FALSE],
             [route |-> "/missing", method |-> "GET", body |-> FALSE]}
MCStored == {[Ready |-> TRUE, Reason |-> ReasonDraining], [Ready |-> FALSE, Reason |-> FreeText]}
MCLogConfigs == {[writer |-> w, level |-> l, format |-> f] :
                    w \in {"nil", "stderr"}, l \in {"info", "error", "verbose"}, f \in {"json", "xml"}}
MCRecords == [event : HttpEvents, id : Nat, status : Nat]
=============================================================================
