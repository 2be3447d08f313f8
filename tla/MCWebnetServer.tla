--------------------------- MODULE MCWebnetServer ---------------------------
(* An instance of the web server for TLC.                                   *)
EXTENDS WebnetServer

CONSTANTS c1, c2

R(m, u, r) == [method |-> m, uri |-> u, range |-> r]

MCRequests ==
  [c \in {c1, c2} |->
     IF c = c1 THEN {R("GET", "/", "no"), R("GET", "logo", "part"), R("HEADER", "logo", "part"),
                     R("POST", "absent", "no"), R("GET", "refused", "no"), R("unknown", "logo", "no")}
     ELSE {R("GET", "logo", "no")}]

=============================================================================
