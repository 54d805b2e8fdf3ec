------------------------- MODULE MCMonitorDelivery --------------------------
(* The root, /a, /ab (a sibling whose name starts like it) and /a/b; two    *)
(* clients, two notices, every type and path of them.                       *)
EXTENDS MonitorDelivery
MCPaths == { << >>, <<<<"a">>>>, <<<<"a", "b">>>>, <<<<"a">>, <<"b">>>> }
=============================================================================
