--------------------------- MODULE MCCameraDevices ---------------------------
(***************************************************************************)
(* Two processes; the first has a device for each of two cameras, the other *)
(* one for a third camera, and one for a camera of the first.               *)
(***************************************************************************)
EXTENDS CameraDevices

CONSTANTS p1, p2, A, B, C, a1, b1, c2, a2

Owners == a1 :> p1 @@ b1 :> p1 @@ c2 :> p2 @@ a2 :> p2
Cameras == a1 :> A @@ b1 :> B @@ c2 :> C @@ a2 :> A

Costs(a, b, c) == A :> a @@ B :> b @@ C :> c

\* The third camera does not fit beside the two others; it conflicts with both of them;
\* two devices compete for a camera; while the HDI's host is away the table of concurrent
\* cameras decides beside a holder in conflict; there are no costs, and two pairs may be concurrent.
W(devices, cost, conflicts, actors) ==
  [devices |-> devices, priced |-> TRUE, cost |-> cost, conflicts |-> conflicts, table |-> {},
   actors |-> actors]

Workloads == {
  W({a1, b1, c2}, Costs(40, 60, 50), {}, {}),
  W({a1, b1, c2}, Costs(10, 10, 90), {<<A, C>>, <<C, B>>}, {}),
  W({a1, a2}, Costs(10, 10, 10), {}, {"permission"}),
  W({a1, a2}, Costs(10, 10, 10), {}, {"host"}),
  W({a1}, Costs(10, 10, 10), {}, {"permission", "refusal", "host"}),
  W({a1, b1}, Costs(40, 50, 10), {}, {"permission"}),
  W({a1, b1}, Costs(40, 50, 10), {}, {"refusal"}),
  W({a1, b1}, Costs(60, 60, 10), {}, {"host"}),
  [W({a1, c2}, Costs(10, 10, 90), {<<A, C>>}, {"host"}) EXCEPT !.table = {{A}, {C}}],
  [W({a1, b1, c2}, Costs(10, 10, 10), {}, {}) EXCEPT !.priced = FALSE, !.table = {{A, B}, {B, C}}]}
=============================================================================
