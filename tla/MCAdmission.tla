---------------------------- MODULE MCAdmission ----------------------------
(***************************************************************************)
(* The instance of Admission that TLC checks: two volumes of different     *)
(* sizes, one of which is moved, and two Pools, one of which is deleted or *)
(* retired.  A Pool has room for either volume and not for both.           *)
(***************************************************************************)
EXTENDS Admission, TLC

CONSTANTS v1, v2, p1, p2

MCSize == (v1 :> 2) @@ (v2 :> 1)
MCLimit == (p1 :> 2) @@ (p2 :> 2)

=============================================================================
