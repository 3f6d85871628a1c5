---------------------------- MODULE MCDashboard ----------------------------
(***************************************************************************)
(* Dashboard with the tabs a and b on the same page, on the two pages that *)
(* decide about permissions, or with a on the general settings and a       *)
(* visitor at the doors.                                                   *)
(***************************************************************************)
EXTENDS Dashboard, TLC

CONSTANTS a, b

Both(fa, fb) == [t \in Tabs |-> IF t = a THEN fa ELSE fb]
Mirrored(plans) == plans \cup {Both(p[b], p[a]) : p \in plans}

\* The tabs are alike, since every plan has its mirror image.
Alike == Permutations(Tabs)

MCPlans == Mirrored({
  Both({"general"}, {}),
  Both({"general"}, {"general"}),
  Both({"general", "logo", "seo", "cloudflare"}, {}),
  Both({"matrix"}, {"matrix"}),
  Both({"matrix"}, {"overrides"}),
  Both({"auth"}, {"auth"}),
  Both({"user", "password"}, {"user"}),
  Both({"grants"}, {"grants"}),
  Both({"link"}, {"link"}),
  Both({"config", "send"}, {"config"})
})
=============================================================================
