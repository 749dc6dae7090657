------------------------- MODULE MCTemplateInstance -------------------------
(* A template of three objects: x of a native kind, c of a custom one and  *)
(* k, which is kept.  Its two versions change x and swap k for c.          *)
EXTENDS TemplateInstance

CONSTANTS x, c, k, v1, v2

MCObjs == {x, c, k}
MCTemplates ==
  {[o \in MCObjs |-> IF o = c THEN Absent ELSE v1],
   [o \in MCObjs |-> IF o = k THEN Absent ELSE v2]}
=============================================================================
