---------------------------- MODULE MC_Extensions ----------------------------
(* Two plugins and two points: on x an extension of type s by p and two of  *)
(* its subtype t by q, on y an untyped one by q, one p only declares and    *)
(* one p only registers.                                                    *)
EXTENDS Extensions

CONSTANTS p, q, x, y, s, t, xs, xt, xu, yq, yd, yr, atX, atY

MCPluginOf == [e \in Components |-> IF e \in {xs, yd, yr} THEN p ELSE q]
MCPointOf == [e \in Components |-> IF e \in {xs, xt, xu} THEN x ELSE y]
MCTypeOf == [e \in Components |-> CASE e = xs -> s [] e \in {xt, xu} -> t [] OTHER -> Untyped]
MCClasses == [k \in Types |-> IF k = t THEN <<t, s>> ELSE <<s>>]
MCRendersPoint == [r \in Renderers |-> IF r = atX THEN x ELSE y]
=============================================================================
