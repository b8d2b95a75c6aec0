---------------------------- MODULE MC_StyleSheets ----------------------------
(* The extension points of ResourceLoadTracker-spec.js: ep-1 has extensions   *)
(* in two plugins, ep-2 and ep-3 in one each; ep-2 is mounted twice, and ep-4 *)
(* has no style sheet.                                                        *)
EXTENDS StyleSheets

CONSTANTS css1, css2, ep1, ep2, ep2b, ep3, ep4

MCSheetsOf == [m \in Mounts |->
    CASE m = ep1 -> <<css1, css2>> [] m = ep3 -> <<css2>> [] m = ep4 -> <<>> [] OTHER -> <<css1>>]
=============================================================================
