SPECIFICATION FairSpec
CONSTANTS
    p = p  q = q  x = x  y = y  s = s  t = t
    xs = xs  xt = xt  xu = xu  yq = yq  yd = yd  yr = yr
    atX = atX  atY = atY
    Plugins = {p, q}
    Points = {x, y}
    Types = {s, t}
    Components = {xs, xt, xu, yq, yd, yr}
    PluginOf <- MCPluginOf
    PointOf <- MCPointOf
    TypeOf <- MCTypeOf
    Declared = {xs, xt, xu, yq, yd}
    Exported = {xs, xt, xu, yq, yr}
    Untyped = Untyped
    NoFilter = NoFilter
    Classes <- MCClasses
    Renderers = {atX, atY}
    RendersPoint <- MCRendersPoint
    Filters = {t, s, Untyped, NoFilter}
    MaxCalls = 3
    MaxFailures = 1
INVARIANTS Complete MostSpecific NoLostCallback NeverLeftBlank
PROPERTY Settles
CHECK_DEADLOCK FALSE
