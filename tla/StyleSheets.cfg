SPECIFICATION TrackerSpec
CONSTANTS
    css1 = css1  css2 = css2
    ep1 = ep1  ep2 = ep2  ep2b = ep2b  ep3 = ep3  ep4 = ep4
    Sheets = {css1, css2}
    Mounts = {ep1, ep2, ep2b, ep3, ep4}
    SheetsOf <- MCSheetsOf
    Nobody = Nobody
INVARIANTS OnPageIffActive
CHECK_DEADLOCK FALSE
