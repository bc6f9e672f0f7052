CONSTANTS
    Turns = {t1, t2}
    Agents = {a1}
    Tickets = {k1, k2}
    Nobody = Nobody
    NoTicket = NoTicket
SYMMETRY Symmetry
SPECIFICATION Spec
INVARIANT HumanReachable
