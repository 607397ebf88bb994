--------------------------- MODULE MCTerrariaServer ---------------------------
EXTENDS TerrariaServer

CONSTANTS m1, m2

MCMods == {m1, m2}
MCRequests == {<<>>, <<m1>>, <<m1, m2>>}

===============================================================================
