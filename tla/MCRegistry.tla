------------------------------ MODULE MCRegistry ------------------------------
(* One free name, one reserved for both sorts and one for commands only; the *)
(* chassis has a handler for one name of each sort.                        *)
EXTENDS Registry

MCNames == {"grow", "describe", "entity-set-labels"}
MCReservedCommands == {"describe", "entity-set-labels"}
MCReservedQueries == {"describe"}
MCOwnCommands == {"entity-set-labels"}
MCOwnQueries == {"describe"}

=============================================================================
