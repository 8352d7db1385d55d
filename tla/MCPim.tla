-------------------------------- MODULE MCPim -------------------------------
EXTENDS Pim
Profiles == [listing : {"full", "delta"}, published : BOOLEAN,
             faults : {{"lose", "crash"}, {"reject", "stall", "fence"}}]
Delta == [listing : {"delta"}, published : BOOLEAN, faults : {{}}]
All == [listing : {"full"}, published : {FALSE}, faults : {{"stall"}, {"fence"}, {"reject", "crash"}}]
=============================================================================
