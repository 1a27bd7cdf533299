--------------------------- MODULE MCLivePredict ---------------------------
(* Both operators, without static measurements and comparisons at every      *)
(* index or at every second one, and with them at every second one.          *)
EXTENDS LivePredict

MCConfigs ==
    {c \in [captureStatic : BOOLEAN, compareFrequency : {1, 2},
            operator : {"documented", "careful"}] :
        c.captureStatic => c.compareFrequency = 2}
=============================================================================
