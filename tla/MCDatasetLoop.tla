--------------------------- MODULE MCDatasetLoop ---------------------------
EXTENDS DatasetLoop

Config(n, durations, mode, retries, size, messages) ==
    [NUM_DATACENTERS |-> n, runForDurations |-> durations, RUN_MODE |-> mode,
     maxRetries |-> retries, datasetSize |-> size,
     statusProgressMsgEnabled |-> messages]

\* Three durations, where the scripts are sent anew each time: all kinds of
\* calls, data centers drawn for every sample, a second failed call; the shipped
\* duration with a fixed set of data centers; static bandwidths only; and the
\* example of config.cfg, where a duration begins like another one.  With the
\* shipped duration and an error the loop may get stuck (see README), so no error
\* is injected there.
MCConfigs == {Config(2, <<5, 20>>, "BOTH", 1, 2, TRUE),
              Config(3, <<5, 20>>, "DYNAMIC", 1, 2, TRUE),
              Config(2, <<5, 20>>, "DYNAMIC", 1, 2, FALSE),
              Config(2, <<20>>, "DYNAMIC", 2, 3, TRUE),
              Config(3, <<20, 1>>, "STATIC", 1, 3, TRUE),
              Config(2, <<2, 15, 30>>, "DYNAMIC", 0, 2, TRUE)}

MCErrors == [c \in MCConfigs |-> IF c.runForDurations = <<20>> THEN 0
                                 ELSE IF c.statusProgressMsgEnabled THEN 1 ELSE 2]

\* The shipped duration and mode, data centers drawn for every sample.
MCShipped == {Config(3, <<20>>, "DYNAMIC", 3, 2, TRUE)}
MCNoErrors == [c \in MCShipped |-> 0]
=============================================================================
