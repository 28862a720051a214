---------------------------- MODULE MCTagEvents ------------------------------
EXTENDS TagEvents
CONSTANTS v1, v2
MCValues == {v1, v2}
Setting(free_text, multiple, enabled) ==
    [export_id |-> "e1", enabled |-> enabled, allow_multiple |-> multiple,
     allow_free_text |-> free_text, read_only |-> FALSE]
MCSettings == {Setting(FALSE, TRUE, TRUE)}
MCTagLists == {<<v1>>, <<v1, v2>>}
==============================================================================
