----------------------------- MODULE MCAgentTui -----------------------------
EXTENDS AgentTui

MCIds == <<"s1", "s2">>
MCTyped == {<<"chat", "none">>, <<"exit", "none">>, <<"clear", "none">>, <<"key", "ctrl-c">>,
            <<"key", "ctrl-d">>, <<"key", "enter">>, <<"session", "s1">>,
            <<"session", "A">>, <<"new", "A">>, <<"rename", "A">>, <<"delete", "D">>,
            <<"delete", "s2">>, <<"export", "D">>, <<"import", "copy">>,
            <<"cli", "init">>, <<"cli", "host">>}
MCAnswers == {<<"none", "none">>, <<"chat", "none">>, <<"clear", "none">>}
==============================================================================
