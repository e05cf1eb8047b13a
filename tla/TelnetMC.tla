------------------------------ MODULE TelnetMC ------------------------------
(* Telnet for TLC: payloads whose bytes are those of the protocol, and one    *)
(* telnet command of each kind.                                               *)
EXTENDS Telnet

PayloadsAll == {<<"x", "IAC", "EOR">>, <<"x", "IAC", "SB">>, <<"x", "IAC", "DO", "IAC", "EOR">>}
CommandsAll == {<<"IAC", "DO", "TTYPE">>, <<"IAC", "WILL", "OTHER">>, <<"IAC", "WONT", "BIN">>,
                <<"IAC", "SB", "TTYPE", "SEND", "IAC", "SE">>, <<"IAC", "NOP">>,
                <<"IAC", "SB", "ENV", "IAC", "IAC", "IAC", "SE">>}
=============================================================================
