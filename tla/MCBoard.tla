------------------------------ MODULE MCBoard ------------------------------
(* Board for TLC: the V1B (no alias, SPI multiplexers, flash), a board      *)
(* with an I2C multiplexer and flash, and GPIO alone.                       *)
EXTENDS Board

CONSTANTS p1, p2

Config(alias, muxes, flash) == [alias |-> alias, muxes |-> muxes, flash |-> flash]

SomeConfigs == {ConfigV1b, Config(TRUE, <<"I2C">>, TRUE),
                Config(TRUE, <<>>, FALSE)}
GpioConfigs == {Config(TRUE, <<>>, FALSE)}
MuxConfigs  == {Config(TRUE, <<"I2C">>, FALSE)}
V1bConfigs  == {ConfigV1b}
=============================================================================
