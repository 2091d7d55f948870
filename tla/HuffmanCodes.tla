---------------------------- MODULE HuffmanCodes ----------------------------
(***************************************************************************)
(* The code table of hpack_huffman.cc, which RFC 7541 gives in appendix B. *)
(***************************************************************************)
EXTENDS Naturals

\* len and bits of each symbol, from 0 to EOS.
huffman_codes ==
  <<<<13, \h1ff8>>, <<23, \h7fffd8>>, <<28, \hfffffe2>>, <<28, \hfffffe3>>,
    <<28, \hfffffe4>>, <<28, \hfffffe5>>, <<28, \hfffffe6>>, <<28, \hfffffe7>>,
    <<28, \hfffffe8>>, <<24, \hffffea>>, <<30, \h3ffffffc>>, <<28, \hfffffe9>>,
    <<28, \hfffffea>>, <<30, \h3ffffffd>>, <<28, \hfffffeb>>,
    <<28, \hfffffec>>, <<28, \hfffffed>>, <<28, \hfffffee>>, <<28, \hfffffef>>,
    <<28, \hffffff0>>, <<28, \hffffff1>>, <<28, \hffffff2>>,
    <<30, \h3ffffffe>>, <<28, \hffffff3>>, <<28, \hffffff4>>,
    <<28, \hffffff5>>, <<28, \hffffff6>>, <<28, \hffffff7>>, <<28, \hffffff8>>,
    <<28, \hffffff9>>, <<28, \hffffffa>>, <<28, \hffffffb>>, <<6, \h14>>,
    <<10, \h3f8>>, <<10, \h3f9>>, <<12, \hffa>>, <<13, \h1ff9>>, <<6, \h15>>,
    <<8, \hf8>>, <<11, \h7fa>>, <<10, \h3fa>>, <<10, \h3fb>>, <<8, \hf9>>,
    <<11, \h7fb>>, <<8, \hfa>>, <<6, \h16>>, <<6, \h17>>, <<6, \h18>>,
    <<5, \h0>>, <<5, \h1>>, <<5, \h2>>, <<6, \h19>>, <<6, \h1a>>, <<6, \h1b>>,
    <<6, \h1c>>, <<6, \h1d>>, <<6, \h1e>>, <<6, \h1f>>, <<7, \h5c>>,
    <<8, \hfb>>, <<15, \h7ffc>>, <<6, \h20>>, <<12, \hffb>>, <<10, \h3fc>>,
    <<13, \h1ffa>>, <<6, \h21>>, <<7, \h5d>>, <<7, \h5e>>, <<7, \h5f>>,
    <<7, \h60>>, <<7, \h61>>, <<7, \h62>>, <<7, \h63>>, <<7, \h64>>,
    <<7, \h65>>, <<7, \h66>>, <<7, \h67>>, <<7, \h68>>, <<7, \h69>>,
    <<7, \h6a>>, <<7, \h6b>>, <<7, \h6c>>, <<7, \h6d>>, <<7, \h6e>>,
    <<7, \h6f>>, <<7, \h70>>, <<7, \h71>>, <<7, \h72>>, <<8, \hfc>>,
    <<7, \h73>>, <<8, \hfd>>, <<13, \h1ffb>>, <<19, \h7fff0>>, <<13, \h1ffc>>,
    <<14, \h3ffc>>, <<6, \h22>>, <<15, \h7ffd>>, <<5, \h3>>, <<6, \h23>>,
    <<5, \h4>>, <<6, \h24>>, <<5, \h5>>, <<6, \h25>>, <<6, \h26>>, <<6, \h27>>,
    <<5, \h6>>, <<7, \h74>>, <<7, \h75>>, <<6, \h28>>, <<6, \h29>>,
    <<6, \h2a>>, <<5, \h7>>, <<6, \h2b>>, <<7, \h76>>, <<6, \h2c>>, <<5, \h8>>,
    <<5, \h9>>, <<6, \h2d>>, <<7, \h77>>, <<7, \h78>>, <<7, \h79>>,
    <<7, \h7a>>, <<7, \h7b>>, <<15, \h7ffe>>, <<11, \h7fc>>, <<14, \h3ffd>>,
    <<13, \h1ffd>>, <<28, \hffffffc>>, <<20, \hfffe6>>, <<22, \h3fffd2>>,
    <<20, \hfffe7>>, <<20, \hfffe8>>, <<22, \h3fffd3>>, <<22, \h3fffd4>>,
    <<22, \h3fffd5>>, <<23, \h7fffd9>>, <<22, \h3fffd6>>, <<23, \h7fffda>>,
    <<23, \h7fffdb>>, <<23, \h7fffdc>>, <<23, \h7fffdd>>, <<23, \h7fffde>>,
    <<24, \hffffeb>>, <<23, \h7fffdf>>, <<24, \hffffec>>, <<24, \hffffed>>,
    <<22, \h3fffd7>>, <<23, \h7fffe0>>, <<24, \hffffee>>, <<23, \h7fffe1>>,
    <<23, \h7fffe2>>, <<23, \h7fffe3>>, <<23, \h7fffe4>>, <<21, \h1fffdc>>,
    <<22, \h3fffd8>>, <<23, \h7fffe5>>, <<22, \h3fffd9>>, <<23, \h7fffe6>>,
    <<23, \h7fffe7>>, <<24, \hffffef>>, <<22, \h3fffda>>, <<21, \h1fffdd>>,
    <<20, \hfffe9>>, <<22, \h3fffdb>>, <<22, \h3fffdc>>, <<23, \h7fffe8>>,
    <<23, \h7fffe9>>, <<21, \h1fffde>>, <<23, \h7fffea>>, <<22, \h3fffdd>>,
    <<22, \h3fffde>>, <<24, \hfffff0>>, <<21, \h1fffdf>>, <<22, \h3fffdf>>,
    <<23, \h7fffeb>>, <<23, \h7fffec>>, <<21, \h1fffe0>>, <<21, \h1fffe1>>,
    <<22, \h3fffe0>>, <<21, \h1fffe2>>, <<23, \h7fffed>>, <<22, \h3fffe1>>,
    <<23, \h7fffee>>, <<23, \h7fffef>>, <<20, \hfffea>>, <<22, \h3fffe2>>,
    <<22, \h3fffe3>>, <<22, \h3fffe4>>, <<23, \h7ffff0>>, <<22, \h3fffe5>>,
    <<22, \h3fffe6>>, <<23, \h7ffff1>>, <<26, \h3ffffe0>>, <<26, \h3ffffe1>>,
    <<20, \hfffeb>>, <<19, \h7fff1>>, <<22, \h3fffe7>>, <<23, \h7ffff2>>,
    <<22, \h3fffe8>>, <<25, \h1ffffec>>, <<26, \h3ffffe2>>, <<26, \h3ffffe3>>,
    <<26, \h3ffffe4>>, <<27, \h7ffffde>>, <<27, \h7ffffdf>>, <<26, \h3ffffe5>>,
    <<24, \hfffff1>>, <<25, \h1ffffed>>, <<19, \h7fff2>>, <<21, \h1fffe3>>,
    <<26, \h3ffffe6>>, <<27, \h7ffffe0>>, <<27, \h7ffffe1>>, <<26, \h3ffffe7>>,
    <<27, \h7ffffe2>>, <<24, \hfffff2>>, <<21, \h1fffe4>>, <<21, \h1fffe5>>,
    <<26, \h3ffffe8>>, <<26, \h3ffffe9>>, <<28, \hffffffd>>, <<27, \h7ffffe3>>,
    <<27, \h7ffffe4>>, <<27, \h7ffffe5>>, <<20, \hfffec>>, <<24, \hfffff3>>,
    <<20, \hfffed>>, <<21, \h1fffe6>>, <<22, \h3fffe9>>, <<21, \h1fffe7>>,
    <<21, \h1fffe8>>, <<23, \h7ffff3>>, <<22, \h3fffea>>, <<22, \h3fffeb>>,
    <<25, \h1ffffee>>, <<25, \h1ffffef>>, <<24, \hfffff4>>, <<24, \hfffff5>>,
    <<26, \h3ffffea>>, <<23, \h7ffff4>>, <<26, \h3ffffeb>>, <<27, \h7ffffe6>>,
    <<26, \h3ffffec>>, <<26, \h3ffffed>>, <<27, \h7ffffe7>>, <<27, \h7ffffe8>>,
    <<27, \h7ffffe9>>, <<27, \h7ffffea>>, <<27, \h7ffffeb>>, <<28, \hffffffe>>,
    <<27, \h7ffffec>>, <<27, \h7ffffed>>, <<27, \h7ffffee>>, <<27, \h7ffffef>>,
    <<27, \h7fffff0>>, <<26, \h3ffffee>>, <<30, \h3fffffff>>>>

=============================================================================
