SPECIFICATION Spec
CONSTANTS
  Codes <- huffman_codes
  Texts <- MCTexts
INVARIANTS CanonicalTree BitsAccounted TextRecovered
