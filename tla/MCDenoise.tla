----------------------------- MODULE MCDenoise -----------------------------
(***************************************************************************)
(* Denoise for TLC.  A sample is a residue modulo a prime and every kernel *)
(* a different polynomial, so that two computations that combine different *)
(* buffers, sigmas or orders end in different residues.                    *)
(***************************************************************************)
EXTENDS Denoise

Prime == 10007

MCRamp(recipe, n, k) ==
  (CASE recipe = "dev" -> 1 [] recipe = "flash" -> 5001 [] OTHER -> 10001) + 65 * n + n - k
MCNoise(k) == (37 * k + 11) % Prime
MCScale(k, n) == (53 * k + 7 * n + 3) % Prime
MCNarrow(x) == (3 * x + 1) % Prime
MCUpcast(x) == (5 * x + 2) % Prime
MCVelocity(b, z, s) ==
  (7 * z + 19 * s + (CASE b = "prompt" -> 3 [] b = "no prompt" -> 14 [] OTHER -> 25)) % Prime
MCGuide(c, u) == (23 * c + 29 * u + 4) % Prime
MCConvert(z, m, s) == (31 * z + 37 * m + 41 * s + 5) % Prime
MCCorrect1(l, m0, c, t, s) == (43 * l + 47 * m0 + 53 * c + 59 * t + 61 * s + 6) % Prime
MCCorrect2(l, m0, m1, c, t, s, m) ==
  (67 * l + 71 * m0 + 73 * m1 + 79 * c + 83 * t + 89 * s + 97 * m + 7) % Prime
MCPredict1(z, m0, t, s) == (101 * z + 103 * m0 + 107 * t + 109 * s + 8) % Prime
MCPredict2(z, m0, m1, t, s, m) ==
  (113 * z + 127 * m0 + 131 * m1 + 137 * t + 139 * s + 149 * m + 9) % Prime
MCDenoised(z, m, s) == (151 * z + 157 * m + 163 * s + 10) % Prime
MCRenoise(e, d, s, n) == (167 * e + 173 * d + 179 * s + 181 * n + 12) % Prime
MCFlowStep(z, m, s, t) == (191 * z + 193 * m + 197 * s + 199 * t + 13) % Prime

=============================================================================
